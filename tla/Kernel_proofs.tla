----------------------------- MODULE Kernel_proofs -----------------------------
(***************************************************************************)
(* Proofs about two parts of the kernel that stand alone.                  *)
(*                                                                         *)
(* The heap, for every size of a page, of the heap and of its headers, and *)
(* every set of sizes asked for: however kmalloc, kfree, vmmAllocPages and *)
(* vmmFreePages call each other, memory has one use each, one call takes   *)
(* or gives one piece, and kmalloc refuses only what there is no room for. *)
(*                                                                         *)
(* The receive ring, for every number of descriptors and every set of      *)
(* frames: a descriptor that RINT announced is at hand, and the ring with  *)
(* its driver implements the queue of RxQueue.                             *)
(***************************************************************************)
EXTENDS KernelHeap, Nic, Counting, SequenceTheorems

-----------------------------------------------------------------------------
(***************************************************************************)
(* Pages, and rows of ranges of pages that cover the heap without meeting: *)
(* what merging two neighbours and splitting one leave.                    *)
(***************************************************************************)
(* Pages.                                                                  *)
Page(x) == x \div PageSize
Aligned(x) == x \in Nat /\ x = Page(x) * PageSize

LEMMA Constants ==
  /\ PageSize \in Nat /\ PageSize > 0 /\ PageCount \in Nat /\ PageCount > 0 /\ HeapPages \in Nat
  /\ HeapPages > PageCount /\ NodeSize \in Nat /\ NodeSize > 0
  /\ MajorHeader \in Nat /\ MinorHeader \in Nat /\ NULL \notin Nat /\ NULL \notin [at : Nat, pages : Nat]
  /\ Sizes \subseteq Nat \ {0} /\ StackPages \subseteq Nat \ {0}
  /\ PageCount * PageSize >= MajorHeader + 3 * (MinorHeader + NodeSize)
BY HeapAssumption

LEMMA PageMul ==
  ASSUME NEW i \in Nat, NEW n \in Nat
  PROVE  /\ i * PageSize \in Nat /\ (i * PageSize) \div PageSize = i
         /\ i * PageSize + n * PageSize = (i + n) * PageSize
         /\ i <= n => i * PageSize <= n * PageSize
         /\ i < n => i * PageSize < n * PageSize
<1> DEFINE P == PageSize
<1>1. P \in Nat /\ P > 0
  BY Constants
<1> HIDE DEF P
<1>2. i * P \in Nat /\ i * P + n * P = (i + n) * P
  BY <1>1
<1>3. (i * P) \div P = i
  BY <1>1
<1>4. i <= n => i * P <= n * P
  <2> SUFFICES ASSUME i <= n PROVE i * P <= n * P
    OBVIOUS
  <2>1. n - i \in Nat /\ n = i + (n - i) /\ (n - i) * P \in Nat /\ n * P = i * P + (n - i) * P
    BY <1>1
  <2> QED
    BY <1>1, <1>2, <2>1
<1>5. i < n => i * P < n * P
  <2> SUFFICES ASSUME i < n PROVE i * P < n * P
    OBVIOUS
  <2>1. n - i - 1 \in Nat /\ (n - i - 1) * P \in Nat /\ n * P = i * P + (n - i - 1) * P + P
    BY <1>1
  <2> QED
    BY <1>1, <1>2, <2>1
<1> QED
  BY <1>2, <1>3, <1>4, <1>5 DEF P

LEMMA PageAdd ==
  ASSUME NEW x, Aligned(x), NEW n \in Nat
  PROVE  /\ Page(x) \in Nat /\ x \in Nat /\ n * PageSize \in Nat
         /\ Aligned(x + n * PageSize) /\ Page(x + n * PageSize) = Page(x) + n
<1>1. x \in Nat /\ x = Page(x) * PageSize /\ Page(x) \in Nat
  BY Constants DEF Aligned, Page
<1>2. x + n * PageSize = (Page(x) + n) * PageSize /\ n * PageSize \in Nat
  BY <1>1, PageMul
<1>3. Page(x) + n \in Nat
  BY <1>1
<1>4. (Page(x) + n) * PageSize \in Nat /\ ((Page(x) + n) * PageSize) \div PageSize = Page(x) + n
  BY <1>3, PageMul
<1> QED
  BY <1>1, <1>2, <1>4 DEF Aligned, Page

LEMMA PageOrder ==
  ASSUME NEW x, NEW y, Aligned(x), Aligned(y), NEW n \in Nat
  PROVE  /\ Page(x) + n <= Page(y) => x + n * PageSize <= y
         /\ x + n * PageSize = y <=> Page(x) + n = Page(y)
<1>1. Page(x) \in Nat /\ Page(y) \in Nat /\ Page(x) + n \in Nat
  BY PageAdd
<1>2. x + n * PageSize = (Page(x) + n) * PageSize /\ y = Page(y) * PageSize /\ y \in Nat
  BY <1>1, PageMul DEF Aligned
<1>3. Page(x) + n <= Page(y) => (Page(x) + n) * PageSize <= Page(y) * PageSize
  BY <1>1, PageMul
<1>4. x + n * PageSize = y => Page(x) + n = Page(y)
  BY PageAdd
<1> QED
  BY <1>2, <1>3, <1>4

(* A row of ranges of pages that cover the heap and do not meet.           *)
FirstPage(r) == Page(r.at)
EndPage(r) == Page(r.at) + r.pages
RangeOk(r) ==
  /\ r = [at |-> r.at, pages |-> r.pages]
  /\ Aligned(r.at) /\ r.pages \in Nat /\ r.pages > 0 /\ EndPage(r) <= HeapPages
Apart(r, q) == EndPage(r) <= FirstPage(q) \/ EndPage(q) <= FirstPage(r)
Covers(r, j) == FirstPage(r) <= j /\ j < EndPage(r)
Tiles(T) ==
  /\ \A r \in T : RangeOk(r)
  /\ \A r \in T, q \in T : r # q => Apart(r, q)
  /\ \A j \in 0 .. HeapPages - 1 : \E r \in T : Covers(r, j)

LEMMA RangeNumbers ==
  ASSUME NEW r, RangeOk(r)
  PROVE  /\ FirstPage(r) \in Nat /\ EndPage(r) \in Nat /\ FirstPage(r) < EndPage(r) /\ r.pages \in Nat
         /\ EndPage(r) = FirstPage(r) + r.pages
BY PageAdd DEF RangeOk, FirstPage, EndPage

LEMMA TilesMerge ==
  ASSUME NEW T, Tiles(T), NEW r \in T, NEW q \in T, r.at + r.pages * PageSize = q.at
  PROVE  LET m == [at |-> r.at, pages |-> r.pages + q.pages]
         IN /\ Tiles((T \ {r, q}) \cup {m}) /\ m \notin T \ {r, q} /\ RangeOk(m)
            /\ FirstPage(m) = FirstPage(r) /\ EndPage(m) = EndPage(q) /\ EndPage(r) = FirstPage(q) /\ r # q
<1>1. RangeOk(r) /\ RangeOk(q)
  BY DEF Tiles
<1>2. PICK m : m = [at |-> r.at, pages |-> r.pages + q.pages]
  OBVIOUS
<1>3. EndPage(r) = FirstPage(q)
  BY <1>1, PageAdd DEF RangeOk, EndPage, FirstPage
<1>4. m.at = r.at /\ m.pages = r.pages + q.pages /\ m = [at |-> m.at, pages |-> m.pages]
  BY <1>2
<1>5. FirstPage(m) = FirstPage(r) /\ EndPage(m) = EndPage(q) /\ RangeOk(m)
  BY <1>1, <1>3, <1>4, RangeNumbers DEF RangeOk, FirstPage, EndPage
<1>6. r # q
  BY <1>1, <1>3, RangeNumbers
<1>7. \A t \in T : RangeOk(t) /\ FirstPage(t) \in Nat /\ EndPage(t) \in Nat /\ FirstPage(t) < EndPage(t)
  BY RangeNumbers DEF Tiles
<1>8. \A t \in T, u \in T : t # u => Apart(t, u)
  BY DEF Tiles
<1>9. \A t \in T \ {r, q} : Apart(t, m) /\ Apart(m, t)
  <2> SUFFICES ASSUME NEW t \in T \ {r, q} PROVE Apart(t, m)
    BY DEF Apart
  <2>1. Apart(t, r) /\ Apart(t, q)
    BY <1>8
  <2> QED
    BY <1>3, <1>5, <1>7, <2>1 DEF Apart
<1>10. m \notin T \ {r, q}
  BY <1>5, <1>9, RangeNumbers DEF Apart
<1>11. \A j \in 0 .. HeapPages - 1 : \E t \in (T \ {r, q}) \cup {m} : Covers(t, j)
  <2> SUFFICES ASSUME NEW j \in 0 .. HeapPages - 1 PROVE \E t \in (T \ {r, q}) \cup {m} : Covers(t, j)
    OBVIOUS
  <2>1. PICK t \in T : Covers(t, j)
    BY DEF Tiles
  <2>2. CASE t \in {r, q}
    <3>1. Covers(m, j)
      BY <1>3, <1>5, <1>7, <2>1, <2>2 DEF Covers
    <3> QED
      BY <3>1
  <2>3. CASE t \notin {r, q}
    BY <2>1, <2>3
  <2> QED
    BY <2>2, <2>3
<1>12. Tiles((T \ {r, q}) \cup {m})
  BY <1>5, <1>7, <1>8, <1>9, <1>11 DEF Tiles
<1> QED
  BY <1>2, <1>3, <1>5, <1>6, <1>10, <1>12

LEMMA TilesSplit ==
  ASSUME NEW T, Tiles(T), NEW r \in T, NEW n \in Nat, 0 < n, n < r.pages
  PROVE  LET p == [at |-> r.at, pages |-> n]
             q == [at |-> r.at + n * PageSize, pages |-> r.pages - n]
         IN /\ Tiles((T \ {r}) \cup {p, q}) /\ p \notin T \ {r} /\ q \notin T \ {r} /\ p # q
            /\ RangeOk(p) /\ RangeOk(q)
            /\ FirstPage(p) = FirstPage(r) /\ EndPage(p) = FirstPage(q) /\ EndPage(q) = EndPage(r)
<1>1. RangeOk(r)
  BY DEF Tiles
<1>2. PICK p, q : p = [at |-> r.at, pages |-> n] /\ q = [at |-> r.at + n * PageSize, pages |-> r.pages - n]
  OBVIOUS
<1>3. FirstPage(p) = FirstPage(r) /\ EndPage(p) = FirstPage(r) + n /\ FirstPage(q) = FirstPage(r) + n /\ Aligned(q.at)
  BY <1>1, <1>2, PageAdd DEF RangeOk, EndPage, FirstPage
<1>4. EndPage(q) = FirstPage(q) + (r.pages - n)
  BY <1>2 DEF EndPage, FirstPage
<1>5. EndPage(q) = EndPage(r) /\ r.pages \in Nat
  BY <1>1, <1>3, <1>4, RangeNumbers
<1>6. RangeOk(p) /\ RangeOk(q)
  <2>1. p.at = r.at /\ p.pages = n /\ q.at = r.at + n * PageSize /\ q.pages = r.pages - n
        /\ p = [at |-> p.at, pages |-> p.pages] /\ q = [at |-> q.at, pages |-> q.pages]
    BY <1>2
  <2>2. FirstPage(r) \in Nat /\ EndPage(r) = FirstPage(r) + r.pages /\ EndPage(r) <= HeapPages /\ Aligned(p.at)
    BY <1>1, <2>1, RangeNumbers DEF RangeOk
  <2>3. EndPage(p) <= HeapPages /\ EndPage(q) <= HeapPages /\ q.pages \in Nat /\ q.pages > 0
    BY <1>3, <1>5, <2>1, <2>2, Constants
  <2> QED
    BY <1>3, <2>1, <2>2, <2>3 DEF RangeOk
<1>7. \A t \in T : RangeOk(t) /\ FirstPage(t) \in Nat /\ EndPage(t) \in Nat /\ FirstPage(t) < EndPage(t)
  BY RangeNumbers DEF Tiles
<1>8. \A t \in T, u \in T : t # u => Apart(t, u)
  BY DEF Tiles
<1>9. FirstPage(r) < EndPage(p) /\ FirstPage(q) < EndPage(r) /\ EndPage(p) = FirstPage(q) /\ FirstPage(q) \in Nat /\ EndPage(p) \in Nat
  BY <1>3, <1>5, <1>6, <1>7, RangeNumbers
<1>10. \A t \in T \ {r} : Apart(t, p) /\ Apart(p, t) /\ Apart(t, q) /\ Apart(q, t)
  BY <1>3, <1>5, <1>7, <1>8, <1>9 DEF Apart
<1>11. p # q
  BY <1>3, <1>9
<1>12. p \notin T \ {r} /\ q \notin T \ {r}
  BY <1>6, <1>10, RangeNumbers DEF Apart
<1>13. \A j \in 0 .. HeapPages - 1 : \E t \in (T \ {r}) \cup {p, q} : Covers(t, j)
  <2> SUFFICES ASSUME NEW j \in 0 .. HeapPages - 1 PROVE \E t \in (T \ {r}) \cup {p, q} : Covers(t, j)
    OBVIOUS
  <2>1. PICK t \in T : Covers(t, j)
    BY DEF Tiles
  <2>2. CASE t = r
    <3>1. Covers(p, j) \/ Covers(q, j)
      BY <1>3, <1>5, <1>7, <1>9, <2>1, <2>2 DEF Covers
    <3> QED
      BY <3>1
  <2>3. CASE t # r
    BY <2>1, <2>3
  <2> QED
    BY <2>2, <2>3
<1>14. Tiles((T \ {r}) \cup {p, q})
  <2>1. Apart(p, q) /\ Apart(q, p)
    BY <1>9 DEF Apart
  <2> QED
    BY <1>6, <1>7, <1>8, <1>10, <1>13, <2>1 DEF Tiles
<1> QED
  BY <1>2, <1>3, <1>5, <1>6, <1>9, <1>11, <1>12, <1>14

-----------------------------------------------------------------------------
(***************************************************************************)
(* A block and the pieces in it.  What the pieces take is a sum, and they  *)
(* lie side by side, so that a block that has room may still have no gap;  *)
(* one with a single node has a gap for another, whatever the sizes: that  *)
(* is why kmalloc for a node never comes to empty a block.                 *)
(***************************************************************************)
LEMMA LeastOf ==
  ASSUME NEW S \in SUBSET Nat, S # {}
  PROVE  Min(S) \in S /\ Min(S) \in Nat /\ \A x \in S : Min(S) <= x
<1>1. PICK m \in S : \A k \in S : m <= k
  BY LeastNumber
<1>2. Min(S) \in S /\ \A x \in S : Min(S) <= x
  BY <1>1 DEF Min
<1> QED
  BY <1>2

LEMMA LeastOfOne ==
  ASSUME NEW n \in Nat
  PROVE  Min({n}) = n
<1>1. {n} \in SUBSET Nat /\ {n} # {}
  OBVIOUS
<1>2. Min({n}) \in {n}
  BY <1>1, LeastOf
<1> QED
  BY <1>2


(* The pieces in a block.                                                  *)
Piece == [at : Nat, size : Nat \ {0}]
Takes(x) == x.size + MinorHeader
Row(M, lo, hi) ==
  /\ M \subseteq Piece /\ IsFiniteSet(M) /\ lo \in Nat /\ hi \in Nat
  /\ \A x \in M : lo <= x.at /\ End(x) <= hi
  /\ \A x \in M, y \in M : x # y => End(x) <= y.at \/ End(y) <= x.at
TakenBy(M) == SumFunctionOnSet([x \in M |-> x.size + MinorHeader], M)

LEMMA EndIs ==
  ASSUME NEW x \in Piece
  PROVE  End(x) \in Nat /\ x.at \in Nat /\ x.size \in Nat /\ x.size > 0 /\ x.at < End(x) /\ Takes(x) \in Nat
         /\ End(x) = x.at + Takes(x) /\ x = [at |-> x.at, size |-> x.size]
BY Constants DEF Piece, End, Takes

LEMMA TakenSplits ==
  ASSUME NEW M, M \subseteq Piece, IsFiniteSet(M), NEW p \in M
  PROVE  TakenBy(M) = Takes(p) + TakenBy(M \ {p}) /\ TakenBy(M) \in Int /\ TakenBy(M \ {p}) \in Int
<1> DEFINE f == [x \in M |-> x.size + MinorHeader]
           g == [x \in M \ {p} |-> x.size + MinorHeader]
<1>1. \A x \in M : f[x] = Takes(x) /\ f[x] \in Int
  BY EndIs DEF Takes
<1>2. IsFiniteSet(M \ {p})
  BY FS_Subset
<1>3. \A x \in M \ {p} : f[x] = g[x] /\ f[x] \in Int /\ g[x] \in Int
  BY <1>1
<1> HIDE DEF f, g
<1>4. SumFunctionOnSet(f, M) = f[p] + SumFunctionOnSet(f, M \ {p}) /\ SumFunctionOnSet(f, M) \in Int
  BY <1>1, SumSplits
<1>5. SumFunctionOnSet(f, M \ {p}) = SumFunctionOnSet(g, M \ {p})
  BY <1>2, <1>3, SumAlike
<1>6. SumFunctionOnSet(g, M \ {p}) \in Int
  BY <1>2, <1>3, SumSplits
<1> QED
  BY <1>1, <1>4, <1>5, <1>6 DEF TakenBy, f, g

LEMMA RowLess ==
  ASSUME NEW M, NEW lo, NEW hi, Row(M, lo, hi), M # {}
  PROVE  \E p \in M : Row(M \ {p}, End(p), hi) /\ lo <= p.at /\ End(p) <= hi
<1> DEFINE T == {x.at : x \in M}
<1>0. \A x \in M : x \in Piece
  BY DEF Row
<1>1. T \in SUBSET Nat /\ T # {}
  BY <1>0, EndIs
<1>2. PICK m \in T : \A k \in T : m <= k
  BY <1>1, LeastNumber
<1>3. PICK p \in M : p.at = m
  BY <1>2
<1>4. \A x \in M \ {p} : End(p) <= x.at
  <2> SUFFICES ASSUME NEW x \in M \ {p} PROVE End(p) <= x.at
    OBVIOUS
  <2>1. End(p) <= x.at \/ End(x) <= p.at
    BY DEF Row
  <2>2. p.at <= x.at
    BY <1>2, <1>3
  <2> QED
    BY <1>0, <2>1, <2>2, EndIs
<1>5. IsFiniteSet(M \ {p})
  BY FS_Subset DEF Row
<1>6. End(p) \in Nat
  BY <1>0, EndIs
<1> QED
  BY <1>3, <1>4, <1>5, <1>6 DEF Row

LEMMA Packed ==
  ASSUME NEW M, NEW lo, NEW hi, lo <= hi, Row(M, lo, hi)
  PROVE  TakenBy(M) <= hi - lo /\ TakenBy(M) \in Int
<1> DEFINE Ok(s, l) == TakenBy(s) <= hi - l /\ TakenBy(s) \in Int
           N == {n \in Nat : \A s \in SUBSET M : \A l \in Nat :
                   Cardinality(s) <= n /\ Row(s, l, hi) /\ l <= hi => Ok(s, l)}
<1>1. \A s \in SUBSET M : IsFiniteSet(s) /\ Cardinality(s) \in Nat
  BY FS_Subset, FS_CardinalityType DEF Row
<1>2. hi \in Nat /\ lo \in Nat /\ M \subseteq Piece
  BY DEF Row
<1>3. TakenBy({}) = 0
  BY SumEmpty DEF TakenBy
<1>4. 0 \in N
  <2>1. \A l \in Nat : l <= hi => Ok({}, l)
    BY <1>2, <1>3
  <2> HIDE DEF Ok
  <2> QED
    BY <1>1, <2>1, FS_EmptySet
<1>5. ASSUME NEW n \in Nat, n \in N PROVE n + 1 \in N
  <2>1. \A s \in SUBSET M : \A l \in Nat : Cardinality(s) <= n /\ Row(s, l, hi) /\ l <= hi => Ok(s, l)
    BY <1>5
  <2> HIDE DEF N
  <2>2. ASSUME NEW s \in SUBSET M, NEW l \in Nat, Cardinality(s) <= n + 1, Row(s, l, hi), l <= hi PROVE Ok(s, l)
    <3>1. CASE s = {}
      <4>1. TakenBy(s) = 0
        BY <1>3, <3>1
      <4> QED
        BY <1>2, <2>2, <4>1
    <3>2. CASE s # {}
      <4>1. PICK p \in s : Row(s \ {p}, End(p), hi) /\ l <= p.at /\ End(p) <= hi
        BY <2>2, <3>2, RowLess
      <4>2. s \ {p} \in SUBSET M /\ Cardinality(s \ {p}) <= n
        BY <1>1, <2>2, FS_RemoveElement
      <4>3. End(p) \in Nat /\ p.at \in Nat /\ End(p) = p.at + Takes(p) /\ Takes(p) \in Nat
        BY <1>2, EndIs
      <4>4. Ok(s \ {p}, End(p))
        BY <2>1, <4>1, <4>2, <4>3
      <4>5. TakenBy(s) = Takes(p) + TakenBy(s \ {p}) /\ TakenBy(s) \in Int
        BY <1>1, <1>2, TakenSplits
      <4> QED
        BY <1>2, <4>1, <4>3, <4>4, <4>5
    <3> QED
      BY <3>1, <3>2
  <2> HIDE DEF Ok
  <2> QED
    BY <2>2 DEF N
<1>6. Nat \subseteq N
  <2> HIDE DEF N
  <2> QED
    BY <1>4, <1>5, SetInduction
<1> QED
  BY <1>1, <1>2, <1>6

(* Blocks.                                                                 *)
Block(a, m) ==
  /\ a \in Nat /\ m.pages \in Nat /\ m.pages >= PageCount
  /\ Row(m.minors, a + MajorHeader, a + SizeOf(m))

LEMMA BlockSize ==
  ASSUME NEW a \in Nat, NEW m, m.pages \in Nat, m.pages >= PageCount
  PROVE  /\ SizeOf(m) \in Nat /\ SizeOf(m) >= MajorHeader + 3 * (MinorHeader + NodeSize)
         /\ a + MajorHeader \in Nat /\ a + SizeOf(m) \in Nat /\ a + MajorHeader <= a + SizeOf(m)
<1>1. SizeOf(m) \in Nat /\ PageCount * PageSize <= SizeOf(m) /\ PageCount * PageSize \in Nat
  BY Constants, PageMul DEF SizeOf
<1> QED
  BY <1>1, Constants

LEMMA GapIs ==
  ASSUME NEW a, NEW m, Block(a, m), NEW size \in Nat, NEW at \in Gaps(a, m, size)
  PROVE  /\ at \in Nat /\ a + MajorHeader <= at /\ at + MinorHeader + size <= a + SizeOf(m)
         /\ \A x \in m.minors : End(x) <= at \/ at + MinorHeader + size <= x.at
<1>1. \A x \in m.minors : /\ x \in Piece /\ a + MajorHeader <= x.at /\ End(x) <= a + SizeOf(m)
                          /\ End(x) \in Nat /\ x.at \in Nat /\ x.at < End(x)
  BY EndIs DEF Block, Row
<1>2. SizeOf(m) \in Nat /\ a \in Nat /\ a + MajorHeader \in Nat /\ a + SizeOf(m) \in Nat
  BY BlockSize DEF Block
<1>3. at \in Starts(a, m) /\ at + MinorHeader + size <= Limit(a, m, at)
  BY DEF Gaps
<1>4. at \in Nat /\ a + MajorHeader <= at
  BY <1>1, <1>2, <1>3 DEF Starts
<1> DEFINE L == {a + SizeOf(m)} \cup {x.at : x \in {y \in m.minors : y.at >= at}}
<1>5. L \in SUBSET Nat /\ L # {} /\ Limit(a, m, at) = Min(L)
  BY <1>1, <1>2 DEF Limit
<1>6. Min(L) \in Nat /\ Min(L) <= a + SizeOf(m) /\ \A x \in m.minors : x.at >= at => Min(L) <= x.at
  <2>1. Min(L) \in Nat /\ \A z \in L : Min(L) <= z
    BY <1>5, LeastOf
  <2> QED
    BY <2>1
<1> HIDE DEF L
<1>7. at + MinorHeader + size \in Nat
  BY <1>4, Constants
<1>8. ASSUME NEW x \in m.minors PROVE End(x) <= at \/ at + MinorHeader + size <= x.at
  <2>1. CASE x.at >= at
    BY <1>1, <1>3, <1>5, <1>6, <1>7, <2>1
  <2>2. CASE ~(x.at >= at)
    <3>1. at # a + MajorHeader
      BY <1>1, <1>2, <1>4, <2>2
    <3>2. PICK y \in m.minors : at = End(y)
      BY <1>3, <3>1 DEF Starts
    <3>3. x = y \/ End(x) <= y.at \/ End(y) <= x.at
      BY DEF Block, Row
    <3> QED
      BY <1>1, <1>4, <2>2, <3>2, <3>3
  <2> QED
    BY <2>1, <2>2
<1> QED
  BY <1>2, <1>3, <1>4, <1>5, <1>6, <1>7, <1>8

LEMMA GapTaken ==
  ASSUME NEW a, NEW m, Block(a, m), NEW size \in Nat \ {0}, NEW at \in Gaps(a, m, size)
  PROVE  LET x == [at |-> at, size |-> size]
         IN /\ x \in Piece /\ \A y \in m.minors : y.at # at
            /\ Row(m.minors \cup {x}, a + MajorHeader, a + SizeOf(m))
<1>1. /\ at \in Nat /\ a + MajorHeader <= at /\ at + MinorHeader + size <= a + SizeOf(m)
      /\ \A x \in m.minors : End(x) <= at \/ at + MinorHeader + size <= x.at
  BY GapIs
<1>2. PICK x : x = [at |-> at, size |-> size]
  OBVIOUS
<1>3. x \in Piece /\ x.at = at /\ End(x) = at + MinorHeader + size
  BY <1>1, <1>2 DEF Piece, End
<1>4. \A y \in m.minors : y.at \in Nat /\ y.at < End(y) /\ End(y) \in Nat
  BY EndIs DEF Block, Row
<1>5. \A y \in m.minors : y.at # at
  BY <1>1, <1>3, <1>4, EndIs
<1>6. IsFiniteSet(m.minors \cup {x})
  BY FS_AddElement DEF Block, Row
<1>7. Row(m.minors \cup {x}, a + MajorHeader, a + SizeOf(m))
  BY <1>1, <1>3, <1>6 DEF Block, Row
<1> QED
  BY <1>2, <1>3, <1>5, <1>7

LEMMA RoomIs ==
  ASSUME NEW a, NEW m, Block(a, m)
  PROVE  Room(m) \in Int /\ Room(m) = SizeOf(m) - (MajorHeader + TakenBy(m.minors)) /\ TakenBy(m.minors) \in Int
<1>1. SizeOf(m) \in Nat /\ a \in Nat /\ a + MajorHeader <= a + SizeOf(m)
  BY BlockSize DEF Block
<1>2. TakenBy(m.minors) \in Int
  BY <1>1, Packed DEF Block
<1>3. Usage(m) = MajorHeader + TakenBy(m.minors)
  BY DEF Usage, TakenBy
<1> QED
  BY <1>1, <1>2, <1>3, Constants DEF Room

LEMMA ShortHasNoGap ==
  ASSUME NEW a, NEW m, Block(a, m), NEW size \in Nat \ {0}, Room(m) < size + MinorHeader
  PROVE  Gaps(a, m, size) = {}
<1> SUFFICES ASSUME NEW at \in Gaps(a, m, size) PROVE FALSE
  OBVIOUS
<1>1. PICK x : x = [at |-> at, size |-> size]
  OBVIOUS
<1>2. /\ x \in Piece /\ \A y \in m.minors : y.at # x.at
      /\ Row(m.minors \cup {x}, a + MajorHeader, a + SizeOf(m)) /\ x.size = size
  BY <1>1, GapTaken
<1>3. PICK M : M = m.minors \cup {x}
  OBVIOUS
<1>4. M \ {x} = m.minors /\ x \in M /\ M \subseteq Piece /\ IsFiniteSet(M)
  BY <1>2, <1>3 DEF Row
<1>5. SizeOf(m) \in Nat /\ a \in Nat /\ a + MajorHeader <= a + SizeOf(m)
  BY BlockSize DEF Block
<1>6. TakenBy(M) <= (a + SizeOf(m)) - (a + MajorHeader) /\ TakenBy(M) \in Int
  BY <1>2, <1>3, <1>5, Packed
<1>7. TakenBy(M) = Takes(x) + TakenBy(m.minors)
  BY <1>4, TakenSplits
<1>8. Takes(x) = size + MinorHeader
  BY <1>2 DEF Takes
<1> QED
  BY <1>5, <1>6, <1>7, <1>8, RoomIs, Constants

(* A block with a single node has a gap for another.                       *)
LEMMA SingleHasGap ==
  ASSUME NEW a, NEW m, Block(a, m), NEW x, m.minors = {x}, x.size = NodeSize
  PROVE  Gaps(a, m, NodeSize) # {}
<1>1. x \in Piece /\ a + MajorHeader <= x.at /\ End(x) <= a + SizeOf(m) /\ x.at \in Nat /\ End(x) \in Nat
  BY EndIs DEF Block, Row
<1>2. /\ SizeOf(m) \in Nat /\ SizeOf(m) >= MajorHeader + 3 * (MinorHeader + NodeSize) /\ a \in Nat
      /\ a + SizeOf(m) \in Nat /\ a + MajorHeader \in Nat
  BY BlockSize DEF Block
<1>3. End(x) = x.at + MinorHeader + NodeSize
  BY <1>1, EndIs DEF End
<1> DEFINE s == a + MajorHeader
<1>4. CASE s + MinorHeader + NodeSize <= x.at
  <2> DEFINE L == {a + SizeOf(m)} \cup {y.at : y \in {z \in m.minors : z.at >= s}}
  <2>1. L \in SUBSET Nat /\ L # {} /\ \A z \in L : s + MinorHeader + NodeSize <= z
    BY <1>1, <1>2, <1>3, <1>4, Constants
  <2>2. Limit(a, m, s) = Min(L) /\ Min(L) \in L
    BY <2>1, LeastOf DEF Limit
  <2> HIDE DEF L
  <2>3. s + MinorHeader + NodeSize <= Limit(a, m, s) /\ s \in Starts(a, m)
    BY <2>1, <2>2 DEF Starts
  <2> QED
    BY <2>3 DEF Gaps
<1>5. CASE ~(s + MinorHeader + NodeSize <= x.at)
  <2> DEFINE e == End(x)
             L == {a + SizeOf(m)} \cup {y.at : y \in {z \in m.minors : z.at >= e}}
  <2>1. L = {a + SizeOf(m)}
    BY <1>1, EndIs
  <2>2. Limit(a, m, e) = a + SizeOf(m)
    <3>1. Min({a + SizeOf(m)}) = a + SizeOf(m)
      BY <1>2, LeastOfOne
    <3> QED
      BY <2>1, <3>1 DEF Limit
  <2>3. e + MinorHeader + NodeSize <= a + SizeOf(m)
    BY <1>1, <1>2, <1>3, <1>5, Constants
  <2>4. e \in Starts(a, m)
    BY DEF Starts
  <2> QED
    BY <2>2, <2>3, <2>4 DEF Gaps
<1> QED
  BY <1>4, <1>5

LEMMA MajorPagesIs ==
  ASSUME NEW size \in Nat \ {0}
  PROVE  /\ MajorPages(size) \in Nat /\ MajorPages(size) >= PageCount /\ MajorPages(size) > 0
         /\ size + MajorHeader + MinorHeader <= MajorPages(size) * PageSize
<1> DEFINE b == size + MajorHeader + MinorHeader
           k == (b + PageSize - 1) \div PageSize
<1>1. b \in Nat /\ b > 0
  BY Constants
<1>2. k \in Nat /\ b <= k * PageSize
  <2> HIDE DEF b
  <2>1. b + PageSize - 1 \in Nat /\ PageSize \in Nat /\ PageSize > 0
    BY <1>1, Constants
  <2>2. k \in Nat /\ b + PageSize - 1 < (k + 1) * PageSize
    BY <2>1
  <2>3. (k + 1) * PageSize = k * PageSize + PageSize /\ k * PageSize \in Nat
    BY <2>1, <2>2
  <2> QED
    BY <1>1, <2>1, <2>2, <2>3
<1> HIDE DEF k
<1>3. MajorPages(size) = Max({PageCount, k})
  BY DEF MajorPages, k
<1>4. Max({PageCount, k}) \in {PageCount, k} /\ Max({PageCount, k}) >= PageCount /\ Max({PageCount, k}) >= k
  <2>1. \E x \in {PageCount, k} : \A y \in {PageCount, k} : x >= y
    BY <1>2, Constants
  <2>2. \A y \in {PageCount, k} : Max({PageCount, k}) >= y
    BY <2>1 DEF Max
  <2>3. Max({PageCount, k}) \in {PageCount, k}
    BY <2>1 DEF Max
  <2> QED
    BY <2>2, <2>3
<1>5. k * PageSize <= MajorPages(size) * PageSize /\ k * PageSize \in Nat /\ MajorPages(size) * PageSize \in Nat
  BY <1>2, <1>3, <1>4, Constants, PageMul
<1> QED
  BY <1>1, <1>2, <1>3, <1>4, <1>5, Constants

LEMMA FreshHasGap ==
  ASSUME NEW a \in Nat, NEW m, NEW size \in Nat \ {0}, m.pages = MajorPages(size), m.minors = {}
  PROVE  /\ Block(a, m) /\ Gaps(a, m, size) = {a + MajorHeader} /\ ~(Room(m) < size + MinorHeader)
         /\ a + MajorHeader \in Gaps(a, m, size) /\ Min(Gaps(a, m, size)) = a + MajorHeader
<1>1. m.pages \in Nat /\ m.pages >= PageCount /\ size + MajorHeader + MinorHeader <= SizeOf(m)
  BY MajorPagesIs DEF SizeOf
<1>2. SizeOf(m) \in Nat /\ a + SizeOf(m) \in Nat /\ a + MajorHeader \in Nat
  BY <1>1, BlockSize
<1>3. Block(a, m)
  BY <1>1, <1>2, FS_EmptySet DEF Block, Row
<1>4. Starts(a, m) = {a + MajorHeader}
  BY DEF Starts
<1>5. Limit(a, m, a + MajorHeader) = a + SizeOf(m)
  <2>1. Limit(a, m, a + MajorHeader) = Min({a + SizeOf(m)})
    BY DEF Limit
  <2> QED
    BY <1>2, <2>1, LeastOfOne
<1>6. Gaps(a, m, size) = {a + MajorHeader}
  <2>1. (a + MajorHeader) + MinorHeader + size <= a + SizeOf(m)
    BY <1>1, <1>2, Constants
  <2> QED
    BY <1>4, <1>5, <2>1 DEF Gaps
<1>7. Room(m) = SizeOf(m) - (MajorHeader + TakenBy({}))
  BY <1>3, RoomIs
<1>8. TakenBy({}) = 0
  BY SumEmpty DEF TakenBy
<1>9. Min({a + MajorHeader}) = a + MajorHeader
  BY <1>2, LeastOfOne
<1> QED
  BY <1>1, <1>2, <1>3, <1>6, <1>7, <1>8, <1>9, Constants

-----------------------------------------------------------------------------
(***************************************************************************)
(* The list of the blocks, doubly linked: a block is taken off or put at   *)
(* the end.                                                                *)
(***************************************************************************)
(* The list of the blocks, M from their addresses.                         *)
Link == Nat \cup {NULL}
MajorType == [prev : Link, next : Link, pages : Nat, minors : SUBSET Piece]
MajorsOk(M) == M \in [DOMAIN M -> MajorType] /\ DOMAIN M \subseteq Nat /\ IsFiniteSet(DOMAIN M)
Reaches(M, root, S) ==
  /\ root # NULL => root \in S
  /\ \A b \in S : M[b].next # NULL => M[b].next \in S
LinkedAt(M, root, a) ==
  /\ M[a].prev = NULL => root = a
  /\ M[a].prev # NULL => M[a].prev \in DOMAIN M /\ M[M[a].prev].next = a
  /\ M[a].next # NULL => M[a].next \in DOMAIN M /\ M[M[a].next].prev = a
List(M, root) ==
  /\ root \in DOMAIN M \cup {NULL}
  /\ root # NULL => M[root].prev = NULL
  /\ \A S \in SUBSET DOMAIN M : Reaches(M, root, S) => S = DOMAIN M
  /\ \A a \in DOMAIN M : LinkedAt(M, root, a)

LEMMA ListRoot ==
  ASSUME NEW M, NEW root, MajorsOk(M), List(M, root), DOMAIN M # {}
  PROVE  root # NULL /\ root \in DOMAIN M /\ M[root].prev = NULL
<1>1. root # NULL
  <2> SUFFICES ASSUME root = NULL PROVE FALSE
    OBVIOUS
  <2>1. Reaches(M, root, {})
    BY DEF Reaches
  <2> QED
    BY <2>1 DEF List
<1> QED
  BY <1>1 DEF List

LEMMA NoSelfLink ==
  ASSUME NEW M, NEW root, MajorsOk(M), List(M, root), NEW a \in DOMAIN M
  PROVE  M[a].prev # a /\ M[a].next # a
<1>0. NULL \notin DOMAIN M
  BY Constants DEF MajorsOk
<1>1. ASSUME M[a].prev = a PROVE FALSE
  <2>1. root # a
    BY <1>0, <1>1 DEF List
  <2>2. Reaches(M, root, DOMAIN M \ {a})
    <3>1. root # NULL => root \in DOMAIN M \ {a}
      BY <2>1 DEF List
    <3>2. ASSUME NEW b \in DOMAIN M \ {a}, M[b].next # NULL PROVE M[b].next \in DOMAIN M \ {a}
      BY <1>1, <3>2 DEF List, LinkedAt
    <3> QED
      BY <3>1, <3>2 DEF Reaches
  <2>3. DOMAIN M \ {a} = DOMAIN M
    BY <2>2 DEF List
  <2> QED
    BY <2>3
<1>2. M[a].next = a => M[a].prev = a
  BY <1>0 DEF List, LinkedAt
<1> QED
  BY <1>1, <1>2

SameLinks(M, N) ==
  DOMAIN M = DOMAIN N /\ \A a \in DOMAIN M : M[a].prev = N[a].prev /\ M[a].next = N[a].next
LEMMA ListAlike ==
  ASSUME NEW M, NEW N, NEW root, List(M, root), SameLinks(M, N)
  PROVE  List(N, root)
<1>1. \A S \in SUBSET DOMAIN N : Reaches(N, root, S) => Reaches(M, root, S)
  BY DEF Reaches, SameLinks
<1>2. \A a \in DOMAIN N : LinkedAt(N, root, a)
  BY DEF List, LinkedAt, SameLinks
<1>3. root \in DOMAIN N \cup {NULL} /\ (root # NULL => N[root].prev = NULL)
  BY DEF List, SameLinks
<1>4. \A S \in SUBSET DOMAIN N : Reaches(N, root, S) => S = DOMAIN N
  BY <1>1 DEF List, SameLinks
<1> QED
  BY <1>2, <1>3, <1>4 DEF List

(* One block goes.                                                         *)
Dropped(M, a) ==
  [b \in DOMAIN M \ {a} |->
     [M[b] EXCEPT !.next = IF b = M[a].prev THEN M[a].next ELSE @,
                  !.prev = IF b = M[a].next THEN M[a].prev ELSE @]]
NewRoot(M, root, a) == IF root = a THEN M[a].next ELSE root

DroppedRight(M, a, N) ==
  /\ DOMAIN N = DOMAIN M \ {a}
  /\ \A b \in DOMAIN M \ {a} :
       /\ N[b].next = IF b = M[a].prev THEN M[a].next ELSE M[b].next
       /\ N[b].prev = IF b = M[a].next THEN M[a].prev ELSE M[b].prev
       /\ N[b].pages = M[b].pages /\ N[b].minors = M[b].minors
  /\ MajorsOk(N)

LEMMA DroppedIs ==
  ASSUME NEW M, MajorsOk(M), NEW a \in DOMAIN M
  PROVE  DroppedRight(M, a, Dropped(M, a))
<1>1. \A b \in DOMAIN M : M[b] \in MajorType
  BY DEF MajorsOk
<1>2. IsFiniteSet(DOMAIN M \ {a})
  BY FS_Subset DEF MajorsOk
<1>3. DOMAIN Dropped(M, a) = DOMAIN M \ {a}
  BY DEF Dropped
<1>4. ASSUME NEW b \in DOMAIN M \ {a}
      PROVE  /\ Dropped(M, a)[b].next = IF b = M[a].prev THEN M[a].next ELSE M[b].next
             /\ Dropped(M, a)[b].prev = IF b = M[a].next THEN M[a].prev ELSE M[b].prev
             /\ Dropped(M, a)[b].pages = M[b].pages /\ Dropped(M, a)[b].minors = M[b].minors
             /\ Dropped(M, a)[b] \in MajorType
  <2>1. M[b] \in MajorType /\ M[a] \in MajorType
    BY <1>1
  <2>2. Dropped(M, a)[b] = [M[b] EXCEPT !.next = IF b = M[a].prev THEN M[a].next ELSE @,
                                         !.prev = IF b = M[a].next THEN M[a].prev ELSE @]
    BY DEF Dropped
  <2> QED
    BY <2>1, <2>2 DEF MajorType
<1>5. Dropped(M, a) \in [DOMAIN M \ {a} -> MajorType]
  <2>1. Dropped(M, a) = [b \in DOMAIN M \ {a} |-> Dropped(M, a)[b]]
    BY DEF Dropped
  <2> QED
    BY <1>4, <2>1
<1> QED
  BY <1>2, <1>3, <1>4, <1>5 DEF MajorsOk, DroppedRight

LEMMA ListDrops ==
  ASSUME NEW M, NEW root, MajorsOk(M), List(M, root), NEW a \in DOMAIN M
  PROVE  List(Dropped(M, a), NewRoot(M, root, a))
<1>1. PICK N, r : N = Dropped(M, a) /\ r = NewRoot(M, root, a)
  OBVIOUS
<1>2. /\ DOMAIN N = DOMAIN M \ {a}
      /\ \A b \in DOMAIN M \ {a} : /\ N[b].next = IF b = M[a].prev THEN M[a].next ELSE M[b].next
                                   /\ N[b].prev = IF b = M[a].next THEN M[a].prev ELSE M[b].prev
  <2>1. DroppedRight(M, a, N)
    BY <1>1, DroppedIs
  <2> QED
    BY <2>1 DEF DroppedRight
<1>3. M[a].prev # a /\ M[a].next # a
  BY NoSelfLink
<1>4. \A b \in DOMAIN M : LinkedAt(M, root, b)
  BY DEF List
<1>5. NULL \notin DOMAIN M
  BY Constants DEF MajorsOk
<1>6. r = IF root = a THEN M[a].next ELSE root
  BY <1>1 DEF NewRoot
<1>7. r \in DOMAIN N \cup {NULL}
  BY <1>2, <1>3, <1>4, <1>6 DEF List, LinkedAt
<1>8. r # NULL => N[r].prev = NULL
  <2> SUFFICES ASSUME r # NULL PROVE N[r].prev = NULL
    OBVIOUS
  <2>1. CASE root = a
    <3>1. r = M[a].next /\ r \in DOMAIN M \ {a} /\ M[a].prev = NULL
      BY <1>2, <1>5, <1>6, <1>7, <2>1 DEF List
    <3> QED
      BY <1>2, <3>1
  <2>2. CASE root # a
    <3>1. r = root /\ M[root].prev = NULL /\ root \in DOMAIN M \ {a}
      BY <1>2, <1>6, <1>7, <2>2 DEF List
    <3>2. root = M[a].next => M[a].prev = NULL
      BY <1>4, <1>5, <3>1 DEF LinkedAt
    <3> QED
      BY <1>2, <3>1, <3>2
  <2> QED
    BY <2>1, <2>2
<1>9. ASSUME NEW b \in DOMAIN N PROVE LinkedAt(N, r, b)
  <2>1. b \in DOMAIN M /\ b # a /\ LinkedAt(M, root, b) /\ LinkedAt(M, root, a)
    BY <1>2, <1>4
  <2>2. N[b].prev = NULL => r = b
    BY <1>2, <1>5, <1>6, <2>1 DEF LinkedAt
  <2>3. N[b].prev # NULL => N[b].prev \in DOMAIN N /\ N[N[b].prev].next = b
    <3> SUFFICES ASSUME N[b].prev # NULL PROVE N[b].prev \in DOMAIN N /\ N[N[b].prev].next = b
      OBVIOUS
    <3>1. CASE b = M[a].next
      <4>1. N[b].prev = M[a].prev
        BY <1>2, <2>1, <3>1
      <4> QED
        BY <1>2, <1>3, <2>1, <3>1, <4>1 DEF LinkedAt
    <3>2. CASE b # M[a].next
      <4>1. N[b].prev = M[b].prev
        BY <1>2, <2>1, <3>2
      <4>2. M[b].prev # a
        BY <1>5, <2>1, <3>2 DEF LinkedAt
      <4>3. M[b].prev # M[a].prev
        BY <2>1, <4>1 DEF LinkedAt
      <4> QED
        BY <1>2, <2>1, <4>1, <4>2, <4>3 DEF LinkedAt
    <3> QED
      BY <3>1, <3>2
  <2>4. N[b].next # NULL => N[b].next \in DOMAIN N /\ N[N[b].next].prev = b
    <3> SUFFICES ASSUME N[b].next # NULL PROVE N[b].next \in DOMAIN N /\ N[N[b].next].prev = b
      OBVIOUS
    <3>1. CASE b = M[a].prev
      <4>1. N[b].next = M[a].next
        BY <1>2, <2>1, <3>1
      <4> QED
        BY <1>2, <1>3, <2>1, <3>1, <4>1 DEF LinkedAt
    <3>2. CASE b # M[a].prev
      <4>1. N[b].next = M[b].next
        BY <1>2, <2>1, <3>2
      <4>2. M[b].next # a
        BY <1>5, <2>1, <3>2 DEF LinkedAt
      <4>3. M[b].next # M[a].next
        BY <2>1, <4>1 DEF LinkedAt
      <4> QED
        BY <1>2, <2>1, <4>1, <4>2, <4>3 DEF LinkedAt
    <3> QED
      BY <3>1, <3>2
  <2> QED
    BY <2>2, <2>3, <2>4 DEF LinkedAt
<1>10. ASSUME NEW S \in SUBSET DOMAIN N, Reaches(N, r, S) PROVE S = DOMAIN N
  <2>1. S \in SUBSET DOMAIN M /\ a \notin S
    BY <1>2
  <2>2. \A b \in S : N[b].next # NULL => N[b].next \in S
    BY <1>10 DEF Reaches
  <2>3. r # NULL => r \in S
    BY <1>10 DEF Reaches
  <2>4. CASE M[a].prev # NULL /\ M[a].prev \notin S
    <3>1. root # a
      BY <1>5, <2>4 DEF List
    <3>2. \A b \in S : M[b].next # a
      BY <1>4, <1>5, <2>1, <2>4 DEF LinkedAt
    <3>3. \A b \in S : N[b].next = M[b].next
      BY <1>2, <2>1, <2>4
    <3>4. Reaches(M, root, S)
      BY <1>6, <2>2, <2>3, <3>1, <3>3 DEF Reaches
    <3>5. S = DOMAIN M
      BY <2>1, <3>4 DEF List
    <3> QED
      BY <2>1, <3>5
  <2>5. CASE ~(M[a].prev # NULL /\ M[a].prev \notin S)
    <3>1. root # NULL => root \in S \cup {a}
      BY <1>6, <2>3
    <3>2. M[a].next # NULL => M[a].next \in S
      <4> SUFFICES ASSUME M[a].next # NULL PROVE M[a].next \in S
        OBVIOUS
      <4>1. CASE M[a].prev = NULL
        BY <1>4, <1>6, <2>3, <4>1 DEF LinkedAt
      <4>2. CASE M[a].prev # NULL
        <5>1. M[a].prev \in S /\ N[M[a].prev].next = M[a].next
          BY <1>2, <2>1, <2>5, <4>2
        <5> QED
          BY <2>2, <5>1
      <4> QED
        BY <4>1, <4>2
    <3>3. ASSUME NEW b \in S, M[b].next # NULL PROVE M[b].next \in S \cup {a}
      <4>1. CASE b = M[a].prev
        BY <1>4, <1>5, <2>1, <4>1 DEF LinkedAt
      <4>2. CASE b # M[a].prev
        <5>1. N[b].next = M[b].next
          BY <1>2, <2>1, <4>2
        <5> QED
          BY <2>2, <3>3, <5>1
      <4> QED
        BY <4>1, <4>2
    <3>4. Reaches(M, root, S \cup {a})
      BY <3>1, <3>2, <3>3 DEF Reaches
    <3>5. S \cup {a} = DOMAIN M
      BY <2>1, <3>4 DEF List
    <3> QED
      BY <1>2, <2>1, <3>5
  <2> QED
    BY <2>4, <2>5
<1>11. List(N, r)
  BY <1>7, <1>8, <1>9, <1>10 DEF List
<1> QED
  BY <1>1, <1>11

(* A block comes, at the end.                                              *)
LEMMA ListGrows ==
  ASSUME NEW M, NEW root, MajorsOk(M), List(M, root), NEW a \in DOMAIN M, M[a].next = NULL,
         NEW p \in Nat, p \notin DOMAIN M, NEW N, DOMAIN N = DOMAIN M \cup {p},
         N[p].prev = a, N[p].next = NULL, N[a].next = p, N[a].prev = M[a].prev,
         \A b \in DOMAIN M \ {a} : N[b].prev = M[b].prev /\ N[b].next = M[b].next
  PROVE  List(N, root)
<1>1. NULL \notin DOMAIN N
  BY Constants DEF MajorsOk
<1>2. root \in DOMAIN M /\ root # NULL /\ M[root].prev = NULL
  BY ListRoot
<1>3. N[root].prev = NULL
  BY <1>2
<1>4. ASSUME NEW b \in DOMAIN N PROVE LinkedAt(N, root, b)
  <2>1. CASE b = p
    BY <1>1, <2>1 DEF LinkedAt
  <2>2. CASE b = a
    <3>1. LinkedAt(M, root, a)
      BY DEF List
    <3>2. M[a].prev # a
      BY NoSelfLink
    <3> QED
      BY <1>1, <2>2, <3>1, <3>2 DEF LinkedAt
  <2>3. CASE b # p /\ b # a
    <3>1. LinkedAt(M, root, b) /\ b \in DOMAIN M \ {a}
      BY <2>3 DEF List
    <3>2. N[b].prev = M[b].prev /\ N[b].next = M[b].next
      BY <3>1
    <3>3. M[b].prev # a
      BY <1>1, <3>1 DEF LinkedAt
    <3> QED
      BY <1>1, <3>1, <3>2, <3>3 DEF LinkedAt
  <2> QED
    BY <2>1, <2>2, <2>3
<1>5. ASSUME NEW S \in SUBSET DOMAIN N, Reaches(N, root, S) PROVE S = DOMAIN N
  <2>1. Reaches(M, root, S \ {p})
    <3>1. root \in S \ {p}
      BY <1>2, <1>5 DEF Reaches
    <3>2. ASSUME NEW b \in S \ {p}, M[b].next # NULL PROVE M[b].next \in S \ {p}
      <4>1. b \in DOMAIN M \ {a} /\ N[b].next = M[b].next
        BY <3>2
      <4>2. M[b].next \in DOMAIN M
        BY <3>2, <4>1 DEF List, LinkedAt
      <4> QED
        BY <1>5, <3>2, <4>1, <4>2 DEF Reaches
    <3> QED
      BY <3>1, <3>2 DEF Reaches
  <2>2. S \ {p} = DOMAIN M
    BY <2>1 DEF List
  <2>3. p \in S
    BY <1>1, <1>5, <2>2 DEF Reaches
  <2> QED
    BY <2>2, <2>3
<1> QED
  BY <1>2, <1>3, <1>4, <1>5 DEF List

-----------------------------------------------------------------------------
(***************************************************************************)
(* The loop of kmalloc over the blocks, which may start at the best bet    *)
(* and go on at the root: it ends, after at most two turns for each block, *)
(* at one that has a gap, or at the last one when none has.                *)
(***************************************************************************)
(* What kmalloc's loop over the blocks needs of the heap.                  *)
Searchable(h) ==
  /\ MajorsOk(h.major) /\ List(h.major, h.root)
  /\ h.bestBet \in DOMAIN h.major \cup {NULL}
  /\ \A a \in DOMAIN h.major : Block(a, h.major[a])
QOk(h, q) ==
  /\ q = [at |-> q.at, startedBet |-> q.startedBet, bestBet |-> q.bestBet, bestSize |-> q.bestSize]
  /\ q.at \in DOMAIN h.major /\ q.startedBet \in BOOLEAN
  /\ q.bestBet \in DOMAIN h.major \cup {NULL} /\ q.bestSize \in Int
Origin(h, q) == IF q.startedBet THEN h.bestBet ELSE h.root
Passed(h, size, q, S) ==
  /\ S \subseteq DOMAIN h.major /\ q.at \notin S
  /\ Origin(h, q) \in S \cup {q.at}
  /\ \A x \in S : ~Fits(h, x, size) /\ h.major[x].next \in S \cup {q.at}
  /\ \A y \in S \cup {q.at} : y # Origin(h, q) => h.major[y].prev \in S
Counted(h, q, S, k) ==
  IF q.startedBet THEN Cardinality(S) = k ELSE k <= Cardinality(DOMAIN h.major) + Cardinality(S)
Underway(h, size, q, k) ==
  /\ QOk(h, q)
  /\ \E S : Passed(h, size, q, S) /\ (Ends(h, q, size) \/ Counted(h, q, S, k))

LEMMA BestRoomIs ==
  ASSUME NEW h, Searchable(h)
  PROVE  BestRoom(h) \in Int
BY RoomIs DEF BestRoom, Searchable

LEMMA BetterIs ==
  ASSUME NEW h, NEW q, Searchable(h), QOk(h, q)
  PROVE  QOk(h, Better(h, q)) /\ Better(h, q).at = q.at /\ Better(h, q).startedBet = q.startedBet
<1>1. Room(h.major[q.at]) \in Int
  BY RoomIs DEF Searchable, QOk
<1> QED
  BY <1>1 DEF Better, QOk

LEMMA BegunOk ==
  ASSUME NEW h, NEW size, Searchable(h), DOMAIN h.major # {}
  PROVE  Underway(h, size, Begun(h, size), 0)
<1>1. h.root \in DOMAIN h.major
  BY ListRoot DEF Searchable
<1>2. QOk(h, Begun(h, size)) /\ Begun(h, size).at = Origin(h, Begun(h, size))
  BY <1>1, BestRoomIs DEF QOk, Begun, StartsBet, Searchable, Origin
<1>3. Passed(h, size, Begun(h, size), {})
  BY <1>2 DEF Passed
<1>4. Counted(h, Begun(h, size), {}, 0)
  <2>1. Cardinality({}) = 0 /\ Cardinality(DOMAIN h.major) \in Nat
    BY FS_EmptySet, FS_CardinalityType DEF Searchable, MajorsOk
  <2> QED
    BY <2>1 DEF Counted
<1> QED
  BY <1>2, <1>3, <1>4 DEF Underway

LEMMA NotBack ==
  ASSUME NEW h, NEW size, NEW q, NEW S, Searchable(h), QOk(h, q), Passed(h, size, q, S),
         h.major[q.at].next # NULL
  PROVE  h.major[q.at].next \in DOMAIN h.major \ (S \cup {q.at}) /\ h.major[h.major[q.at].next].prev = q.at
<1> DEFINE n == h.major[q.at].next
           T == S \cup {q.at}
           C == DOMAIN h.major \ T
<1>0. NULL \notin DOMAIN h.major
  BY Constants DEF Searchable, MajorsOk
<1>1. n \in DOMAIN h.major /\ h.major[n].prev = q.at
  BY DEF Searchable, List, LinkedAt, QOk
<1>2. n \in T => n = Origin(h, q)
  BY <1>1 DEF Passed
<1>3. ASSUME n \in T PROVE FALSE
  <2>1. \A y \in T : h.major[y].prev \in T
    BY <1>1, <1>2, <1>3 DEF Passed
  <2>2. \A b \in C : h.major[b].next # NULL => h.major[b].next \in C
    <3> SUFFICES ASSUME NEW b \in C, h.major[b].next # NULL PROVE h.major[b].next \in C
      OBVIOUS
    <3>1. h.major[b].next \in DOMAIN h.major /\ h.major[h.major[b].next].prev = b
      BY DEF Searchable, List, LinkedAt
    <3> QED
      BY <2>1, <3>1
  <2>3. h.root \in C
    <3>1. h.root \in DOMAIN h.major /\ h.major[h.root].prev = NULL
      BY <1>1, ListRoot DEF Searchable
    <3>2. NULL \notin T
      BY <1>0 DEF Passed, QOk
    <3> QED
      BY <2>1, <3>1, <3>2
  <2>4. Reaches(h.major, h.root, C)
    BY <2>2, <2>3 DEF Reaches
  <2>5. C = DOMAIN h.major
    <3> HIDE DEF T
    <3>1. C \in SUBSET DOMAIN h.major
      OBVIOUS
    <3> HIDE DEF C
    <3> QED
      BY <2>4, <3>1 DEF Searchable, List
  <2> QED
    BY <2>5 DEF QOk
<1> QED
  BY <1>1, <1>3

LEMMA LookedOk ==
  ASSUME NEW h, NEW size, NEW q, NEW k \in Nat, Searchable(h), Underway(h, size, q, k)
  PROVE  Underway(h, size, Looked(h, q, size), k + 1)
<1>1. CASE Ends(h, q, size)
  BY <1>1 DEF Looked, Underway
<1>2. CASE ~Ends(h, q, size)
  <2>1. PICK S : Passed(h, size, q, S) /\ Counted(h, q, S, k)
    BY <1>2 DEF Underway
  <2>2. QOk(h, q) /\ ~Fits(h, q.at, size)
    BY <1>2 DEF Underway, Ends
  <2>3. PICK r : r = Onward(h, q)
    OBVIOUS
  <2>4. PICK n : n = h.major[q.at].next
    OBVIOUS
  <2>5. h.root \in DOMAIN h.major
    BY <2>2, ListRoot DEF Searchable, QOk
  <2>6. n # NULL => n \in DOMAIN h.major
    BY <2>2, <2>4 DEF Searchable, List, LinkedAt, QOk
  <2>7. /\ QOk(h, r) /\ r.at = IF n # NULL THEN n ELSE h.root
        /\ r.startedBet = (q.startedBet /\ n # NULL)
    <3>1. PICK b : b = Better(h, q)
      OBVIOUS
    <3>2. QOk(h, b) /\ b.startedBet = q.startedBet
      BY <2>2, <3>1, BetterIs
    <3>3. r = [b EXCEPT !.at = IF n # NULL THEN n ELSE h.root, !.startedBet = @ /\ n # NULL]
      BY <2>3, <2>4, <3>1 DEF Onward
    <3> QED
      BY <2>2, <2>5, <2>6, <3>2, <3>3 DEF QOk
  <2>8. IsFiniteSet(DOMAIN h.major) /\ S \subseteq DOMAIN h.major
    BY <2>1 DEF Searchable, MajorsOk, Passed
  <2>9. IsFiniteSet(S) /\ Cardinality(S) \in Nat /\ Cardinality(DOMAIN h.major) \in Nat
        /\ Cardinality(S \cup {q.at}) = Cardinality(S) + 1 /\ Cardinality(S \cup {q.at}) <= Cardinality(DOMAIN h.major)
    <3>1. IsFiniteSet(S)
      BY <2>8, FS_Subset
    <3>2. q.at \notin S /\ S \cup {q.at} \subseteq DOMAIN h.major
      BY <2>1, <2>2 DEF Passed, QOk
    <3>3. Cardinality(S \cup {q.at}) = Cardinality(S) + 1
      BY <3>1, <3>2, FS_AddElement
    <3>4. Cardinality(S \cup {q.at}) <= Cardinality(DOMAIN h.major)
      BY <2>8, <3>2, FS_Subset
    <3> QED
      BY <2>8, <3>1, <3>3, <3>4, FS_CardinalityType
  <2>10. CASE n # NULL
    <3>1. n \in DOMAIN h.major \ (S \cup {q.at}) /\ h.major[n].prev = q.at
      BY <2>1, <2>2, <2>4, <2>10, NotBack
    <3>2. r.at = n /\ r.startedBet = q.startedBet /\ Origin(h, r) = Origin(h, q)
      BY <2>2, <2>7, <2>10 DEF Origin, QOk
    <3>3. Passed(h, size, r, S \cup {q.at})
      <4>1. S \cup {q.at} \subseteq DOMAIN h.major /\ r.at \notin S \cup {q.at}
        BY <2>2, <2>8, <3>1, <3>2 DEF QOk
      <4>2. Origin(h, r) \in S \cup {q.at} \cup {r.at}
        BY <2>1, <3>2 DEF Passed
      <4>3. ASSUME NEW x \in S \cup {q.at}
            PROVE  ~Fits(h, x, size) /\ h.major[x].next \in (S \cup {q.at}) \cup {r.at}
        BY <2>1, <2>2, <2>4, <3>2 DEF Passed
      <4>4. ASSUME NEW y \in (S \cup {q.at}) \cup {r.at}, y # Origin(h, r)
            PROVE  h.major[y].prev \in S \cup {q.at}
        BY <2>1, <3>1, <3>2, <4>4 DEF Passed
      <4> QED
        BY <4>1, <4>2, <4>3, <4>4 DEF Passed
    <3>4. Counted(h, r, S \cup {q.at}, k + 1)
      BY <2>1, <2>9, <3>2 DEF Counted
    <3> QED
      BY <1>2, <2>3, <2>7, <3>3, <3>4 DEF Underway, Looked
  <2>11. CASE n = NULL
    <3>1. r.at = h.root /\ r.startedBet = FALSE /\ Origin(h, r) = h.root
      BY <2>2, <2>7, <2>11 DEF Origin, QOk
    <3>2. Passed(h, size, r, {})
      BY <3>1 DEF Passed
    <3>3. q.startedBet
      BY <1>2, <2>4, <2>11 DEF Ends
    <3>4. Cardinality({}) = 0
      BY FS_EmptySet
    <3>5. Counted(h, r, {}, k + 1)
      BY <2>1, <2>9, <3>1, <3>3, <3>4 DEF Counted
    <3> QED
      BY <1>2, <2>3, <2>7, <3>2, <3>5 DEF Underway, Looked
  <2> QED
    BY <2>10, <2>11
<1> QED
  BY <1>1, <1>2

(* The loop is run for as many turns as are asked for.                     *)
SearchRun(h, size, m, A) ==
  A = [k \in 0 .. m |-> IF k = 0 THEN Begun(h, size) ELSE Looked(h, A[k - 1], size)]

LEMMA SearchRunIs ==
  ASSUME NEW h, NEW size, NEW m \in Nat, NEW A, SearchRun(h, size, m, A)
  PROVE  A[0] = Begun(h, size) /\ \A k \in 1 .. m : A[k] = Looked(h, A[k - 1], size)
<1>1. A = [k \in 0 .. m |-> IF k = 0 THEN Begun(h, size) ELSE Looked(h, A[k - 1], size)]
  BY DEF SearchRun
<1> QED
  BY <1>1

LEMMA SearchRunThere ==
  ASSUME NEW h, NEW size, NEW m \in Nat
  PROVE  \E A : SearchRun(h, size, m, A)
<1> DEFINE N == {n \in Nat : \E A : SearchRun(h, size, n, A)}
<1>1. 0 \in N
  <2> DEFINE A == [k \in 0 .. 0 |-> Begun(h, size)]
  <2>1. A = [k \in 0 .. 0 |-> IF k = 0 THEN Begun(h, size) ELSE Looked(h, A[k - 1], size)]
    OBVIOUS
  <2>2. SearchRun(h, size, 0, A)
    BY <2>1 DEF SearchRun
  <2> QED
    BY <2>2
<1>2. ASSUME NEW n \in Nat, n \in N PROVE n + 1 \in N
  <2>1. PICK A : SearchRun(h, size, n, A)
    BY <1>2
  <2> DEFINE B == [k \in 0 .. n + 1 |-> IF k = n + 1 THEN Looked(h, A[n], size) ELSE A[k]]
  <2>2. ASSUME NEW k \in 0 .. n + 1
        PROVE  B[k] = IF k = 0 THEN Begun(h, size) ELSE Looked(h, B[k - 1], size)
    <3>1. A[0] = Begun(h, size) /\ \A j \in 1 .. n : A[j] = Looked(h, A[j - 1], size)
      BY <2>1, SearchRunIs
    <3>2. CASE k = 0
      BY <3>1, <3>2
    <3>3. CASE k = n + 1
      <4>1. k # 0 /\ k - 1 = n /\ n \in 0 .. n + 1 /\ n # n + 1
        BY <3>3
      <4> QED
        BY <3>3, <4>1
    <3>4. CASE k \in 1 .. n
      <4>1. k - 1 \in 0 .. n + 1 /\ k - 1 # n + 1 /\ k # n + 1 /\ k # 0
        BY <3>4
      <4> QED
        BY <3>1, <3>4, <4>1
    <3> QED
      BY <3>2, <3>3, <3>4
  <2>3. B = [k \in 0 .. n + 1 |-> IF k = 0 THEN Begun(h, size) ELSE Looked(h, B[k - 1], size)]
    <3>1. B = [k \in 0 .. n + 1 |-> B[k]]
      OBVIOUS
    <3> HIDE DEF B
    <3> QED
      BY <2>2, <3>1
  <2>4. SearchRun(h, size, n + 1, B)
    <3> HIDE DEF B
    <3> QED
      BY <2>3 DEF SearchRun
  <2> QED
    BY <2>4
<1> QED
  <2> HIDE DEF N
  <2>1. m \in N
    BY <1>1, <1>2, SetInduction
  <2> QED
    BY <2>1 DEF N

LEMMA SearchIs ==
  ASSUME NEW h, NEW size, Searchable(h)
  PROVE  \E A : SearchRun(h, size, Turns(h), A) /\ Search(h, size) = Better(h, A[Turns(h)])
<1> DEFINE turn == CHOOSE A : SearchRun(h, size, Turns(h), A)
<1>0. Turns(h) \in Nat
  BY FS_CardinalityType DEF Turns, Searchable, MajorsOk
<1>1. SearchRun(h, size, Turns(h), turn)
  <2> HIDE DEF SearchRun
  <2> QED
    BY <1>0, SearchRunThere
<1>2. Search(h, size) = Better(h, turn[Turns(h)])
  BY DEF Search, SearchRun
<1> QED
  BY <1>1, <1>2

(* The loop ends at a block that has a gap of the size, or at the last one *)
(* when no block has one.                                                  *)
Found(h, size, q) ==
  /\ QOk(h, q)
  /\ \/ Fits(h, q.at, size)
     \/ h.major[q.at].next = NULL /\ \A a \in DOMAIN h.major : ~Fits(h, a, size)

LEMMA SearchFinds ==
  ASSUME NEW h, NEW size, Searchable(h), DOMAIN h.major # {}
  PROVE  Found(h, size, Search(h, size))
<1>1. PICK A : SearchRun(h, size, Turns(h), A) /\ Search(h, size) = Better(h, A[Turns(h)])
  BY SearchIs
<1>2. Turns(h) \in Nat /\ Cardinality(DOMAIN h.major) \in Nat /\ Turns(h) = 2 * Cardinality(DOMAIN h.major)
  BY FS_CardinalityType DEF Turns, Searchable, MajorsOk
<1>3. A[0] = Begun(h, size) /\ \A k \in 1 .. Turns(h) : A[k] = Looked(h, A[k - 1], size)
  BY <1>1, <1>2, SearchRunIs
<1> DEFINE N == {n \in Nat : n <= Turns(h) => Underway(h, size, A[n], n)}
<1>4. 0 \in N
  BY <1>3, BegunOk
<1>5. ASSUME NEW n \in Nat, n \in N PROVE n + 1 \in N
  <2> SUFFICES ASSUME n + 1 <= Turns(h) PROVE Underway(h, size, A[n + 1], n + 1)
    OBVIOUS
  <2>1. n <= Turns(h) /\ n + 1 \in 1 .. Turns(h) /\ (n + 1) - 1 = n
    BY <1>2
  <2>2. Underway(h, size, A[n], n)
    BY <1>5, <2>1
  <2>3. A[n + 1] = Looked(h, A[n], size)
    BY <1>3, <2>1
  <2> QED
    BY <2>2, <2>3, LookedOk
<1>6. Underway(h, size, A[Turns(h)], Turns(h))
  <2> HIDE DEF N
  <2>1. Turns(h) \in N
    BY <1>2, <1>4, <1>5, SetInduction
  <2> QED
    BY <1>2, <2>1 DEF N
<1>7. PICK q : q = A[Turns(h)]
  OBVIOUS
<1>8. PICK S : Passed(h, size, q, S) /\ (Ends(h, q, size) \/ Counted(h, q, S, Turns(h)))
  BY <1>6, <1>7 DEF Underway
<1>9. QOk(h, q)
  BY <1>6, <1>7 DEF Underway
<1>10. ~Counted(h, q, S, Turns(h))
  <2>1. IsFiniteSet(DOMAIN h.major) /\ S \subseteq DOMAIN h.major /\ q.at \in DOMAIN h.major \ S
    BY <1>8, <1>9 DEF Passed, QOk, Searchable, MajorsOk
  <2>2. IsFiniteSet(S) /\ Cardinality(S) \in Nat
    BY <2>1, FS_Subset, FS_CardinalityType
  <2>3. Cardinality(S) < Cardinality(DOMAIN h.major)
    <3>1. S \cup {q.at} \subseteq DOMAIN h.major /\ q.at \notin S
      BY <2>1
    <3>2. Cardinality(S \cup {q.at}) = Cardinality(S) + 1
      BY <2>2, <3>1, FS_AddElement
    <3>3. Cardinality(S \cup {q.at}) <= Cardinality(DOMAIN h.major)
      BY <2>1, <3>1, FS_Subset
    <3> QED
      BY <1>2, <2>2, <3>2, <3>3
  <2> QED
    BY <1>2, <2>2, <2>3 DEF Counted
<1>11. Ends(h, q, size)
  BY <1>8, <1>10
<1>12. Fits(h, q.at, size) \/ (h.major[q.at].next = NULL /\ \A a \in DOMAIN h.major : ~Fits(h, a, size))
  <2> SUFFICES ASSUME ~Fits(h, q.at, size) PROVE h.major[q.at].next = NULL /\ \A a \in DOMAIN h.major : ~Fits(h, a, size)
    OBVIOUS
  <2>1. h.major[q.at].next = NULL /\ ~q.startedBet
    BY <1>11 DEF Ends
  <2>2. h.root \in S \cup {q.at}
    BY <1>8, <2>1 DEF Passed, Origin
  <2>3. Reaches(h.major, h.root, S \cup {q.at})
    BY <1>8, <2>1, <2>2 DEF Reaches, Passed
  <2>4. S \cup {q.at} \in SUBSET DOMAIN h.major
    BY <1>8, <1>9 DEF Passed, QOk
  <2>5. S \cup {q.at} = DOMAIN h.major
    BY <2>3, <2>4 DEF Searchable, List
  <2>6. \A a \in S \cup {q.at} : ~Fits(h, a, size)
    BY <1>8 DEF Passed
  <2> QED
    BY <2>1, <2>5, <2>6
<1>13. QOk(h, Search(h, size)) /\ Search(h, size).at = q.at
  BY <1>1, <1>7, <1>9, BetterIs
<1> QED
  BY <1>12, <1>13 DEF Found

LEMMA UnfitHasNoGap ==
  ASSUME NEW h, NEW size \in Nat \ {0}, Searchable(h), NEW a \in DOMAIN h.major, ~Fits(h, a, size)
  PROVE  Gaps(a, h.major[a], size) = {}
BY ShortHasNoGap DEF Fits, Short, Searchable

-----------------------------------------------------------------------------
(***************************************************************************)
(* A sound heap, with the ranges `held' that are neither its blocks nor    *)
(* free.  It says what holds between two calls inside kmalloc and kfree as *)
(* well as between two calls of the kernel, as only `held' differs.        *)
(***************************************************************************)
HeapRec(h) ==
  h = [root |-> h.root, bestBet |-> h.bestBet, major |-> h.major, node |-> h.node, stop |-> h.stop]

(* The free ranges and their nodes.                                        *)
NodeType == [at : Nat, pages : Nat, cell : Nat]
RangeOf(n) == [at |-> n.at, pages |-> n.pages]
Touch(r, q) == r.at + r.pages * PageSize = q.at
FreeOf(N) == {RangeOf(N[k]) : k \in DOMAIN N}
CellsOf(N) == {N[k].cell : k \in DOMAIN N}
NodesOk(N) ==
  /\ N \in Seq(NodeType)
  /\ \A k, l \in DOMAIN N : k # l => RangeOf(N[k]) # RangeOf(N[l]) /\ N[k].cell # N[l].cell
  /\ \A r, q \in FreeOf(N) : ~Touch(r, q)
LoneIn(N, r) == \A q \in FreeOf(N) : ~Touch(r, q) /\ ~Touch(q, r)

(* The pieces in the blocks; those of the nodes are in use for them.       *)
BlocksOf(M) == {[at |-> a, pages |-> M[a].pages] : a \in DOMAIN M}
PiecesOf(M) == UNION {M[a].minors : a \in DOMAIN M}
UsedOf(h) == {x \in PiecesOf(h.major) : x.at \notin CellsOf(h.node)}
Celled(h) == \A c \in CellsOf(h.node) : \E x \in PiecesOf(h.major) : x.at = c /\ x.size = NodeSize

Tiled(h, held) ==
  /\ Tiles(BlocksOf(h.major) \cup FreeOf(h.node) \cup held)
  /\ BlocksOf(h.major) \cap FreeOf(h.node) = {}
  /\ (BlocksOf(h.major) \cup FreeOf(h.node)) \cap held = {}
AllFilled(M) == \A a \in DOMAIN M : M[a].minors # {}

Sound(h, held) ==
  /\ HeapRec(h) /\ Searchable(h) /\ AllFilled(h.major) /\ NodesOk(h.node) /\ Celled(h) /\ Tiled(h, held)

LEMMA SameStart ==
  ASSUME NEW T, Tiles(T), NEW r \in T, NEW q \in T, r.at = q.at
  PROVE  r = q
<1>1. RangeOk(r) /\ RangeOk(q)
  BY DEF Tiles
<1>2. ~Apart(r, q)
  <2>1. FirstPage(r) = FirstPage(q)
    BY DEF FirstPage
  <2> QED
    BY <1>1, <2>1, RangeNumbers DEF Apart
<1> QED
  BY <1>2 DEF Tiles

LEMMA SameEnd ==
  ASSUME NEW T, Tiles(T), NEW r \in T, NEW q \in T, EndPage(r) = EndPage(q)
  PROVE  r = q
<1>1. RangeOk(r) /\ RangeOk(q)
  BY DEF Tiles
<1>2. ~Apart(r, q)
  BY <1>1, RangeNumbers DEF Apart
<1> QED
  BY <1>2 DEF Tiles

LEMMA TouchIs ==
  ASSUME NEW r, NEW q, RangeOk(r), RangeOk(q)
  PROVE  Touch(r, q) <=> EndPage(r) = FirstPage(q)
BY PageOrder DEF Touch, RangeOk, EndPage, FirstPage

(* A piece is found by its address, and its block by the piece.            *)
LEMMA PieceOnce ==
  ASSUME NEW h, NEW held, Searchable(h), Tiled(h, held),
         NEW a \in DOMAIN h.major, NEW b \in DOMAIN h.major,
         NEW x \in h.major[a].minors, NEW y \in h.major[b].minors, x.at = y.at
  PROVE  a = b /\ x = y
<1> DEFINE r == [at |-> a, pages |-> h.major[a].pages]
           q == [at |-> b, pages |-> h.major[b].pages]
<1>1. Block(a, h.major[a]) /\ Block(b, h.major[b])
  BY DEF Searchable
<1>2. x \in Piece /\ y \in Piece /\ a + MajorHeader <= x.at /\ End(x) <= a + SizeOf(h.major[a])
      /\ b + MajorHeader <= y.at /\ End(y) <= b + SizeOf(h.major[b])
  BY <1>1 DEF Block, Row
<1>3. x.at \in Nat /\ x.at < End(x) /\ y.at < End(y) /\ End(x) \in Nat /\ End(y) \in Nat
  BY <1>2, EndIs
<1>4. a \in Nat /\ b \in Nat /\ a + SizeOf(h.major[a]) \in Nat /\ b + SizeOf(h.major[b]) \in Nat /\ MajorHeader \in Nat
  BY <1>1, BlockSize, Constants DEF Block
<1>5. r \in BlocksOf(h.major) /\ q \in BlocksOf(h.major)
  BY DEF BlocksOf
<1>6. RangeOk(r) /\ RangeOk(q) /\ (r # q => Apart(r, q))
  BY <1>5 DEF Tiled, Tiles
<1>7. ASSUME a # b PROVE FALSE
  <2>1. Apart(r, q)
    BY <1>6, <1>7
  <2>2. Aligned(a) /\ Aligned(b) /\ h.major[a].pages \in Nat /\ h.major[b].pages \in Nat
    BY <1>6 DEF RangeOk
  <2>3. EndPage(r) = Page(a) + h.major[a].pages /\ EndPage(q) = Page(b) + h.major[b].pages
        /\ FirstPage(r) = Page(a) /\ FirstPage(q) = Page(b)
    BY DEF EndPage, FirstPage
  <2>4. a + SizeOf(h.major[a]) <= b \/ b + SizeOf(h.major[b]) <= a
    BY <2>1, <2>2, <2>3, PageOrder DEF Apart, SizeOf
  <2> QED
    BY <1>2, <1>3, <1>4, <2>4
<1>8. a = b
  BY <1>7
<1>9. x # y => End(x) <= y.at \/ End(y) <= x.at
  BY <1>1, <1>8 DEF Block, Row
<1> QED
  BY <1>3, <1>8, <1>9

LEMMA BlockFound ==
  ASSUME NEW h, NEW held, Searchable(h), Tiled(h, held), NEW a \in DOMAIN h.major, NEW x \in h.major[a].minors
  PROVE  /\ BlockOf(h, x.at) = a
         /\ \A y \in h.major[a].minors : y.at = x.at => y = x
         /\ \A b \in DOMAIN h.major \ {a} : \A y \in h.major[b].minors : y.at # x.at
<1>1. \A b \in DOMAIN h.major : \A y \in h.major[b].minors : y.at = x.at => b = a /\ y = x
  BY PieceOnce
<1>2. BlockOf(h, x.at) \in DOMAIN h.major /\ \E y \in h.major[BlockOf(h, x.at)].minors : y.at = x.at
  BY DEF BlockOf
<1> QED
  BY <1>1, <1>2

(* A node is taken off the sequence.                                       *)
Old(k, i) == IF i < k THEN i ELSE i + 1
LEMMA RemovedIs ==
  ASSUME NEW S, NEW s \in Seq(S), NEW k \in DOMAIN s
  PROVE  /\ RemoveAt(s, k) \in Seq(S) /\ Len(RemoveAt(s, k)) = Len(s) - 1 /\ Len(s) - 1 \in Nat
         /\ DOMAIN RemoveAt(s, k) = 1 .. Len(s) - 1
         /\ \A i \in 1 .. Len(s) - 1 : Old(k, i) \in DOMAIN s \ {k} /\ RemoveAt(s, k)[i] = s[Old(k, i)]
         /\ \A j \in DOMAIN s \ {k} : \E i \in 1 .. Len(s) - 1 : Old(k, i) = j
<1>0. k \in 1 .. Len(s) /\ Len(s) \in Nat /\ DOMAIN s = 1 .. Len(s)
  BY LenProperties
<1> DEFINE f == SubSeq(s, 1, k - 1)
           g == SubSeq(s, k + 1, Len(s))
<1>1. f \in Seq(S) /\ Len(f) = k - 1 /\ \A i \in 1 .. k - 1 : f[i] = s[i]
  BY <1>0, SubSeqProperties
<1>2. g \in Seq(S) /\ Len(g) = Len(s) - k /\ \A i \in 1 .. Len(s) - k : g[i] = s[k + i]
  BY <1>0, SubSeqProperties
<1>3. RemoveAt(s, k) = f \o g
  BY DEF RemoveAt
<1> HIDE DEF f, g
<1>4. f \o g \in Seq(S) /\ Len(f \o g) = Len(s) - 1
      /\ \A i \in 1 .. Len(s) - 1 : (f \o g)[i] = IF i <= k - 1 THEN f[i] ELSE g[i - (k - 1)]
  <2>1. f \o g \in Seq(S) /\ Len(f \o g) = Len(f) + Len(g)
        /\ \A i \in 1 .. Len(f) + Len(g) : (f \o g)[i] = IF i <= Len(f) THEN f[i] ELSE g[i - Len(f)]
    BY <1>1, <1>2, ConcatProperties
  <2>2. Len(f) = k - 1 /\ Len(f) + Len(g) = Len(s) - 1
    BY <1>0, <1>1, <1>2
  <2> QED
    BY <2>1, <2>2
<1>5. ASSUME NEW i \in 1 .. Len(s) - 1 PROVE Old(k, i) \in DOMAIN s \ {k} /\ (f \o g)[i] = s[Old(k, i)]
  <2>1. CASE i < k
    BY <1>0, <1>1, <1>4, <2>1 DEF Old
  <2>2. CASE ~(i < k)
    <3>1. i - (k - 1) \in 1 .. Len(s) - k /\ k + (i - (k - 1)) = i + 1 /\ ~(i <= k - 1)
      BY <1>0, <2>2
    <3>2. (f \o g)[i] = s[i + 1]
      BY <1>2, <1>4, <3>1
    <3> QED
      BY <1>0, <2>2, <3>2 DEF Old
  <2> QED
    BY <2>1, <2>2
<1>6. ASSUME NEW j \in DOMAIN s \ {k} PROVE \E i \in 1 .. Len(s) - 1 : Old(k, i) = j
  <2>1. CASE j < k
    BY <1>0, <2>1 DEF Old
  <2>2. CASE j > k
    <3>1. j - 1 \in 1 .. Len(s) - 1 /\ Old(k, j - 1) = j
      BY <1>0, <2>2 DEF Old
    <3> QED
      BY <3>1
  <2> QED
    BY <1>0, <2>1, <2>2
<1>7. DOMAIN (f \o g) = 1 .. Len(s) - 1 /\ Len(s) - 1 \in Nat
  BY <1>0, <1>4, LenProperties
<1> QED
  BY <1>3, <1>4, <1>5, <1>6, <1>7

LEMMA OldOnce ==
  ASSUME NEW k \in Nat, NEW i \in Nat, NEW j \in Nat, Old(k, i) = Old(k, j)
  PROVE  i = j
BY DEF Old

LEMMA NodeRemoved ==
  ASSUME NEW N, NodesOk(N), NEW k \in DOMAIN N
  PROVE  /\ NodesOk(RemoveAt(N, k))
         /\ FreeOf(RemoveAt(N, k)) = FreeOf(N) \ {RangeOf(N[k])}
         /\ CellsOf(RemoveAt(N, k)) = CellsOf(N) \ {N[k].cell}
<1>1. PICK R : R = RemoveAt(N, k)
  OBVIOUS
<1>2. N \in Seq(NodeType) /\ \A i, j \in DOMAIN N : i # j => RangeOf(N[i]) # RangeOf(N[j]) /\ N[i].cell # N[j].cell
  BY DEF NodesOk
<1>3. /\ R \in Seq(NodeType) /\ DOMAIN R = 1 .. Len(N) - 1
      /\ \A i \in DOMAIN R : Old(k, i) \in DOMAIN N \ {k} /\ R[i] = N[Old(k, i)]
      /\ \A j \in DOMAIN N \ {k} : \E i \in DOMAIN R : Old(k, i) = j
  BY <1>1, <1>2, RemovedIs
<1>4. k \in Nat /\ \A i \in DOMAIN R : i \in Nat
  BY <1>2, <1>3, LenProperties
<1>5. ASSUME NEW i \in DOMAIN R, NEW j \in DOMAIN R, i # j
      PROVE  RangeOf(R[i]) # RangeOf(R[j]) /\ R[i].cell # R[j].cell
  <2>1. Old(k, i) # Old(k, j)
    BY <1>4, <1>5, OldOnce
  <2> QED
    BY <1>2, <1>3, <2>1
<1>6. FreeOf(R) = FreeOf(N) \ {RangeOf(N[k])}
  <2>1. ASSUME NEW i \in DOMAIN R PROVE RangeOf(R[i]) \in FreeOf(N) \ {RangeOf(N[k])}
    BY <1>2, <1>3 DEF FreeOf
  <2>2. ASSUME NEW j \in DOMAIN N, RangeOf(N[j]) # RangeOf(N[k]) PROVE RangeOf(N[j]) \in FreeOf(R)
    <3>1. j # k
      BY <2>2
    <3> QED
      BY <1>3, <3>1 DEF FreeOf
  <2> QED
    BY <2>1, <2>2 DEF FreeOf
<1>7. CellsOf(R) = CellsOf(N) \ {N[k].cell}
  <2>1. ASSUME NEW i \in DOMAIN R PROVE R[i].cell \in CellsOf(N) \ {N[k].cell}
    BY <1>2, <1>3 DEF CellsOf
  <2>2. ASSUME NEW j \in DOMAIN N, N[j].cell # N[k].cell PROVE N[j].cell \in CellsOf(R)
    <3>1. j # k
      BY <2>2
    <3> QED
      BY <1>3, <3>1 DEF CellsOf
  <2> QED
    BY <2>1, <2>2 DEF CellsOf
<1>8. \A r, q \in FreeOf(R) : ~Touch(r, q)
  BY <1>6 DEF NodesOk
<1>9. NodesOk(R)
  BY <1>3, <1>5, <1>8 DEF NodesOk
<1> QED
  BY <1>1, <1>6, <1>7, <1>9

(* A node's range is changed; its cell stays.                              *)
LEMMA NodeChanged ==
  ASSUME NEW N, NodesOk(N), NEW k \in DOMAIN N, NEW at \in Nat, NEW pages \in Nat, NEW R, R \in Seq(NodeType),
         DOMAIN R = DOMAIN N, \A j \in DOMAIN N \ {k} : R[j] = N[j],
         R[k] = [at |-> at, pages |-> pages, cell |-> N[k].cell],
         \A q \in FreeOf(N) \ {RangeOf(N[k])} :
           q # RangeOf(R[k]) /\ ~Touch(q, RangeOf(R[k])) /\ ~Touch(RangeOf(R[k]), q),
         ~Touch(RangeOf(R[k]), RangeOf(R[k]))
  PROVE  /\ NodesOk(R)
         /\ FreeOf(R) = (FreeOf(N) \ {RangeOf(N[k])}) \cup {RangeOf(R[k])}
         /\ CellsOf(R) = CellsOf(N)
<1>1. \A i, j \in DOMAIN N : i # j => RangeOf(N[i]) # RangeOf(N[j]) /\ N[i].cell # N[j].cell
  BY DEF NodesOk
<1>2. \A j \in DOMAIN N : RangeOf(N[j]) \in FreeOf(N)
  BY DEF FreeOf
<1>3. R[k].cell = N[k].cell
  OBVIOUS
<1>4. FreeOf(R) = (FreeOf(N) \ {RangeOf(N[k])}) \cup {RangeOf(R[k])}
  <2>1. ASSUME NEW j \in DOMAIN R PROVE RangeOf(R[j]) \in (FreeOf(N) \ {RangeOf(N[k])}) \cup {RangeOf(R[k])}
    BY <1>1, <1>2
  <2>2. ASSUME NEW j \in DOMAIN N, RangeOf(N[j]) # RangeOf(N[k]) PROVE RangeOf(N[j]) \in FreeOf(R)
    <3>1. j # k /\ j \in DOMAIN R
      BY <2>2
    <3> QED
      BY <3>1 DEF FreeOf
  <2>3. RangeOf(R[k]) \in FreeOf(R)
    BY DEF FreeOf
  <2> QED
    BY <2>1, <2>2, <2>3 DEF FreeOf
<1>5. CellsOf(R) = CellsOf(N)
  <2>1. \A j \in DOMAIN N : R[j].cell = N[j].cell
    BY <1>3
  <2> QED
    BY <2>1 DEF CellsOf
<1>6. ASSUME NEW i \in DOMAIN R, NEW j \in DOMAIN R, i # j
      PROVE  RangeOf(R[i]) # RangeOf(R[j]) /\ R[i].cell # R[j].cell
  <2>1. CASE i = k
    BY <1>1, <1>2, <1>3, <1>6, <2>1
  <2>2. CASE j = k
    BY <1>1, <1>2, <1>3, <1>6, <2>2
  <2>3. CASE i # k /\ j # k
    BY <1>1, <1>6, <2>3
  <2> QED
    BY <2>1, <2>2, <2>3
<1>7. ASSUME NEW r \in FreeOf(R), NEW q \in FreeOf(R) PROVE ~Touch(r, q)
  <2>1. \A s, t \in FreeOf(N) : ~Touch(s, t)
    BY DEF NodesOk
  <2> QED
    BY <1>4, <2>1
<1> QED
  BY <1>4, <1>5, <1>6, <1>7 DEF NodesOk

(* A node is added.                                                        *)
LEMMA NodeAdded ==
  ASSUME NEW N, NodesOk(N), NEW n \in NodeType, RangeOf(n) \notin FreeOf(N), n.cell \notin CellsOf(N),
         LoneIn(N, RangeOf(n)), ~Touch(RangeOf(n), RangeOf(n))
  PROVE  /\ NodesOk(Append(N, n))
         /\ FreeOf(Append(N, n)) = FreeOf(N) \cup {RangeOf(n)}
         /\ CellsOf(Append(N, n)) = CellsOf(N) \cup {n.cell}
<1>1. PICK R : R = Append(N, n)
  OBVIOUS
<1>2. N \in Seq(NodeType) /\ \A i, j \in DOMAIN N : i # j => RangeOf(N[i]) # RangeOf(N[j]) /\ N[i].cell # N[j].cell
  BY DEF NodesOk
<1>3. PICK l \in Nat : l = Len(N) /\ DOMAIN N = 1 .. l
  BY <1>2, LenProperties
<1>4. /\ R \in Seq(NodeType) /\ DOMAIN R = 1 .. l + 1 /\ DOMAIN R = DOMAIN N \cup {l + 1} /\ l + 1 \notin DOMAIN N
      /\ R[l + 1] = n /\ \A i \in DOMAIN N : R[i] = N[i]
  <2>1. R \in Seq(NodeType) /\ Len(R) = l + 1 /\ R[l + 1] = n /\ \A i \in 1 .. l : R[i] = N[i]
    BY <1>1, <1>2, <1>3, AppendProperties
  <2>2. DOMAIN R = 1 .. l + 1
    BY <2>1, LenProperties
  <2> QED
    BY <1>3, <2>1, <2>2
<1>5. FreeOf(R) = FreeOf(N) \cup {RangeOf(n)}
  BY <1>4 DEF FreeOf
<1>6. CellsOf(R) = CellsOf(N) \cup {n.cell}
  <2>1. \A i \in DOMAIN N : R[i].cell = N[i].cell
    BY <1>4
  <2>2. \A i \in DOMAIN R : R[i].cell \in CellsOf(N) \cup {n.cell}
    BY <1>4, <2>1 DEF CellsOf
  <2>3. n.cell \in CellsOf(R) /\ \A i \in DOMAIN N : N[i].cell \in CellsOf(R)
    BY <1>4, <2>1 DEF CellsOf
  <2> QED
    BY <2>2, <2>3 DEF CellsOf
<1>7. ASSUME NEW i \in DOMAIN R, NEW j \in DOMAIN R, i # j
      PROVE  RangeOf(R[i]) # RangeOf(R[j]) /\ R[i].cell # R[j].cell
  <2>1. \A m \in DOMAIN N : RangeOf(N[m]) \in FreeOf(N) /\ N[m].cell \in CellsOf(N)
    BY DEF FreeOf, CellsOf
  <2>2. CASE i = l + 1
    BY <1>4, <1>7, <2>1, <2>2
  <2>3. CASE j = l + 1
    BY <1>4, <1>7, <2>1, <2>3
  <2>4. CASE i # l + 1 /\ j # l + 1
    BY <1>2, <1>4, <1>7, <2>4
  <2> QED
    BY <2>2, <2>3, <2>4
<1>8. ASSUME NEW r \in FreeOf(R), NEW q \in FreeOf(R) PROVE ~Touch(r, q)
  <2>1. \A s, t \in FreeOf(N) : ~Touch(s, t)
    BY DEF NodesOk
  <2> QED
    BY <1>5, <2>1 DEF LoneIn
<1>9. NodesOk(R)
  BY <1>4, <1>7, <1>8 DEF NodesOk
<1> QED
  BY <1>1, <1>5, <1>6, <1>9

-----------------------------------------------------------------------------
(***************************************************************************)
(* Pages are taken from a free range, all of them or the front.            *)
(***************************************************************************)
LEMMA BestNodeIs ==
  ASSUME NEW h, NodesOk(h.node), NEW n \in Nat, Fitting(h, n) # {}
  PROVE  BestNode(h, n) \in DOMAIN h.node /\ h.node[BestNode(h, n)].pages >= n
<1>1. /\ h.node \in Seq(NodeType) /\ DOMAIN h.node \subseteq Nat
      /\ \A k \in DOMAIN h.node : h.node[k] \in NodeType /\ h.node[k].pages \in Nat
  <2>1. h.node \in Seq(NodeType)
    BY DEF NodesOk
  <2>2. DOMAIN h.node = 1 .. Len(h.node) /\ \A k \in 1 .. Len(h.node) : h.node[k] \in NodeType
    BY <2>1, LenProperties, ElementOfSeq
  <2> QED
    BY <2>1, <2>2 DEF NodeType
<1>2. Fitting(h, n) \subseteq DOMAIN h.node /\ Exact(h, n) \subseteq Fitting(h, n)
  BY <1>1 DEF Fitting, Exact
<1>3. CASE Exact(h, n) # {}
  <2>1. Min(Exact(h, n)) \in Exact(h, n)
    BY <1>1, <1>2, <1>3, LeastOf
  <2> QED
    BY <1>1, <1>3, <2>1 DEF BestNode, Exact
<1>4. CASE Exact(h, n) = {}
  <2> DEFINE F == Fitting(h, n)
             P == {h.node[k].pages : k \in F}
  <2>1. PICK m \in P : \A j \in P : m <= j
    <3>1. P \subseteq Nat /\ P # {}
      BY <1>1, <1>2
    <3> QED
      BY <3>1, LeastNumber
  <2>2. PICK k \in F : h.node[k].pages = m /\ \A j \in F : h.node[j].pages = m => k <= j
    <3> DEFINE Y == {k \in F : h.node[k].pages = m}
    <3>1. Y \subseteq Nat /\ Y # {}
      BY <1>1, <1>2, <2>1
    <3>2. PICK k \in Y : \A j \in Y : k <= j
      BY <3>1, LeastNumber
    <3> QED
      BY <3>2
  <2>3. \A j \in F : h.node[k].pages < h.node[j].pages \/ (h.node[k].pages = h.node[j].pages /\ k <= j)
    <3> SUFFICES ASSUME NEW j \in F
                 PROVE  h.node[k].pages < h.node[j].pages \/ (h.node[k].pages = h.node[j].pages /\ k <= j)
      OBVIOUS
    <3>1. m <= h.node[j].pages /\ h.node[j].pages \in Nat /\ m \in Nat
      BY <1>1, <1>2, <2>1
    <3> QED
      BY <2>2, <3>1
  <2>4. BestNode(h, n) \in F
    BY <1>4, <2>2, <2>3 DEF BestNode
  <2> QED
    BY <2>4 DEF Fitting
<1> QED
  BY <1>3, <1>4

LEMMA NodeAt ==
  ASSUME NEW N, NodesOk(N), NEW k \in DOMAIN N
  PROVE  /\ N \in Seq(NodeType) /\ k \in 1 .. Len(N) /\ N[k] \in NodeType
         /\ N[k].at \in Nat /\ N[k].pages \in Nat /\ N[k].cell \in Nat
         /\ N[k].cell \in CellsOf(N) /\ RangeOf(N[k]) \in FreeOf(N)
<1>1. N \in Seq(NodeType)
  BY DEF NodesOk
<1>2. k \in 1 .. Len(N) /\ N[k] \in NodeType
  BY <1>1, LenProperties, ElementOfSeq
<1> QED
  BY <1>1, <1>2 DEF NodeType, CellsOf, FreeOf

LEMMA SeqChanged ==
  ASSUME NEW N, NodesOk(N), NEW k \in DOMAIN N, NEW n \in NodeType
  PROVE  LET R == [N EXCEPT ![k] = n]
         IN R \in Seq(NodeType) /\ DOMAIN R = DOMAIN N /\ R[k] = n /\ \A j \in DOMAIN N \ {k} : R[j] = N[j]
<1>1. N \in Seq(NodeType) /\ k \in 1 .. Len(N)
  BY NodeAt
<1>2. [N EXCEPT ![k] = n] \in Seq(NodeType)
  BY <1>1, ExceptSeq
<1> QED
  BY <1>2

(* What taking pages leaves of the heap.                                   *)
SameBut(h, g) == HeapRec(g) /\ g.root = h.root /\ g.bestBet = h.bestBet /\ g.stop = h.stop
Took(h, held, n, t) ==
  LET r == [at |-> t.p, pages |-> n]
  IN /\ t = [h |-> t.h, p |-> t.p, unused |-> t.unused]
     /\ SameBut(h, t.h) /\ t.h.major = h.major
     /\ t.p \in Nat /\ r \notin held
     /\ NodesOk(t.h.node) /\ Tiled(t.h, held \cup {r})
     /\ IF t.unused = NULL THEN CellsOf(t.h.node) = CellsOf(h.node)
        ELSE t.unused \in CellsOf(h.node) /\ CellsOf(t.h.node) = CellsOf(h.node) \ {t.unused}
     /\ \A l \in held : LoneIn(h.node, l) => LoneIn(t.h.node, l)

LEMMA TakesExact ==
  ASSUME NEW h, NEW held, NEW n \in Nat \ {0}, HeapRec(h), NodesOk(h.node), Tiled(h, held),
         Fitting(h, n) # {}, h.node[BestNode(h, n)].pages = n
  PROVE  Took(h, held, n, TakePages(h, n))
<1>1. PICK k : k = BestNode(h, n)
  OBVIOUS
<1>2. k \in DOMAIN h.node /\ h.node[k].pages = n
  BY <1>1, BestNodeIs
<1>3. PICK t : t = TakePages(h, n)
  OBVIOUS
<1>4. t = [p |-> h.node[k].at, unused |-> h.node[k].cell, h |-> [h EXCEPT !.node = RemoveAt(@, k)]]
  BY <1>1, <1>2, <1>3 DEF TakePages
<1>5. t.p = h.node[k].at /\ t.unused = h.node[k].cell /\ t.unused # NULL
      /\ t.p \in Nat /\ t.unused \in CellsOf(h.node) /\ RangeOf(h.node[k]) \in FreeOf(h.node)
  BY <1>2, <1>4, NodeAt, Constants
<1>6. /\ t = [h |-> t.h, p |-> t.p, unused |-> t.unused]
      /\ SameBut(h, t.h) /\ t.h.major = h.major /\ t.h.node = RemoveAt(h.node, k)
  BY <1>4 DEF SameBut, HeapRec
<1>7. PICK r : r = [at |-> t.p, pages |-> n]
  OBVIOUS
<1>8. r = RangeOf(h.node[k])
  BY <1>2, <1>5, <1>7 DEF RangeOf
<1>9. NodesOk(t.h.node) /\ FreeOf(t.h.node) = FreeOf(h.node) \ {r}
      /\ CellsOf(t.h.node) = CellsOf(h.node) \ {t.unused}
  BY <1>2, <1>5, <1>6, <1>8, NodeRemoved
<1>10. r \in FreeOf(h.node) /\ r \notin held /\ r \notin BlocksOf(h.major)
  BY <1>5, <1>8 DEF Tiled
<1>11. Tiled(t.h, held \cup {r})
  <2>1. BlocksOf(t.h.major) \cup FreeOf(t.h.node) \cup (held \cup {r}) = BlocksOf(h.major) \cup FreeOf(h.node) \cup held
    BY <1>6, <1>9, <1>10
  <2> QED
    BY <1>6, <1>9, <1>10, <2>1 DEF Tiled
<1>12. \A l \in held : LoneIn(h.node, l) => LoneIn(t.h.node, l)
  BY <1>9 DEF LoneIn
<1> QED
  BY <1>3, <1>5, <1>6, <1>7, <1>9, <1>10, <1>11, <1>12 DEF Took

LEMMA TakesPart ==
  ASSUME NEW h, NEW held, NEW n \in Nat \ {0}, HeapRec(h), NodesOk(h.node), Tiled(h, held),
         Fitting(h, n) # {}, h.node[BestNode(h, n)].pages # n
  PROVE  Took(h, held, n, TakePages(h, n))
<1>1. PICK k : k = BestNode(h, n)
  OBVIOUS
<1>2. k \in DOMAIN h.node /\ h.node[k].pages > n
  <2>1. k \in DOMAIN h.node /\ h.node[k].pages >= n
    BY <1>1, BestNodeIs
  <2> QED
    BY <1>1, <2>1, NodeAt
<1>3. PICK t : t = TakePages(h, n)
  OBVIOUS
<1>4. t = [p |-> h.node[k].at, unused |-> NULL,
           h |-> [h EXCEPT !.node[k].at = @ + n * PageSize, !.node[k].pages = @ - n]]
  BY <1>1, <1>2, <1>3 DEF TakePages
<1>5. h.node[k] \in NodeType /\ h.node[k].at \in Nat /\ h.node[k].pages \in Nat /\ RangeOf(h.node[k]) \in FreeOf(h.node)
  BY <1>2, NodeAt
<1> DEFINE N == h.node
           T == BlocksOf(h.major) \cup FreeOf(N) \cup held
           r == RangeOf(N[k])
           p == [at |-> r.at, pages |-> n]
           q == [at |-> r.at + n * PageSize, pages |-> r.pages - n]
<1>6. r.at = N[k].at /\ r.pages = N[k].pages
  BY DEF RangeOf
<1>7. n * PageSize \in Nat /\ r.at + n * PageSize \in Nat /\ r.pages - n \in Nat
  BY <1>2, <1>5, <1>6, Constants, PageMul
<1> DEFINE m == [at |-> q.at, pages |-> q.pages, cell |-> N[k].cell]
<1>8. m \in NodeType
  BY <1>5, <1>7 DEF NodeType
<1>9. /\ t = [h |-> t.h, p |-> t.p, unused |-> t.unused]
      /\ SameBut(h, t.h) /\ t.h.major = h.major
      /\ t.p = r.at /\ t.unused = NULL
  BY <1>4, <1>6 DEF SameBut, HeapRec
<1>10. t.h.node = [N EXCEPT ![k] = m]
  <2>1. t.h.node = [N EXCEPT ![k].at = @ + n * PageSize, ![k].pages = @ - n]
    BY <1>4 DEF HeapRec
  <2>2. [[N[k] EXCEPT !.at = @ + n * PageSize] EXCEPT !.pages = @ - n] = m
    <3>1. PICK x : x = N[k]
      OBVIOUS
    <3>2. x = [at |-> x.at, pages |-> x.pages, cell |-> x.cell] /\ x.at = r.at /\ x.pages = r.pages
      BY <1>5, <1>6, <3>1 DEF NodeType
    <3>3. [[x EXCEPT !.at = @ + n * PageSize] EXCEPT !.pages = @ - n]
          = [at |-> x.at + n * PageSize, pages |-> x.pages - n, cell |-> x.cell]
      <4>1. PICK y : y = [x EXCEPT !.at = @ + n * PageSize]
        OBVIOUS
      <4>2. y = [at |-> x.at + n * PageSize, pages |-> x.pages, cell |-> x.cell]
        BY <3>2, <4>1
      <4>3. [y EXCEPT !.pages = @ - n] = [at |-> x.at + n * PageSize, pages |-> x.pages - n, cell |-> x.cell]
        BY <4>2
      <4> QED
        BY <4>1, <4>3
    <3> QED
      BY <3>1, <3>2, <3>3
  <2>3. DOMAIN t.h.node = DOMAIN N /\ t.h.node[k] = m /\ \A j \in DOMAIN N \ {k} : t.h.node[j] = N[j]
    BY <1>2, <1>5, <1>6, <2>1 DEF NodeType
  <2>4. t.h.node = [j \in DOMAIN N |-> t.h.node[j]]
    BY <2>1
  <2> QED
    BY <1>2, <2>3, <2>4
<1>11. r \in T /\ Tiles(T) /\ r \notin BlocksOf(h.major) /\ r \notin held
  BY <1>5 DEF Tiled
<1> HIDE DEF T, N
<1>12. /\ Tiles((T \ {r}) \cup {p, q}) /\ p \notin T \ {r} /\ q \notin T \ {r} /\ p # q
       /\ RangeOk(p) /\ RangeOk(q)
       /\ FirstPage(p) = FirstPage(r) /\ EndPage(p) = FirstPage(q) /\ EndPage(q) = EndPage(r)
  <2> HIDE DEF r
  <2>1. 0 < n /\ n < r.pages
    BY <1>2, <1>6 DEF N
  <2> QED
    BY <1>11, <2>1, TilesSplit
<1> HIDE DEF p, q
<1>13. RangeOk(r) /\ \A s \in T : RangeOk(s)
  BY <1>11 DEF Tiles
<1>14. ASSUME NEW s \in T \ {r}, \/ s \in FreeOf(N)
                                \/ LoneIn(N, s)
       PROVE  s # q /\ ~Touch(s, q) /\ ~Touch(q, s)
  <2>1. s # q
    BY <1>12
  <2>2. ASSUME Touch(s, q) PROVE FALSE
    <3>1. EndPage(s) = FirstPage(q)
      BY <1>12, <1>13, <2>2, TouchIs
    <3>2. s = p
      BY <1>12, <3>1, SameEnd
    <3> QED
      BY <1>12, <3>2
  <2>3. ASSUME Touch(q, s) PROVE FALSE
    <3>1. EndPage(q) = FirstPage(s)
      BY <1>12, <1>13, <2>3, TouchIs
    <3>2. Touch(r, s)
      BY <1>12, <1>13, <3>1, TouchIs
    <3>3. r \in FreeOf(N)
      BY <1>5 DEF N
    <3> QED
      BY <1>14, <3>2, <3>3 DEF N, NodesOk, LoneIn
  <2> QED
    BY <2>1, <2>2, <2>3
<1>15. FreeOf(N) \subseteq T /\ held \subseteq T
  BY DEF T, N
<1>16. ~Touch(q, q)
  BY <1>12, TouchIs, RangeNumbers
<1>17. RangeOf(m) = q
  BY <1>12 DEF RangeOf, RangeOk
<1>18. /\ NodesOk(t.h.node) /\ FreeOf(t.h.node) = (FreeOf(N) \ {r}) \cup {q} /\ CellsOf(t.h.node) = CellsOf(N)
  <2>1. PICK R : R = t.h.node
    OBVIOUS
  <2>2. NodesOk(N) /\ k \in DOMAIN N
    BY <1>2 DEF N
  <2> HIDE DEF m, r
  <2>3. R \in Seq(NodeType) /\ DOMAIN R = DOMAIN N /\ R[k] = m /\ \A j \in DOMAIN N \ {k} : R[j] = N[j]
    BY <1>8, <1>10, <2>1, <2>2, SeqChanged
  <2>4. m = [at |-> q.at, pages |-> q.pages, cell |-> N[k].cell] /\ q.at \in Nat /\ q.pages \in Nat
    BY <1>8 DEF m, NodeType
  <2>5. r = RangeOf(N[k])
    BY DEF r
  <2>6. \A s \in FreeOf(N) \ {r} : s # q /\ ~Touch(s, q) /\ ~Touch(q, s)
    BY <1>14, <1>15
  <2> QED
    BY <1>16, <1>17, <2>1, <2>2, <2>3, <2>4, <2>5, <2>6, NodeChanged
<1>19. p = [at |-> t.p, pages |-> n]
  BY <1>9 DEF p
<1>20. p \notin held
  BY <1>11, <1>12, <1>15
<1>21. Tiled(t.h, held \cup {p})
  <2>1. T = BlocksOf(h.major) \cup FreeOf(N) \cup held /\ r \in FreeOf(N)
    BY <1>5 DEF T, N
  <2>2. BlocksOf(h.major) \cap FreeOf(N) = {} /\ (BlocksOf(h.major) \cup FreeOf(N)) \cap held = {}
    BY DEF Tiled, N
  <2> HIDE DEF r
  <2>3. BlocksOf(t.h.major) \cup FreeOf(t.h.node) \cup (held \cup {p}) = (T \ {r}) \cup {p, q}
    BY <1>9, <1>11, <1>18, <2>1, <2>2
  <2>4. BlocksOf(t.h.major) \cap FreeOf(t.h.node) = {}
    BY <1>9, <1>11, <1>12, <1>18, <2>1, <2>2
  <2>5. (BlocksOf(t.h.major) \cup FreeOf(t.h.node)) \cap (held \cup {p}) = {}
    BY <1>9, <1>11, <1>12, <1>18, <2>1, <2>2
  <2> QED
    BY <1>12, <2>3, <2>4, <2>5 DEF Tiled
<1>22. \A l \in held : LoneIn(h.node, l) => LoneIn(t.h.node, l)
  <2> SUFFICES ASSUME NEW l \in held, LoneIn(N, l) PROVE LoneIn(t.h.node, l)
    BY DEF N
  <2>1. l \in T \ {r}
    BY <1>11, <1>15
  <2>2. ~Touch(l, q) /\ ~Touch(q, l)
    BY <1>14, <2>1
  <2> QED
    BY <1>18, <2>2 DEF LoneIn
<1>23. t.p \in Nat
  BY <1>5, <1>6, <1>9 DEF N
<1>24. Took(h, held, n, t)
  <2> HIDE DEF r
  <2> QED
    BY <1>9, <1>18, <1>19, <1>20, <1>21, <1>22, <1>23 DEF Took, N
<1> QED
  BY <1>3, <1>24

LEMMA PagesTaken ==
  ASSUME NEW h, NEW held, NEW n \in Nat \ {0}, HeapRec(h), NodesOk(h.node), Tiled(h, held), Fitting(h, n) # {}
  PROVE  Took(h, held, n, TakePages(h, n)) /\ TakePages(h, n).p # NULL
<1>1. Took(h, held, n, TakePages(h, n))
  BY TakesExact, TakesPart
<1> QED
  BY <1>1, Constants DEF Took

LEMMA NoPages ==
  ASSUME NEW h, NEW n, Fitting(h, n) = {}
  PROVE  TakePages(h, n) = [h |-> h, p |-> NULL, unused |-> NULL]
BY DEF TakePages

-----------------------------------------------------------------------------
(***************************************************************************)
(* Pages are given back: to the range before them, behind them, both or    *)
(* none.                                                                   *)
(***************************************************************************)
LEMMA NodeGrown ==
  ASSUME NEW N, NodesOk(N), NEW k \in DOMAIN N, NEW n \in Nat
  PROVE  LET R == [N EXCEPT ![k].pages = @ + n]
         IN /\ R \in Seq(NodeType) /\ DOMAIN R = DOMAIN N /\ Len(R) = Len(N)
            /\ R[k] = [at |-> N[k].at, pages |-> N[k].pages + n, cell |-> N[k].cell]
            /\ \A j \in DOMAIN N \ {k} : R[j] = N[j]
<1>1. N \in Seq(NodeType) /\ k \in 1 .. Len(N) /\ N[k] \in NodeType /\ DOMAIN N = 1 .. Len(N)
  BY NodeAt, LenProperties
<1>2. PICK x : x = N[k]
  OBVIOUS
<1>3. x = [at |-> x.at, pages |-> x.pages, cell |-> x.cell] /\ x.at \in Nat /\ x.pages \in Nat /\ x.cell \in Nat
  BY <1>1, <1>2 DEF NodeType
<1>4. PICK m : m = [x EXCEPT !.pages = @ + n]
  OBVIOUS
<1>5. m = [at |-> x.at, pages |-> x.pages + n, cell |-> x.cell]
  BY <1>3, <1>4
<1>6. m \in NodeType
  BY <1>3, <1>5 DEF NodeType
<1>7. [N EXCEPT ![k].pages = @ + n] = [N EXCEPT ![k] = m]
  BY <1>2, <1>4
<1>8. /\ [N EXCEPT ![k] = m] \in Seq(NodeType) /\ Len([N EXCEPT ![k] = m]) = Len(N)
  BY <1>1, <1>6, ExceptSeq
<1> QED
  BY <1>1, <1>2, <1>5, <1>7, <1>8

Moves(N, k, n, a, R) == R = [N EXCEPT ![k].pages = @ + n, ![k].at = a]
LEMMA NodeMoved ==
  ASSUME NEW N, NodesOk(N), NEW k \in DOMAIN N, NEW n \in Nat, NEW a \in Nat,
         NEW R, Moves(N, k, n, a, R)
  PROVE  /\ R \in Seq(NodeType) /\ DOMAIN R = DOMAIN N /\ Len(R) = Len(N)
         /\ R[k] = [at |-> a, pages |-> N[k].pages + n, cell |-> N[k].cell]
         /\ \A j \in DOMAIN N \ {k} : R[j] = N[j]
<1>1. N \in Seq(NodeType) /\ k \in 1 .. Len(N) /\ N[k] \in NodeType /\ DOMAIN N = 1 .. Len(N)
  BY NodeAt, LenProperties
<1>2. PICK x : x = N[k]
  OBVIOUS
<1>3. x = [at |-> x.at, pages |-> x.pages, cell |-> x.cell] /\ x.at \in Nat /\ x.pages \in Nat /\ x.cell \in Nat
  BY <1>1, <1>2 DEF NodeType
<1>4. PICK y : y = [x EXCEPT !.pages = @ + n]
  OBVIOUS
<1>5. y = [at |-> x.at, pages |-> x.pages + n, cell |-> x.cell]
  BY <1>3, <1>4
<1>6. PICK m : m = [y EXCEPT !.at = a]
  OBVIOUS
<1>7. m = [at |-> a, pages |-> x.pages + n, cell |-> x.cell]
  BY <1>5, <1>6
<1>8. m \in NodeType
  BY <1>3, <1>7 DEF NodeType
<1>9. [N EXCEPT ![k].pages = @ + n, ![k].at = a] = [N EXCEPT ![k] = m]
  <2>1. PICK P : P = [N EXCEPT ![k].pages = @ + n]
    OBVIOUS
  <2>2. P = [N EXCEPT ![k] = y]
    BY <1>2, <1>4, <2>1
  <2>3. P[k] = y /\ DOMAIN P = DOMAIN N /\ \A j \in DOMAIN N \ {k} : P[j] = N[j]
    BY <2>2
  <2>4. [P EXCEPT ![k].at = a] = [P EXCEPT ![k] = m]
    BY <1>6, <2>3
  <2>5. [P EXCEPT ![k] = m] = [N EXCEPT ![k] = m]
    BY <2>2, <2>3
  <2> QED
    BY <2>1, <2>4, <2>5
<1>10. /\ [N EXCEPT ![k] = m] \in Seq(NodeType) /\ Len([N EXCEPT ![k] = m]) = Len(N)
  BY <1>1, <1>8, ExceptSeq
<1> QED
  BY <1>1, <1>2, <1>7, <1>9, <1>10 DEF Moves

Merged(T, r, q, m) ==
  /\ Tiles((T \ {r, q}) \cup {m}) /\ m \notin T \ {r, q} /\ RangeOk(m)
  /\ FirstPage(m) = FirstPage(r) /\ EndPage(m) = EndPage(q) /\ EndPage(r) = FirstPage(q) /\ r # q
LEMMA TouchMerges ==
  ASSUME NEW T, Tiles(T), NEW r \in T, NEW q \in T, Touch(r, q)
  PROVE  Merged(T, r, q, [at |-> r.at, pages |-> r.pages + q.pages])
<1>1. r.at + r.pages * PageSize = q.at
  BY DEF Touch
<1> QED
  BY <1>1, TilesMerge DEF Merged

(* What joining pages to the free ranges leaves.                           *)
JoinedOk(h, held, r, j) ==
  /\ j = [h |-> j.h, free |-> j.free, lone |-> j.lone]
  /\ SameBut(h, j.h) /\ j.h.major = h.major /\ NodesOk(j.h.node)
  /\ \/ j.lone = r /\ j.h = h /\ j.free = NULL /\ LoneIn(h.node, r)
     \/ /\ j.lone = NULL /\ Tiled(j.h, held)
        /\ IF j.free = NULL THEN CellsOf(j.h.node) = CellsOf(h.node) /\ Len(j.h.node) = Len(h.node)
           ELSE /\ j.free \in CellsOf(h.node) /\ CellsOf(j.h.node) = CellsOf(h.node) \ {j.free}
                /\ Len(j.h.node) = Len(h.node) - 1

LEMMA FrontBack ==
  ASSUME NEW h, NodesOk(h.node), NEW a, NEW n
  PROVE  LET r == [at |-> a, pages |-> n]
         IN /\ FrontNode(h, a) = {k \in DOMAIN h.node : Touch(RangeOf(h.node[k]), r)}
            /\ BackNode(h, a, n) = {k \in DOMAIN h.node : Touch(r, RangeOf(h.node[k]))}
            /\ FrontNode(h, a) # {} => Min(FrontNode(h, a)) \in FrontNode(h, a)
            /\ BackNode(h, a, n) # {} => Min(BackNode(h, a, n)) \in BackNode(h, a, n)
<1>1. FrontNode(h, a) \subseteq DOMAIN h.node /\ BackNode(h, a, n) \subseteq DOMAIN h.node
  BY DEF FrontNode, BackNode
<1>2. DOMAIN h.node \subseteq Nat
  BY LenProperties DEF NodesOk
<1>3. /\ FrontNode(h, a) # {} => Min(FrontNode(h, a)) \in FrontNode(h, a)
      /\ BackNode(h, a, n) # {} => Min(BackNode(h, a, n)) \in BackNode(h, a, n)
  BY <1>1, <1>2, LeastOf
<1>4. /\ FrontNode(h, a) = {k \in DOMAIN h.node : Touch(RangeOf(h.node[k]), [at |-> a, pages |-> n])}
      /\ BackNode(h, a, n) = {k \in DOMAIN h.node : Touch([at |-> a, pages |-> n], RangeOf(h.node[k]))}
  BY DEF FrontNode, BackNode, Touch, RangeOf
<1> QED
  BY <1>3, <1>4

Loose(h, held, r) ==
  /\ HeapRec(h) /\ NodesOk(h.node) /\ Tiled(h, held \cup {r}) /\ r \notin held
  /\ r = [at |-> r.at, pages |-> r.pages]

LEMMA LooseIs ==
  ASSUME NEW h, NEW held, NEW r, Loose(h, held, r)
  PROVE  LET T == BlocksOf(h.major) \cup FreeOf(h.node) \cup (held \cup {r})
         IN /\ Tiles(T) /\ \A s \in T : RangeOk(s)
            /\ FreeOf(h.node) \subseteq T /\ r \in T
            /\ BlocksOf(h.major) \cap FreeOf(h.node) = {}
            /\ (BlocksOf(h.major) \cup FreeOf(h.node)) \cap (held \cup {r}) = {}
            /\ r.at \in Nat /\ r.pages \in Nat
<1>1. Tiles(BlocksOf(h.major) \cup FreeOf(h.node) \cup (held \cup {r}))
  BY DEF Loose, Tiled
<1>2. RangeOk(r)
  BY <1>1 DEF Tiles
<1> QED
  BY <1>1, <1>2 DEF Loose, Tiled, Tiles, RangeOk, Aligned

LEMMA JoinsFront ==
  ASSUME NEW h, NEW held, NEW r, Loose(h, held, r),
         FrontNode(h, r.at) # {}, BackNode(h, r.at, r.pages) = {}
  PROVE  JoinedOk(h, held, r, Joined(h, r.at, r.pages))
<1>1. PICK f : f = Min(FrontNode(h, r.at))
  OBVIOUS
<1>2. PICK j : j = Joined(h, r.at, r.pages)
  OBVIOUS
<1>3. j = [h |-> [h EXCEPT !.node[f].pages = @ + r.pages], free |-> NULL, lone |-> NULL]
  BY <1>1, <1>2 DEF Joined
<1> DEFINE N == h.node
           F == RangeOf(N[f])
           m == [at |-> F.at, pages |-> F.pages + r.pages]
           T == BlocksOf(h.major) \cup FreeOf(N) \cup (held \cup {r})
<1>4. NodesOk(N)
  BY DEF Loose
<1>5. r = [at |-> r.at, pages |-> r.pages]
  BY DEF Loose
<1>6. f \in DOMAIN N /\ Touch(F, r) /\ \A k \in DOMAIN N : ~Touch(r, RangeOf(N[k]))
  BY <1>1, <1>4, <1>5, FrontBack
<1>7. F \in FreeOf(N) /\ F.at = N[f].at /\ F.pages = N[f].pages /\ N[f].at \in Nat /\ N[f].pages \in Nat
  BY <1>4, <1>6, NodeAt DEF RangeOf
<1>8. /\ Tiles(T) /\ \A s \in T : RangeOk(s)
      /\ FreeOf(N) \subseteq T /\ r \in T
      /\ BlocksOf(h.major) \cap FreeOf(N) = {}
      /\ (BlocksOf(h.major) \cup FreeOf(N)) \cap (held \cup {r}) = {}
      /\ r.at \in Nat /\ r.pages \in Nat
  BY LooseIs
<1> HIDE DEF T, N, F
<1>9. /\ Tiles((T \ {F, r}) \cup {m}) /\ m \notin T \ {F, r} /\ RangeOk(m)
      /\ FirstPage(m) = FirstPage(F) /\ EndPage(m) = EndPage(r)
  <2>1. F.at + F.pages * PageSize = r.at /\ F \in T /\ r \in T /\ Tiles(T)
    BY <1>6, <1>7, <1>8 DEF Touch
  <2>2. Touch(F, r)
    BY <1>6
  <2>3. Merged(T, F, r, m)
    BY <2>1, <2>2, TouchMerges
  <2> HIDE DEF m
  <2> QED
    BY <2>3 DEF Merged
<1>10. PICK R : R = [N EXCEPT ![f].pages = @ + r.pages]
  OBVIOUS
<1>11. /\ R \in Seq(NodeType) /\ DOMAIN R = DOMAIN N /\ Len(R) = Len(N)
       /\ R[f] = [at |-> F.at, pages |-> F.pages + r.pages, cell |-> N[f].cell]
       /\ \A i \in DOMAIN N \ {f} : R[i] = N[i]
  BY <1>4, <1>6, <1>7, <1>8, <1>10, NodeGrown
<1>12. RangeOf(R[f]) = m
  BY <1>11 DEF RangeOf
<1>13. ASSUME NEW s \in FreeOf(N) \ {F} PROVE s # m /\ ~Touch(s, m) /\ ~Touch(m, s)
  <2>1. s \in T \ {F, r} /\ RangeOk(s) /\ RangeOk(F) /\ RangeOk(r)
    BY <1>7, <1>8
  <2>2. s # m
    BY <1>9, <2>1
  <2>3. ~Touch(s, m)
    <3>1. ~Touch(s, F)
      BY <1>4, <1>7 DEF NodesOk
    <3> HIDE DEF m
    <3> QED
      BY <1>9, <2>1, <3>1, TouchIs
  <2>4. ~Touch(m, s)
    <3>1. ~Touch(r, s)
      BY <1>6 DEF FreeOf
    <3> HIDE DEF m
    <3> QED
      BY <1>9, <2>1, <3>1, TouchIs
  <2> QED
    BY <2>2, <2>3, <2>4
<1>14. ~Touch(m, m)
  <2> HIDE DEF m
  <2> QED
    BY <1>9, TouchIs, RangeNumbers
<1>15. NodesOk(R) /\ FreeOf(R) = (FreeOf(N) \ {F}) \cup {m} /\ CellsOf(R) = CellsOf(N)
  <2>1. F.pages + r.pages \in Nat /\ F.at \in Nat
    BY <1>7, <1>8
  <2>2. F = RangeOf(N[f])
    BY DEF F
  <2> HIDE DEF m
  <2> QED
    BY <1>4, <1>6, <1>11, <1>12, <1>13, <1>14, <2>1, <2>2, NodeChanged
<1>16. /\ j = [h |-> j.h, free |-> j.free, lone |-> j.lone]
       /\ SameBut(h, j.h) /\ j.h.major = h.major /\ j.h.node = R /\ j.free = NULL /\ j.lone = NULL
  BY <1>3, <1>10 DEF SameBut, HeapRec, Loose, N
<1>17. Tiled(j.h, held)
  <2>1. r \notin held
    BY DEF Loose
  <2>2. T = BlocksOf(h.major) \cup FreeOf(N) \cup (held \cup {r})
    BY DEF T
  <2> HIDE DEF m
  <2>3. BlocksOf(h.major) \cup FreeOf(R) \cup held = (T \ {F, r}) \cup {m}
    BY <1>7, <1>8, <1>15, <2>1, <2>2
  <2>4. BlocksOf(h.major) \cap FreeOf(R) = {}
    BY <1>7, <1>8, <1>9, <1>15, <2>2
  <2>5. (BlocksOf(h.major) \cup FreeOf(R)) \cap held = {}
    BY <1>7, <1>8, <1>9, <1>15, <2>1, <2>2
  <2> QED
    BY <1>9, <1>16, <2>3, <2>4, <2>5 DEF Tiled
<1>18. Len(j.h.node) = Len(h.node) /\ CellsOf(j.h.node) = CellsOf(h.node)
  BY <1>11, <1>15, <1>16 DEF N
<1> QED
  BY <1>2, <1>15, <1>16, <1>17, <1>18 DEF JoinedOk

LEMMA JoinsBack ==
  ASSUME NEW h, NEW held, NEW r, Loose(h, held, r),
         FrontNode(h, r.at) = {}, BackNode(h, r.at, r.pages) # {}
  PROVE  JoinedOk(h, held, r, Joined(h, r.at, r.pages))
<1>1. PICK b : b = Min(BackNode(h, r.at, r.pages))
  OBVIOUS
<1>2. PICK j : j = Joined(h, r.at, r.pages)
  OBVIOUS
<1>3. j = [h |-> [h EXCEPT !.node[b].pages = @ + r.pages, !.node[b].at = r.at], free |-> NULL, lone |-> NULL]
  BY <1>1, <1>2 DEF Joined
<1> DEFINE N == h.node
           B == RangeOf(N[b])
           m == [at |-> r.at, pages |-> r.pages + B.pages]
           T == BlocksOf(h.major) \cup FreeOf(N) \cup (held \cup {r})
<1>4. NodesOk(N)
  BY DEF Loose
<1>5. r = [at |-> r.at, pages |-> r.pages]
  BY DEF Loose
<1>6. b \in DOMAIN N /\ Touch(r, B) /\ \A k \in DOMAIN N : ~Touch(RangeOf(N[k]), r)
  BY <1>1, <1>4, <1>5, FrontBack
<1>7. B \in FreeOf(N) /\ B.at = N[b].at /\ B.pages = N[b].pages /\ N[b].at \in Nat /\ N[b].pages \in Nat
  BY <1>4, <1>6, NodeAt DEF RangeOf
<1>8. /\ Tiles(T) /\ \A s \in T : RangeOk(s)
      /\ FreeOf(N) \subseteq T /\ r \in T
      /\ BlocksOf(h.major) \cap FreeOf(N) = {}
      /\ (BlocksOf(h.major) \cup FreeOf(N)) \cap (held \cup {r}) = {}
      /\ r.at \in Nat /\ r.pages \in Nat
  BY LooseIs
<1> HIDE DEF T, N, B
<1>9. /\ Tiles((T \ {r, B}) \cup {m}) /\ m \notin T \ {r, B} /\ RangeOk(m)
      /\ FirstPage(m) = FirstPage(r) /\ EndPage(m) = EndPage(B)
  <2>1. B \in T /\ r \in T /\ Tiles(T) /\ Touch(r, B)
    BY <1>6, <1>7, <1>8
  <2>2. Merged(T, r, B, m)
    BY <2>1, TouchMerges
  <2> HIDE DEF m
  <2> QED
    BY <2>2 DEF Merged
<1>10. PICK R : R = [N EXCEPT ![b].pages = @ + r.pages, ![b].at = r.at]
  OBVIOUS
<1>11. /\ R \in Seq(NodeType) /\ DOMAIN R = DOMAIN N /\ Len(R) = Len(N)
       /\ R[b] = [at |-> r.at, pages |-> r.pages + B.pages, cell |-> N[b].cell]
       /\ \A i \in DOMAIN N \ {b} : R[i] = N[i]
  <2>1. /\ R \in Seq(NodeType) /\ DOMAIN R = DOMAIN N /\ Len(R) = Len(N)
        /\ R[b] = [at |-> r.at, pages |-> N[b].pages + r.pages, cell |-> N[b].cell]
        /\ \A i \in DOMAIN N \ {b} : R[i] = N[i]
    <3>1. NodesOk(N) /\ b \in DOMAIN N /\ r.pages \in Nat /\ r.at \in Nat
      BY <1>4, <1>6, <1>8
    <3>2. Moves(N, b, r.pages, r.at, R)
      BY <1>10 DEF Moves
    <3> QED
      BY <3>1, <3>2, NodeMoved
  <2>2. N[b].pages + r.pages = r.pages + B.pages
    BY <1>7, <1>8
  <2> QED
    BY <2>1, <2>2
<1>12. RangeOf(R[b]) = m
  BY <1>11 DEF RangeOf
<1>13. ASSUME NEW s \in FreeOf(N) \ {B} PROVE s # m /\ ~Touch(s, m) /\ ~Touch(m, s)
  <2>1. s \in T \ {r, B} /\ RangeOk(s) /\ RangeOk(B) /\ RangeOk(r)
    BY <1>7, <1>8
  <2>2. s # m
    BY <1>9, <2>1
  <2>3. ~Touch(m, s)
    <3>1. ~Touch(B, s)
      BY <1>4, <1>7 DEF NodesOk
    <3> HIDE DEF m
    <3> QED
      BY <1>9, <2>1, <3>1, TouchIs
  <2>4. ~Touch(s, m)
    <3>1. ~Touch(s, r)
      BY <1>6 DEF FreeOf
    <3> HIDE DEF m
    <3> QED
      BY <1>9, <2>1, <3>1, TouchIs
  <2> QED
    BY <2>2, <2>3, <2>4
<1>14. ~Touch(m, m)
  <2> HIDE DEF m
  <2> QED
    BY <1>9, TouchIs, RangeNumbers
<1>15. NodesOk(R) /\ FreeOf(R) = (FreeOf(N) \ {B}) \cup {m} /\ CellsOf(R) = CellsOf(N)
  <2>1. r.pages + B.pages \in Nat /\ r.at \in Nat
    BY <1>7, <1>8
  <2>2. B = RangeOf(N[b])
    BY DEF B
  <2> HIDE DEF m
  <2> QED
    BY <1>4, <1>6, <1>11, <1>12, <1>13, <1>14, <2>1, <2>2, NodeChanged
<1>16. /\ j = [h |-> j.h, free |-> j.free, lone |-> j.lone]
       /\ SameBut(h, j.h) /\ j.h.major = h.major /\ j.h.node = R /\ j.free = NULL /\ j.lone = NULL
  BY <1>3, <1>10 DEF SameBut, HeapRec, Loose, N
<1>17. Tiled(j.h, held)
  <2>1. r \notin held
    BY DEF Loose
  <2>2. T = BlocksOf(h.major) \cup FreeOf(N) \cup (held \cup {r})
    BY DEF T
  <2> HIDE DEF m
  <2>3. BlocksOf(h.major) \cup FreeOf(R) \cup held = (T \ {r, B}) \cup {m}
    BY <1>7, <1>8, <1>15, <2>1, <2>2
  <2>4. BlocksOf(h.major) \cap FreeOf(R) = {}
    BY <1>7, <1>8, <1>9, <1>15, <2>2
  <2>5. (BlocksOf(h.major) \cup FreeOf(R)) \cap held = {}
    BY <1>7, <1>8, <1>9, <1>15, <2>1, <2>2
  <2> QED
    BY <1>9, <1>16, <2>3, <2>4, <2>5 DEF Tiled
<1>18. Len(j.h.node) = Len(h.node) /\ CellsOf(j.h.node) = CellsOf(h.node)
  BY <1>11, <1>15, <1>16 DEF N
<1> QED
  BY <1>2, <1>15, <1>16, <1>17, <1>18 DEF JoinedOk

LEMMA JoinsBoth ==
  ASSUME NEW h, NEW held, NEW r, Loose(h, held, r),
         FrontNode(h, r.at) # {}, BackNode(h, r.at, r.pages) # {}
  PROVE  JoinedOk(h, held, r, Joined(h, r.at, r.pages))
<1>1. PICK f : f = Min(FrontNode(h, r.at))
  OBVIOUS
<1>2. PICK b : b = Min(BackNode(h, r.at, r.pages))
  OBVIOUS
<1>3. PICK j : j = Joined(h, r.at, r.pages)
  OBVIOUS
<1>4. j = [h |-> [h EXCEPT !.node = RemoveAt([h.node EXCEPT ![f].pages = @ + (r.pages + h.node[b].pages)], b)],
           free |-> h.node[b].cell, lone |-> NULL]
  BY <1>1, <1>2, <1>3 DEF Joined
<1> DEFINE N == h.node
           F == RangeOf(N[f])
           B == RangeOf(N[b])
           n == r.pages + N[b].pages
           u == [at |-> F.at, pages |-> F.pages + r.pages]
           m == [at |-> F.at, pages |-> F.pages + n]
           T == BlocksOf(h.major) \cup FreeOf(N) \cup (held \cup {r})
           V == (T \ {F, r}) \cup {u}
<1>5. NodesOk(N)
  BY DEF Loose
<1>6. r = [at |-> r.at, pages |-> r.pages]
  BY DEF Loose
<1>7. f \in DOMAIN N /\ Touch(F, r) /\ b \in DOMAIN N /\ Touch(r, B)
  BY <1>1, <1>2, <1>5, <1>6, FrontBack
<1>8. /\ F \in FreeOf(N) /\ F.at = N[f].at /\ F.pages = N[f].pages /\ N[f].at \in Nat /\ N[f].pages \in Nat
      /\ B \in FreeOf(N) /\ B.at = N[b].at /\ B.pages = N[b].pages /\ N[b].at \in Nat /\ N[b].pages \in Nat
      /\ N[b].cell \in CellsOf(N) /\ N[b].cell \in Nat
  BY <1>5, <1>7, NodeAt DEF RangeOf
<1>9. /\ Tiles(T) /\ \A s \in T : RangeOk(s)
      /\ FreeOf(N) \subseteq T /\ r \in T
      /\ BlocksOf(h.major) \cap FreeOf(N) = {}
      /\ (BlocksOf(h.major) \cup FreeOf(N)) \cap (held \cup {r}) = {}
      /\ r.at \in Nat /\ r.pages \in Nat
  BY LooseIs
<1> HIDE DEF T, N, F, B
<1>10. Merged(T, F, r, u)
  BY <1>7, <1>8, <1>9, TouchMerges
<1>11. n \in Nat /\ u.at = F.at /\ u.pages = F.pages + r.pages /\ m = [at |-> u.at, pages |-> u.pages + B.pages]
  BY <1>8, <1>9
<1> HIDE DEF u
<1>12. RangeOk(F) /\ RangeOk(B) /\ RangeOk(r) /\ RangeOk(u)
  BY <1>8, <1>9, <1>10 DEF Merged
<1>13. /\ FirstPage(u) = FirstPage(F) /\ EndPage(u) = EndPage(r) /\ EndPage(F) = FirstPage(r)
       /\ Tiles(V) /\ u \notin T \ {F, r}
  BY <1>10 DEF Merged
<1>14. EndPage(r) = FirstPage(B)
  BY <1>7, <1>12, TouchIs
<1>15. FirstPage(F) < FirstPage(B) /\ FirstPage(r) < FirstPage(B)
  BY <1>12, <1>13, <1>14, RangeNumbers
<1>16. F # B /\ B # r /\ B \in V /\ u \in V /\ f # b
  <2>1. F # B /\ B # r
    <3>1. FirstPage(F) \in Nat /\ FirstPage(r) \in Nat
      BY <1>12, RangeNumbers
    <3> QED
      BY <1>15, <3>1
  <2> QED
    BY <1>8, <1>9, <2>1 DEF F, B
<1>17. Merged(V, u, B, m)
  <2>1. Touch(u, B)
    BY <1>12, <1>13, <1>14, TouchIs
  <2> HIDE DEF V, m
  <2> QED
    BY <1>11, <1>13, <1>16, <2>1, TouchMerges
<1>18. u # B /\ u \notin FreeOf(N) \ {F}
  <2>1. u # B
    BY <1>17 DEF Merged
  <2>2. r \notin FreeOf(N)
    BY <1>9
  <2> QED
    BY <1>9, <1>13, <2>1, <2>2
<1>19. /\ Tiles((V \ {u, B}) \cup {m}) /\ m \notin V \ {u, B} /\ RangeOk(m)
       /\ FirstPage(m) = FirstPage(u) /\ EndPage(m) = EndPage(B)
  <2> HIDE DEF V, m
  <2> QED
    BY <1>17 DEF Merged
<1>20. PICK R : R = [N EXCEPT ![f].pages = @ + n]
  OBVIOUS
<1>21. /\ R \in Seq(NodeType) /\ DOMAIN R = DOMAIN N /\ Len(R) = Len(N)
       /\ R[f] = [at |-> F.at, pages |-> F.pages + n, cell |-> N[f].cell]
       /\ \A i \in DOMAIN N \ {f} : R[i] = N[i]
  <2> HIDE DEF n
  <2> QED
    BY <1>5, <1>7, <1>8, <1>11, <1>20, NodeGrown
<1>22. RangeOf(R[f]) = m
  BY <1>21 DEF RangeOf
<1> HIDE DEF m
<1>23. ASSUME NEW s \in FreeOf(N) \ {F} PROVE s # m /\ ~Touch(s, m) /\ ~Touch(m, s)
  <2>1. s \in T \ {F, r} /\ RangeOk(s)
    BY <1>8, <1>9
  <2>2. s # m
    <3>1. CASE s = B
      <4>1. FirstPage(m) # FirstPage(B)
        BY <1>12, <1>13, <1>15, <1>19, RangeNumbers
      <4> QED
        BY <3>1, <4>1
    <3>2. CASE s # B
      BY <1>13, <1>19, <2>1, <3>2
    <3> QED
      BY <3>1, <3>2
  <2>3. ~Touch(s, m)
    <3>1. ~Touch(s, F)
      BY <1>5, <1>8 DEF NodesOk
    <3> QED
      BY <1>12, <1>13, <1>19, <2>1, <3>1, TouchIs
  <2>4. ~Touch(m, s)
    <3>1. ~Touch(B, s)
      BY <1>5, <1>8 DEF NodesOk
    <3> QED
      BY <1>12, <1>19, <2>1, <3>1, TouchIs
  <2> QED
    BY <2>2, <2>3, <2>4
<1>24. ~Touch(m, m)
  BY <1>19, TouchIs, RangeNumbers
<1>25. NodesOk(R) /\ FreeOf(R) = (FreeOf(N) \ {F}) \cup {m} /\ CellsOf(R) = CellsOf(N)
  <2>1. F.pages + n \in Nat /\ F.at \in Nat
    BY <1>8, <1>11
  <2>2. F = RangeOf(N[f])
    BY DEF F
  <2> HIDE DEF n
  <2> QED
    BY <1>5, <1>7, <1>21, <1>22, <1>23, <1>24, <2>1, <2>2, NodeChanged
<1>26. R[b] = N[b] /\ b \in DOMAIN R /\ RangeOf(R[b]) = B
  BY <1>7, <1>16, <1>21 DEF B
<1>27. PICK Y : Y = RemoveAt(R, b)
  OBVIOUS
<1>28. NodesOk(Y) /\ FreeOf(Y) = FreeOf(R) \ {B} /\ CellsOf(Y) = CellsOf(N) \ {N[b].cell}
  BY <1>25, <1>26, <1>27, NodeRemoved
<1>29. Len(Y) = Len(N) - 1
  <2>1. R \in Seq(NodeType) /\ b \in DOMAIN R
    BY <1>21, <1>26
  <2>2. Len(RemoveAt(R, b)) = Len(R) - 1
    BY <2>1, RemovedIs
  <2> QED
    BY <1>21, <1>27, <2>2
<1>30. /\ j = [h |-> j.h, free |-> j.free, lone |-> j.lone]
       /\ SameBut(h, j.h) /\ j.h.major = h.major /\ j.h.node = Y /\ j.free = N[b].cell /\ j.lone = NULL
  <2>1. j = [h |-> [h EXCEPT !.node = Y], free |-> N[b].cell, lone |-> NULL]
    BY <1>4, <1>20, <1>27 DEF N
  <2>2. HeapRec(h)
    BY DEF Loose
  <2> QED
    BY <2>1, <2>2 DEF SameBut, HeapRec
<1>31. Tiled(j.h, held)
  <2>1. r \notin held
    BY DEF Loose
  <2>2. T = BlocksOf(h.major) \cup FreeOf(N) \cup (held \cup {r})
    BY DEF T
  <2>3. FreeOf(Y) = (FreeOf(N) \ {F, B}) \cup {m}
    <3>1. m # B
      BY <1>16, <1>23, <1>8
    <3> QED
      BY <1>25, <1>28, <3>1
  <2>4. V \ {u, B} = T \ {F, r, B}
    BY <1>13
  <2>5. BlocksOf(h.major) \cup FreeOf(Y) \cup held = (V \ {u, B}) \cup {m}
    BY <1>8, <1>9, <2>1, <2>2, <2>3, <2>4
  <2>6. BlocksOf(h.major) \cap FreeOf(Y) = {}
    BY <1>8, <1>9, <1>19, <2>2, <2>3, <2>4
  <2>7. (BlocksOf(h.major) \cup FreeOf(Y)) \cap held = {}
    BY <1>8, <1>9, <1>19, <2>1, <2>2, <2>3, <2>4
  <2> QED
    BY <1>19, <1>30, <2>5, <2>6, <2>7 DEF Tiled
<1>32. j.free # NULL
  BY <1>8, <1>30, Constants
<1> QED
  BY <1>3, <1>8, <1>28, <1>29, <1>30, <1>31, <1>32 DEF JoinedOk, N

LEMMA JoinsNone ==
  ASSUME NEW h, NEW held, NEW r, Loose(h, held, r),
         FrontNode(h, r.at) = {}, BackNode(h, r.at, r.pages) = {}
  PROVE  JoinedOk(h, held, r, Joined(h, r.at, r.pages))
<1>1. PICK j : j = Joined(h, r.at, r.pages)
  OBVIOUS
<1>2. j = [h |-> h, free |-> NULL, lone |-> [at |-> r.at, pages |-> r.pages]]
  BY <1>1 DEF Joined
<1>3. r = [at |-> r.at, pages |-> r.pages] /\ NodesOk(h.node) /\ HeapRec(h)
  BY DEF Loose
<1>4. LoneIn(h.node, r)
  <2>1. \A k \in DOMAIN h.node : ~Touch(RangeOf(h.node[k]), r) /\ ~Touch(r, RangeOf(h.node[k]))
    BY <1>3, FrontBack
  <2> QED
    BY <2>1 DEF LoneIn, FreeOf
<1>5. /\ j = [h |-> j.h, free |-> j.free, lone |-> j.lone]
      /\ j.h = h /\ j.free = NULL /\ j.lone = r
  BY <1>2, <1>3
<1> QED
  BY <1>1, <1>3, <1>4, <1>5 DEF JoinedOk, SameBut

LEMMA Joins ==
  ASSUME NEW h, NEW held, NEW r, Loose(h, held, r)
  PROVE  JoinedOk(h, held, r, Joined(h, r.at, r.pages))
BY JoinsFront, JoinsBack, JoinsBoth, JoinsNone

-----------------------------------------------------------------------------
(***************************************************************************)
(* A block gets a piece, or loses one and may be left without any.         *)
(***************************************************************************)
Half(h, held) == HeapRec(h) /\ Searchable(h) /\ NodesOk(h.node) /\ Celled(h) /\ Tiled(h, held)
FilledBut(M, a) == \A b \in DOMAIN M \ {a} : M[b].minors # {}

(* The pieces of one block change.                                         *)
Refills(M, a, X, N) ==
  /\ DOMAIN N = DOMAIN M /\ MajorsOk(N) /\ SameLinks(M, N) /\ BlocksOf(N) = BlocksOf(M)
  /\ N[a].pages = M[a].pages /\ N[a].minors = X
  /\ \A b \in DOMAIN M \ {a} : N[b] = M[b]

LEMMA RefillIs ==
  ASSUME NEW M, MajorsOk(M), NEW a \in DOMAIN M, NEW X \in SUBSET Piece
  PROVE  Refills(M, a, X, [M EXCEPT ![a].minors = X])
<1>1. \A b \in DOMAIN M : M[b] \in MajorType
  BY DEF MajorsOk
<1>2. PICK m : m = M[a]
  OBVIOUS
<1>3. m = [prev |-> m.prev, next |-> m.next, pages |-> m.pages, minors |-> m.minors] /\ m \in MajorType
  BY <1>1, <1>2 DEF MajorType
<1>4. PICK n : n = [m EXCEPT !.minors = X]
  OBVIOUS
<1>5. n = [prev |-> m.prev, next |-> m.next, pages |-> m.pages, minors |-> X]
  BY <1>3, <1>4
<1>6. n \in MajorType
  BY <1>3, <1>5 DEF MajorType
<1>7. PICK N : N = [M EXCEPT ![a].minors = X]
  OBVIOUS
<1>8. DOMAIN N = DOMAIN M /\ N[a] = n /\ \A b \in DOMAIN M \ {a} : N[b] = M[b]
  BY <1>2, <1>4, <1>7
<1>9. N = [b \in DOMAIN M |-> N[b]]
  BY <1>7, <1>8
<1>10. MajorsOk(N)
  <2>1. \A b \in DOMAIN M : N[b] \in MajorType
    BY <1>1, <1>6, <1>8
  <2> QED
    BY <1>8, <1>9, <2>1 DEF MajorsOk
<1>11. \A b \in DOMAIN M : N[b].prev = M[b].prev /\ N[b].next = M[b].next /\ N[b].pages = M[b].pages
  BY <1>2, <1>5, <1>8
<1>12. BlocksOf(N) = BlocksOf(M)
  BY <1>8, <1>11 DEF BlocksOf
<1>13. SameLinks(M, N)
  BY <1>8, <1>11 DEF SameLinks
<1> QED
  BY <1>5, <1>7, <1>8, <1>10, <1>11, <1>12, <1>13 DEF Refills

SameRest(h, g) == HeapRec(g) /\ g.root = h.root /\ g.bestBet = h.bestBet /\ g.stop = h.stop /\ g.node = h.node

LEMMA RefillSearchable ==
  ASSUME NEW h, NEW g, NEW held, NEW a \in DOMAIN h.major, NEW X, Half(h, held), SameRest(h, g),
         Refills(h.major, a, X, g.major), Row(X, a + MajorHeader, a + SizeOf(h.major[a]))
  PROVE  Searchable(g) /\ Tiled(g, held)
<1>1. MajorsOk(g.major) /\ DOMAIN g.major = DOMAIN h.major
  BY DEF Refills
<1>2. List(g.major, g.root)
  BY ListAlike DEF Refills, Half, Searchable, SameRest
<1>3. g.bestBet \in DOMAIN g.major \cup {NULL}
  BY DEF Refills, Half, Searchable, SameRest
<1>4. ASSUME NEW b \in DOMAIN g.major PROVE Block(b, g.major[b])
  <2>1. Block(b, h.major[b])
    BY <1>1 DEF Half, Searchable
  <2>2. CASE b = a
    BY <2>1, <2>2 DEF Block, Refills, SizeOf
  <2>3. CASE b # a
    BY <1>1, <2>1, <2>3 DEF Refills
  <2> QED
    BY <2>2, <2>3
<1>5. Tiled(g, held)
  <2>1. BlocksOf(g.major) = BlocksOf(h.major) /\ g.node = h.node
    BY DEF Refills, SameRest
  <2> QED
    BY <2>1 DEF Half, Tiled
<1> QED
  BY <1>1, <1>2, <1>3, <1>4, <1>5 DEF Searchable

(* A piece is put in a gap.                                                *)
Gains(h, g, p, size) ==
  /\ [at |-> p, size |-> size] \in PiecesOf(g.major) /\ p \notin CellsOf(g.node)
  /\ UsedOf(g) = UsedOf(h) \cup {[at |-> p, size |-> size]}
  /\ \A y \in UsedOf(h) : y.at # p
Gained(h, got, held, size) ==
  /\ got = [h |-> got.h, p |-> got.p]
  /\ got.h.stop = h.stop /\ got.p \in Nat /\ Sound(got.h, held) /\ Gains(h, got.h, got.p, size)

LEMMA PlacedIs ==
  ASSUME NEW h, NEW held, NEW a \in DOMAIN h.major, NEW size \in Nat \ {0}, Half(h, held), FilledBut(h.major, a),
         NEW at \in Gaps(a, h.major[a], size)
  PROVE  Gained(h, Placed(h, a, at, size), held, size) /\ Placed(h, a, at, size).p = at
         /\ Placed(h, a, at, size).h.node = h.node
<1> DEFINE x == [at |-> at, size |-> size]
<1>1. PICK got : got = Placed(h, a, at, size)
  OBVIOUS
<1>2. PICK g : g = got.h
  OBVIOUS
<1>3. Block(a, h.major[a]) /\ MajorsOk(h.major) /\ HeapRec(h)
  BY DEF Half, Searchable
<1>4. PICK X : X = h.major[a].minors \cup {x}
  OBVIOUS
<1>5. x \in Piece /\ (\A y \in h.major[a].minors : y.at # at) /\ Row(X, a + MajorHeader, a + SizeOf(h.major[a]))
  BY <1>3, <1>4, GapTaken
<1>6. got = [p |-> at, h |-> [h EXCEPT !.major[a].minors = X]]
  BY <1>1, <1>4 DEF Placed
<1>7. got = [h |-> got.h, p |-> got.p] /\ got.p = at /\ SameRest(h, g) /\ g.major = [h.major EXCEPT ![a].minors = X]
  BY <1>2, <1>3, <1>6 DEF HeapRec, SameRest
<1>8. Refills(h.major, a, X, g.major)
  <2>1. X \in SUBSET Piece
    BY <1>5 DEF Row
  <2> QED
    BY <1>3, <1>7, <2>1, RefillIs
<1>9. Searchable(g) /\ Tiled(g, held)
  BY <1>5, <1>7, <1>8, RefillSearchable
<1>10. DOMAIN g.major = DOMAIN h.major /\ g.major[a].minors = h.major[a].minors \cup {x}
       /\ \A b \in DOMAIN h.major \ {a} : g.major[b] = h.major[b]
  BY <1>4, <1>8 DEF Refills
<1> HIDE DEF x
<1>11. PiecesOf(g.major) = PiecesOf(h.major) \cup {x}
  BY <1>10 DEF PiecesOf
<1>12. x.at = at /\ x.size = size
  BY DEF x
<1>13. ASSUME NEW y \in PiecesOf(h.major) PROVE y.at # at
  <2>1. PICK b \in DOMAIN h.major : y \in h.major[b].minors
    BY DEF PiecesOf
  <2>2. CASE b = a
    BY <1>5, <2>1, <2>2
  <2>3. CASE b # a
    <3>1. b \in DOMAIN g.major /\ y \in g.major[b].minors /\ a \in DOMAIN g.major /\ x \in g.major[a].minors
      BY <1>10, <2>1, <2>3
    <3> QED
      BY <1>9, <1>12, <2>3, <3>1, PieceOnce
  <2> QED
    BY <2>2, <2>3
<1>14. Celled(g) /\ at \notin CellsOf(g.node) /\ g.node = h.node
  BY <1>7, <1>11, <1>13 DEF Half, Celled, SameRest
<1>15. AllFilled(g.major)
  BY <1>10 DEF AllFilled, FilledBut
<1>16. Sound(g, held)
  BY <1>7, <1>9, <1>14, <1>15 DEF Sound, Half, SameRest
<1>17. UsedOf(g) = UsedOf(h) \cup {x}
  BY <1>11, <1>12, <1>14 DEF UsedOf
<1>18. \A y \in UsedOf(h) : y.at # at
  BY <1>13 DEF UsedOf
<1>19. Gains(h, g, at, size)
  BY <1>11, <1>14, <1>17, <1>18 DEF Gains, x
<1>20. at \in Nat
  BY <1>3, GapIs
<1>21. Gained(h, got, held, size)
  BY <1>2, <1>7, <1>16, <1>19, <1>20 DEF Gained, SameRest
<1> QED
  BY <1>1, <1>2, <1>7, <1>14, <1>21

(* The first gap of a block is one of them.                                *)
LEMMA FirstGap ==
  ASSUME NEW a, NEW m, Block(a, m), NEW size \in Nat, Gaps(a, m, size) # {}
  PROVE  Min(Gaps(a, m, size)) \in Gaps(a, m, size)
<1>1. Gaps(a, m, size) \subseteq Nat
  BY GapIs
<1> QED
  BY <1>1, LeastOf

(* A piece is taken off its block.                                         *)
Lost(h, g, p) == \E x \in UsedOf(h) : x.at = p /\ UsedOf(g) = UsedOf(h) \ {x}
LEMMA WithoutIs ==
  ASSUME NEW h, NEW held, Half(h, held), AllFilled(h.major), NEW p, NEW x \in UsedOf(h), x.at = p
  PROVE  LET a == BlockOf(h, p)
             g == Without(h, a, p)
         IN /\ a \in DOMAIN h.major /\ x \in h.major[a].minors
            /\ Half(g, held) /\ FilledBut(g.major, a) /\ DOMAIN g.major = DOMAIN h.major
            /\ UsedOf(g) = UsedOf(h) \ {x} /\ g.node = h.node /\ g.stop = h.stop
            /\ g.major[a].minors = h.major[a].minors \ {x} /\ g.major[a].pages = h.major[a].pages
<1>1. PICK a \in DOMAIN h.major : x \in h.major[a].minors
  BY DEF UsedOf, PiecesOf
<1>2. Searchable(h) /\ Tiled(h, held) /\ MajorsOk(h.major) /\ HeapRec(h)
  BY DEF Half, Searchable
<1>3. /\ BlockOf(h, p) = a
      /\ \A y \in h.major[a].minors : y.at = p => y = x
      /\ \A b \in DOMAIN h.major \ {a} : \A y \in h.major[b].minors : y.at # p
  BY <1>1, <1>2, BlockFound
<1>4. PICK g : g = Without(h, a, p)
  OBVIOUS
<1>5. PICK X : X = {y \in h.major[a].minors : y.at # p}
  OBVIOUS
<1>6. X = h.major[a].minors \ {x}
  BY <1>3, <1>5
<1>7. g = [h EXCEPT !.major[a].minors = X]
  BY <1>4, <1>5 DEF Without
<1>8. SameRest(h, g) /\ g.major = [h.major EXCEPT ![a].minors = X]
  BY <1>2, <1>7 DEF HeapRec, SameRest
<1>9. Row(X, a + MajorHeader, a + SizeOf(h.major[a]))
  <2>1. Row(h.major[a].minors, a + MajorHeader, a + SizeOf(h.major[a]))
    BY <1>2 DEF Searchable, Block
  <2>2. X \subseteq h.major[a].minors
    BY <1>6
  <2>3. IsFiniteSet(X)
    BY <2>1, <2>2, FS_Subset DEF Row
  <2> QED
    BY <2>1, <2>2, <2>3 DEF Row
<1>10. Refills(h.major, a, X, g.major)
  <2>1. X \in SUBSET Piece
    BY <1>9 DEF Row
  <2> QED
    BY <1>1, <1>2, <1>8, <2>1, RefillIs
<1>11. Searchable(g) /\ Tiled(g, held)
  BY <1>8, <1>9, <1>10, RefillSearchable
<1>12. DOMAIN g.major = DOMAIN h.major /\ g.major[a].minors = h.major[a].minors \ {x}
       /\ g.major[a].pages = h.major[a].pages
       /\ \A b \in DOMAIN h.major \ {a} : g.major[b] = h.major[b]
  BY <1>6, <1>10 DEF Refills
<1>13. PiecesOf(g.major) = PiecesOf(h.major) \ {x}
  <2>1. \A b \in DOMAIN h.major \ {a} : x \notin h.major[b].minors
    BY <1>3
  <2> QED
    BY <1>12, <2>1 DEF PiecesOf
<1>14. p \notin CellsOf(h.node) /\ g.node = h.node
  BY <1>8 DEF UsedOf, SameRest
<1>15. Celled(g)
  <2> SUFFICES ASSUME NEW c \in CellsOf(h.node) PROVE \E y \in PiecesOf(g.major) : y.at = c /\ y.size = NodeSize
    BY <1>14 DEF Celled
  <2>1. PICK y \in PiecesOf(h.major) : y.at = c /\ y.size = NodeSize
    BY DEF Half, Celled
  <2>2. y # x
    BY <1>14, <2>1
  <2> QED
    BY <1>13, <2>1, <2>2
<1>16. UsedOf(g) = UsedOf(h) \ {x}
  BY <1>13, <1>14 DEF UsedOf
<1>17. FilledBut(g.major, a)
  BY <1>12 DEF AllFilled, FilledBut
<1>18. Half(g, held) /\ g.stop = h.stop
  BY <1>8, <1>11, <1>14, <1>15 DEF Half, SameRest
<1> QED
  BY <1>1, <1>3, <1>4, <1>12, <1>14, <1>16, <1>17, <1>18

-----------------------------------------------------------------------------
(***************************************************************************)
(* kfree and vmmFreePages, which call each other.  At every moment there   *)
(* is nothing left to do, a piece to be freed, or a range that waits for   *)
(* its node.                                                               *)
(***************************************************************************)
LEMMA SoundIs ==
  ASSUME NEW h, NEW held
  PROVE  Sound(h, held) <=> Half(h, held) /\ AllFilled(h.major)
BY DEF Sound, Half

LEMMA RoomierIs ==
  ASSUME NEW h, NEW held, Half(h, held), NEW a \in DOMAIN h.major
  PROVE  LET g == RoomierBet(h, a)
         IN Half(g, held) /\ g.major = h.major /\ g.node = h.node /\ g.stop = h.stop /\ UsedOf(g) = UsedOf(h)
<1>1. PICK g : g = RoomierBet(h, a)
  OBVIOUS
<1>2. HeapRec(h) /\ h.bestBet \in DOMAIN h.major \cup {NULL}
  BY DEF Half, Searchable
<1>3. /\ HeapRec(g) /\ g.root = h.root /\ g.major = h.major /\ g.node = h.node /\ g.stop = h.stop
      /\ g.bestBet \in DOMAIN h.major \cup {NULL}
  BY <1>1, <1>2 DEF RoomierBet, HeapRec
<1>4. Searchable(g) /\ Celled(g) /\ Tiled(g, held) /\ NodesOk(g.node)
  BY <1>3 DEF Half, Searchable, Celled, Tiled
<1>5. UsedOf(g) = UsedOf(h)
  BY <1>3 DEF UsedOf
<1> QED
  BY <1>1, <1>3, <1>4, <1>5 DEF Half

(* A block without pieces is taken off the list.                           *)
LEMMA UnlistedIs ==
  ASSUME NEW h, NEW held, Half(h, held), NEW a \in DOMAIN h.major, h.major[a].minors = {}, FilledBut(h.major, a)
  PROVE  LET g == Unlisted(h, a)
             r == [at |-> a, pages |-> h.major[a].pages]
         IN /\ Sound(g, held \cup {r}) /\ r \notin held /\ UsedOf(g) = UsedOf(h)
            /\ g.node = h.node /\ g.stop = h.stop
<1> DEFINE r == [at |-> a, pages |-> h.major[a].pages]
           M == h.major
<1>1. PICK g : g = Unlisted(h, a)
  OBVIOUS
<1>2. HeapRec(h) /\ MajorsOk(M) /\ List(M, h.root) /\ h.bestBet \in DOMAIN M \cup {NULL}
      /\ \A b \in DOMAIN M : Block(b, M[b])
  BY DEF Half, Searchable
<1>3. /\ HeapRec(g) /\ g.node = h.node /\ g.stop = h.stop
      /\ g.root = NewRoot(M, h.root, a) /\ g.bestBet = (IF h.bestBet = a THEN NULL ELSE h.bestBet)
      /\ g.major = Dropped(M, a)
  BY <1>1, <1>2 DEF Unlisted, HeapRec, NewRoot, Dropped
<1>4. DroppedRight(M, a, g.major)
  BY <1>2, <1>3, DroppedIs
<1>5. /\ DOMAIN g.major = DOMAIN M \ {a} /\ MajorsOk(g.major)
      /\ \A b \in DOMAIN M \ {a} : g.major[b].pages = M[b].pages /\ g.major[b].minors = M[b].minors
  BY <1>4 DEF DroppedRight
<1>6. List(g.major, g.root)
  BY <1>2, <1>3, ListDrops
<1> HIDE DEF M
<1>7. \A b \in DOMAIN g.major : Block(b, g.major[b])
  BY <1>2, <1>5 DEF Block, SizeOf
<1>8. Searchable(g)
  BY <1>2, <1>3, <1>5, <1>6, <1>7 DEF Searchable
<1>9. PiecesOf(g.major) = PiecesOf(M)
  <2>1. M[a].minors = {}
    BY DEF M
  <2>2. PiecesOf(g.major) \subseteq PiecesOf(M)
    BY <1>5 DEF PiecesOf
  <2>3. ASSUME NEW x \in PiecesOf(M) PROVE x \in PiecesOf(g.major)
    <3>1. PICK b \in DOMAIN M : x \in M[b].minors
      BY DEF PiecesOf
    <3>2. b \in DOMAIN g.major /\ x \in g.major[b].minors
      BY <1>5, <2>1, <3>1
    <3> QED
      BY <3>2 DEF PiecesOf
  <2> QED
    BY <2>2, <2>3
<1>10. Celled(g) /\ UsedOf(g) = UsedOf(h) /\ NodesOk(g.node)
  BY <1>3, <1>9 DEF Celled, UsedOf, Half, M
<1>11. r \in BlocksOf(M)
  BY DEF BlocksOf, M
<1>12. BlocksOf(g.major) = BlocksOf(M) \ {r}
  <2>1. \A b \in DOMAIN M : [at |-> b, pages |-> M[b].pages] = r => b = a
    OBVIOUS
  <2> QED
    BY <1>5, <2>1 DEF BlocksOf, M
<1>13. Tiled(g, held \cup {r}) /\ r \notin held
  <2>1. /\ Tiles(BlocksOf(M) \cup FreeOf(h.node) \cup held)
        /\ BlocksOf(M) \cap FreeOf(h.node) = {}
        /\ (BlocksOf(M) \cup FreeOf(h.node)) \cap held = {}
    BY DEF Half, Tiled, M
  <2> HIDE DEF r
  <2>2. BlocksOf(g.major) \cup FreeOf(g.node) \cup (held \cup {r}) = BlocksOf(M) \cup FreeOf(h.node) \cup held
    BY <1>3, <1>11, <1>12
  <2> QED
    BY <1>3, <1>11, <1>12, <2>1, <2>2 DEF Tiled
<1>14. AllFilled(g.major)
  BY <1>5 DEF AllFilled, FilledBut, M
<1>15. Sound(g, held \cup {r})
  BY <1>3, <1>8, <1>10, <1>13, <1>14 DEF Sound
<1> QED
  BY <1>1, <1>3, <1>10, <1>13, <1>15

(* A cell is given up: its piece is in use for nothing else.               *)
LEMMA CellGone ==
  ASSUME NEW h, NEW g, NEW held, Sound(h, held), g.major = h.major,
         NEW c \in CellsOf(h.node), CellsOf(g.node) = CellsOf(h.node) \ {c}
  PROVE  \E x \in UsedOf(g) : x.at = c /\ x.size = NodeSize /\ UsedOf(h) = UsedOf(g) \ {x}
<1>1. PICK x \in PiecesOf(h.major) : x.at = c /\ x.size = NodeSize
  BY DEF Sound, Celled
<1>2. x \in UsedOf(g) /\ x \notin UsedOf(h)
  BY <1>1 DEF UsedOf
<1>3. ASSUME NEW y \in UsedOf(g), y.at = c PROVE y = x
  <2>1. PICK a \in DOMAIN h.major : x \in h.major[a].minors
    BY <1>1 DEF PiecesOf
  <2>2. PICK b \in DOMAIN h.major : y \in h.major[b].minors
    BY DEF UsedOf, PiecesOf
  <2>3. Searchable(h) /\ Tiled(h, held)
    BY DEF Sound
  <2> QED
    BY <1>1, <1>3, <2>1, <2>2, <2>3, PieceOnce
<1>4. UsedOf(h) = UsedOf(g) \ {x}
  <2>1. UsedOf(h) \subseteq UsedOf(g)
    BY DEF UsedOf
  <2>2. ASSUME NEW y \in UsedOf(g), y # x PROVE y \in UsedOf(h)
    <3>1. y.at # c
      BY <1>3, <2>2
    <3> QED
      BY <3>1 DEF UsedOf
  <2> QED
    BY <1>2, <2>1, <2>2
<1> QED
  BY <1>1, <1>2, <1>4

(* The moments between kfree and vmmFreePages.                             *)
IsRange(r) == r = [at |-> r.at, pages |-> r.pages] /\ r.at \in Nat /\ r.pages \in Nat
Done(r, held, U) == r.lone = NULL /\ r.free = NULL /\ Sound(r.h, held) /\ UsedOf(r.h) = U
Freeing(r, held, U) ==
  r.lone = NULL /\ r.free # NULL /\ Sound(r.h, held) /\ \E x \in UsedOf(r.h) : x.at = r.free /\ UsedOf(r.h) \ {x} = U
Left(r, held, U) ==
  /\ r.lone # NULL /\ r.free = NULL /\ Sound(r.h, held \cup {r.lone}) /\ UsedOf(r.h) = U
  /\ r.lone \notin held /\ LoneIn(r.h.node, r.lone) /\ IsRange(r.lone)
Moment(r, held, U, stop) ==
  /\ r = [h |-> r.h, free |-> r.free, lone |-> r.lone] /\ r.h.stop = stop
  /\ Done(r, held, U) \/ Freeing(r, held, U) \/ Left(r, held, U)

LEMMA JoinedMoment ==
  ASSUME NEW h, NEW held, NEW r, Sound(h, held \cup {r}), r \notin held, IsRange(r)
  PROVE  LET j == Joined(h, r.at, r.pages)
         IN /\ Moment(j, held, UsedOf(h), h.stop)
            /\ Len(j.h.node) \in Nat /\ Len(h.node) \in Nat
            /\ j.free # NULL => Len(j.h.node) = Len(h.node) - 1
<1>1. PICK j : j = Joined(h, r.at, r.pages)
  OBVIOUS
<1>2. Loose(h, held, r)
  BY DEF Loose, Sound, IsRange
<1>3. JoinedOk(h, held, r, j)
  BY <1>1, <1>2, Joins
<1>4. /\ j = [h |-> j.h, free |-> j.free, lone |-> j.lone]
      /\ HeapRec(j.h) /\ j.h.root = h.root /\ j.h.bestBet = h.bestBet /\ j.h.stop = h.stop
      /\ j.h.major = h.major /\ NodesOk(j.h.node)
  BY <1>3 DEF JoinedOk, SameBut
<1>5. Len(j.h.node) \in Nat /\ Len(h.node) \in Nat
  BY <1>4, LenProperties DEF NodesOk, Sound
<1>6. Searchable(j.h) /\ AllFilled(j.h.major)
  BY <1>4 DEF Searchable, Sound
<1>7. CASE j.lone = r /\ j.h = h /\ j.free = NULL /\ LoneIn(h.node, r)
  <2>1. r # NULL
    BY Constants DEF IsRange
  <2>2. Left(j, held, UsedOf(h))
    BY <1>7, <2>1 DEF Left
  <2> QED
    BY <1>1, <1>4, <1>5, <1>7, <2>2 DEF Moment
<1>8. CASE j.lone = NULL /\ Tiled(j.h, held) /\ j.free = NULL
  <2>1. CellsOf(j.h.node) = CellsOf(h.node)
    BY <1>3, <1>8, Constants DEF JoinedOk, IsRange
  <2>2. Celled(j.h) /\ UsedOf(j.h) = UsedOf(h)
    BY <1>4, <2>1 DEF Celled, UsedOf, Sound
  <2>3. Done(j, held, UsedOf(h))
    BY <1>4, <1>6, <1>8, <2>2 DEF Done, Sound
  <2> QED
    BY <1>1, <1>4, <1>5, <1>8, <2>3 DEF Moment
<1>9. CASE j.lone = NULL /\ Tiled(j.h, held) /\ j.free # NULL
  <2>1. /\ j.free \in CellsOf(h.node) /\ CellsOf(j.h.node) = CellsOf(h.node) \ {j.free}
        /\ Len(j.h.node) = Len(h.node) - 1
    BY <1>3, <1>9 DEF JoinedOk
  <2>2. Celled(j.h)
    BY <1>4, <2>1 DEF Celled, Sound
  <2>3. \E x \in UsedOf(j.h) : x.at = j.free /\ UsedOf(h) = UsedOf(j.h) \ {x}
    BY <1>4, <2>1, CellGone
  <2>4. Freeing(j, held, UsedOf(h))
    BY <1>4, <1>6, <1>9, <2>2, <2>3 DEF Freeing, Sound
  <2> QED
    BY <1>1, <1>4, <1>5, <1>9, <2>1, <2>4 DEF Moment
<1> QED
  BY <1>3, <1>7, <1>8, <1>9 DEF JoinedOk

LEMMA FreePieceMoment ==
  ASSUME NEW h, NEW held, Sound(h, held), NEW x \in UsedOf(h), NEW p, p = x.at
  PROVE  LET s == FreePiece(h, p)
         IN /\ Moment(s, held, UsedOf(h) \ {x}, h.stop)
            /\ Len(s.h.node) \in Nat /\ Len(h.node) \in Nat
            /\ s.free # NULL => Len(s.h.node) = Len(h.node) - 1
<1>1. PICK a : a = BlockOf(h, p)
  OBVIOUS
<1>2. PICK g : g = Without(h, a, p)
  OBVIOUS
<1>3. Half(h, held) /\ AllFilled(h.major)
  BY SoundIs
<1>4. /\ a \in DOMAIN h.major /\ x \in h.major[a].minors
      /\ Half(g, held) /\ FilledBut(g.major, a) /\ DOMAIN g.major = DOMAIN h.major
      /\ UsedOf(g) = UsedOf(h) \ {x} /\ g.node = h.node /\ g.stop = h.stop
      /\ g.major[a].minors = h.major[a].minors \ {x} /\ g.major[a].pages = h.major[a].pages
  BY <1>1, <1>2, <1>3, WithoutIs
<1>5. PICK s : s = FreePiece(h, p)
  OBVIOUS
<1>6. Len(h.node) \in Nat
  BY <1>3, LenProperties DEF Half, NodesOk
<1>7. CASE Empties(h, p)
  <2>1. g.major[a].minors = {}
    BY <1>1, <1>2, <1>7 DEF Empties
  <2>2. PICK u : u = Unlisted(g, a)
    OBVIOUS
  <2>3. PICK r : r = [at |-> a, pages |-> h.major[a].pages]
    OBVIOUS
  <2>4. /\ Sound(u, held \cup {r}) /\ r \notin held /\ UsedOf(u) = UsedOf(g)
        /\ u.node = g.node /\ u.stop = g.stop
    BY <1>4, <2>1, <2>2, <2>3, UnlistedIs
  <2>5. IsRange(r) /\ r.at = a /\ r.pages = h.major[a].pages
    BY <1>3, <1>4, <2>3 DEF IsRange, Half, Searchable, Block
  <2>6. s = Joined(u, r.at, r.pages)
    BY <1>1, <1>2, <1>5, <1>7, <2>2, <2>5 DEF FreePiece
  <2>7. /\ Moment(s, held, UsedOf(u), u.stop) /\ Len(s.h.node) \in Nat
        /\ s.free # NULL => Len(s.h.node) = Len(u.node) - 1
    BY <2>4, <2>5, <2>6, JoinedMoment
  <2> QED
    BY <1>4, <1>5, <1>6, <2>4, <2>7
<1>8. CASE ~Empties(h, p)
  <2>1. g.major[a].minors # {}
    BY <1>1, <1>2, <1>8 DEF Empties
  <2>2. PICK u : u = RoomierBet(g, a)
    OBVIOUS
  <2>3. Half(u, held) /\ u.major = g.major /\ u.node = g.node /\ u.stop = g.stop /\ UsedOf(u) = UsedOf(g)
    BY <1>4, <2>2, RoomierIs
  <2>4. s = [h |-> u, free |-> NULL, lone |-> NULL]
    BY <1>1, <1>2, <1>5, <1>8, <2>2 DEF FreePiece
  <2>5. Sound(u, held)
    <3>1. AllFilled(u.major)
      BY <1>4, <2>1, <2>3 DEF AllFilled, FilledBut
    <3> QED
      BY <2>3, <3>1, SoundIs
  <2>6. Moment(s, held, UsedOf(h) \ {x}, h.stop)
    BY <1>4, <2>3, <2>4, <2>5 DEF Moment, Done
  <2> QED
    BY <1>4, <1>5, <1>6, <2>3, <2>4, <2>6
<1> QED
  BY <1>7, <1>8

LEMMA NextMoment ==
  ASSUME NEW r, NEW held, NEW U, NEW stop, Moment(r, held, U, stop)
  PROVE  LET s == FreeNext(r)
         IN /\ Moment(s, held, U, stop)
            /\ Len(s.h.node) \in Nat /\ Len(r.h.node) \in Nat
            /\ s.free # NULL => r.free # NULL /\ Len(s.h.node) = Len(r.h.node) - 1
<1>1. CASE r.free = NULL
  <2>1. NodesOk(r.h.node)
    BY DEF Moment, Done, Freeing, Left, Sound
  <2>2. Len(r.h.node) \in Nat
    BY <2>1, LenProperties DEF NodesOk
  <2> QED
    BY <1>1, <2>2 DEF FreeNext
<1>2. CASE r.free # NULL
  <2>1. Sound(r.h, held) /\ r.h.stop = stop
    BY <1>2 DEF Moment, Done, Freeing, Left
  <2>2. PICK x \in UsedOf(r.h) : x.at = r.free /\ UsedOf(r.h) \ {x} = U
    BY <1>2 DEF Moment, Done, Freeing, Left
  <2>3. PICK s : s = FreePiece(r.h, r.free)
    OBVIOUS
  <2>4. /\ Moment(s, held, UsedOf(r.h) \ {x}, r.h.stop)
        /\ Len(s.h.node) \in Nat /\ Len(r.h.node) \in Nat
        /\ s.free # NULL => Len(s.h.node) = Len(r.h.node) - 1
    BY <2>1, <2>2, <2>3, FreePieceMoment
  <2>5. FreeNext(r) = s
    BY <1>2, <2>3 DEF FreeNext
  <2> QED
    BY <1>2, <2>1, <2>2, <2>4, <2>5
<1> QED
  BY <1>1, <1>2

(* The loop is run for as many turns as are asked for.                     *)
FreeRun(r, m, A) == A = [k \in 0 .. m |-> IF k = 0 THEN r ELSE FreeNext(A[k - 1])]

LEMMA FreeRunIs ==
  ASSUME NEW r, NEW m \in Nat, NEW A, FreeRun(r, m, A)
  PROVE  A[0] = r /\ \A k \in 1 .. m : A[k] = FreeNext(A[k - 1])
<1>1. A = [k \in 0 .. m |-> IF k = 0 THEN r ELSE FreeNext(A[k - 1])]
  BY DEF FreeRun
<1> QED
  BY <1>1

LEMMA FreeRunThere ==
  ASSUME NEW r, NEW m \in Nat
  PROVE  \E A : FreeRun(r, m, A)
<1> DEFINE N == {n \in Nat : \E A : FreeRun(r, n, A)}
<1>1. 0 \in N
  <2> DEFINE A == [k \in 0 .. 0 |-> r]
  <2>1. A = [k \in 0 .. 0 |-> IF k = 0 THEN r ELSE FreeNext(A[k - 1])]
    OBVIOUS
  <2>2. FreeRun(r, 0, A)
    BY <2>1 DEF FreeRun
  <2> QED
    BY <2>2
<1>2. ASSUME NEW n \in Nat, n \in N PROVE n + 1 \in N
  <2>1. PICK A : FreeRun(r, n, A)
    BY <1>2
  <2> DEFINE B == [k \in 0 .. n + 1 |-> IF k = n + 1 THEN FreeNext(A[n]) ELSE A[k]]
  <2>2. ASSUME NEW k \in 0 .. n + 1
        PROVE  B[k] = IF k = 0 THEN r ELSE FreeNext(B[k - 1])
    <3>1. A[0] = r /\ \A j \in 1 .. n : A[j] = FreeNext(A[j - 1])
      BY <2>1, FreeRunIs
    <3>2. CASE k = 0
      BY <3>1, <3>2
    <3>3. CASE k = n + 1
      <4>1. k # 0 /\ k - 1 = n /\ n \in 0 .. n + 1 /\ n # n + 1
        BY <3>3
      <4> QED
        BY <3>3, <4>1
    <3>4. CASE k \in 1 .. n
      <4>1. k - 1 \in 0 .. n + 1 /\ k - 1 # n + 1 /\ k # n + 1 /\ k # 0
        BY <3>4
      <4> QED
        BY <3>1, <3>4, <4>1
    <3> QED
      BY <3>2, <3>3, <3>4
  <2>3. B = [k \in 0 .. n + 1 |-> IF k = 0 THEN r ELSE FreeNext(B[k - 1])]
    <3>1. B = [k \in 0 .. n + 1 |-> B[k]]
      OBVIOUS
    <3> HIDE DEF B
    <3> QED
      BY <2>2, <3>1
  <2>4. FreeRun(r, n + 1, B)
    <3> HIDE DEF B
    <3> QED
      BY <2>3 DEF FreeRun
  <2> QED
    BY <2>4
<1> QED
  <2> HIDE DEF N
  <2>1. m \in N
    BY <1>1, <1>2, SetInduction
  <2> QED
    BY <2>1 DEF N

LEMMA FreeAllIs ==
  ASSUME NEW r, Len(r.h.node) \in Nat
  PROVE  \E A : FreeRun(r, Len(r.h.node) + 1, A) /\ FreeAll(r) = A[Len(r.h.node) + 1]
<1> DEFINE turn == CHOOSE A : FreeRun(r, Len(r.h.node) + 1, A)
<1>0. Len(r.h.node) + 1 \in Nat
  OBVIOUS
<1>1. FreeRun(r, Len(r.h.node) + 1, turn)
  <2> HIDE DEF FreeRun
  <2> QED
    BY <1>0, FreeRunThere
<1>2. FreeAll(r) = turn[Len(r.h.node) + 1]
  BY DEF FreeAll, FreeRun
<1> QED
  BY <1>1, <1>2

FreesOn(r, n, l, held, U, stop) ==
  /\ Moment(r, held, U, stop) /\ Len(r.h.node) \in Nat
  /\ r.free # NULL => Len(r.h.node) + n = l

(* In the end no piece is left to be freed.                                *)
LEMMA AllFreed ==
  ASSUME NEW r, NEW held, NEW U, NEW stop, Moment(r, held, U, stop)
  PROVE  Moment(FreeAll(r), held, U, stop) /\ FreeAll(r).free = NULL
<1>1. PICK l : l = Len(r.h.node)
  OBVIOUS
<1>2. l \in Nat
  BY <1>1, NextMoment
<1>3. PICK A : FreeRun(r, l + 1, A) /\ FreeAll(r) = A[l + 1]
  BY <1>1, <1>2, FreeAllIs
<1>4. A[0] = r /\ \A k \in 1 .. l + 1 : A[k] = FreeNext(A[k - 1])
  BY <1>2, <1>3, FreeRunIs
<1> DEFINE N == {n \in Nat : n <= l + 1 => FreesOn(A[n], n, l, held, U, stop)}
<1>5. 0 \in N
  <2>1. FreesOn(A[0], 0, l, held, U, stop)
    BY <1>1, <1>2, <1>4 DEF FreesOn
  <2> QED
    BY <2>1
<1>6. ASSUME NEW n \in Nat, n \in N PROVE n + 1 \in N
  <2> SUFFICES ASSUME n + 1 <= l + 1 PROVE FreesOn(A[n + 1], n + 1, l, held, U, stop)
    OBVIOUS
  <2>1. n <= l + 1 /\ n + 1 \in 1 .. l + 1 /\ (n + 1) - 1 = n
    BY <1>2
  <2>2. A[n + 1] = FreeNext(A[n])
    BY <1>4, <2>1
  <2>3. FreesOn(A[n], n, l, held, U, stop)
    BY <1>6, <2>1
  <2>4. Moment(A[n], held, U, stop)
    BY <2>3 DEF FreesOn
  <2>5. /\ Moment(A[n + 1], held, U, stop)
        /\ Len(A[n + 1].h.node) \in Nat /\ Len(A[n].h.node) \in Nat
        /\ A[n + 1].free # NULL => A[n].free # NULL /\ Len(A[n + 1].h.node) = Len(A[n].h.node) - 1
    BY <2>2, <2>4, NextMoment
  <2>6. ASSUME A[n + 1].free # NULL PROVE Len(A[n + 1].h.node) + (n + 1) = l
    <3>1. Len(A[n].h.node) + n = l /\ Len(A[n + 1].h.node) = Len(A[n].h.node) - 1
      BY <2>3, <2>5, <2>6 DEF FreesOn
    <3>2. PICK c \in Nat : c = Len(A[n].h.node)
      BY <2>5
    <3>3. PICK d \in Nat : d = Len(A[n + 1].h.node)
      BY <2>5
    <3>4. c + n = l /\ d = c - 1
      BY <3>1, <3>2, <3>3
    <3>5. d + (n + 1) = l
      BY <1>2, <3>4
    <3> QED
      BY <3>3, <3>5
  <2> QED
    BY <2>5, <2>6 DEF FreesOn
<1>7. FreesOn(A[l + 1], l + 1, l, held, U, stop)
  <2> HIDE DEF N
  <2>1. l + 1 \in N
    BY <1>2, <1>5, <1>6, SetInduction
  <2>2. l + 1 \in Nat /\ l + 1 <= l + 1
    BY <1>2
  <2> QED
    BY <2>1, <2>2 DEF N
<1>8. A[l + 1].free = NULL
  <2> SUFFICES ASSUME A[l + 1].free # NULL PROVE FALSE
    OBVIOUS
  <2>1. Len(A[l + 1].h.node) \in Nat /\ Len(A[l + 1].h.node) + (l + 1) = l
    BY <1>7 DEF FreesOn
  <2>2. PICK c \in Nat : c = Len(A[l + 1].h.node)
    BY <2>1
  <2>3. c + (l + 1) = l
    BY <2>1, <2>2
  <2> QED
    BY <1>2, <2>3
<1> QED
  BY <1>3, <1>7, <1>8 DEF FreesOn

-----------------------------------------------------------------------------
(***************************************************************************)
(* allocate_new_page behind the last block.  The call for the pages may    *)
(* have freed that block, or put another behind it: then the heap is not   *)
(* followed any further.                                                   *)
(***************************************************************************)
LEMMA BetChanged ==
  ASSUME NEW h, NEW held, Half(h, held), NEW b \in DOMAIN h.major \cup {NULL}
  PROVE  LET g == [h EXCEPT !.bestBet = b]
         IN /\ Half(g, held) /\ g.major = h.major /\ g.node = h.node /\ g.stop = h.stop /\ g.root = h.root
            /\ UsedOf(g) = UsedOf(h) /\ (Sound(h, held) => Sound(g, held))
<1>1. PICK g : g = [h EXCEPT !.bestBet = b]
  OBVIOUS
<1>2. HeapRec(h)
  BY DEF Half
<1>3. HeapRec(g) /\ g.root = h.root /\ g.major = h.major /\ g.node = h.node /\ g.stop = h.stop /\ g.bestBet = b
  BY <1>1, <1>2 DEF HeapRec
<1>4. Searchable(g) /\ Celled(g) /\ Tiled(g, held) /\ NodesOk(g.node)
  BY <1>3 DEF Half, Searchable, Celled, Tiled
<1>5. UsedOf(g) = UsedOf(h)
  BY <1>3 DEF UsedOf
<1> QED
  BY <1>1, <1>3, <1>4, <1>5 DEF Half, Sound

(* A major for the pages R is put behind the block at a.                   *)
NewRange(p, pages) == [at |-> p, pages |-> pages]
LEMMA NewStart ==
  ASSUME NEW h, NEW held, NEW p, NEW pages, Tiled(h, held \cup {NewRange(p, pages)})
  PROVE  p \notin DOMAIN h.major
<1> SUFFICES ASSUME p \in DOMAIN h.major PROVE FALSE
  OBVIOUS
<1> DEFINE r == NewRange(p, pages)
           b == [at |-> p, pages |-> h.major[p].pages]
<1>1. b \in BlocksOf(h.major) /\ r \in held \cup {r} /\ r.at = b.at
  BY DEF BlocksOf, NewRange
<1>2. b = r
  <2> HIDE DEF r, b
  <2> QED
    BY <1>1, SameStart DEF Tiled, r
<1> QED
  <2> HIDE DEF r, b
  <2> QED
    BY <1>1, <1>2 DEF Tiled, r

Links(M, a, p, pages, N) ==
  /\ DOMAIN N = DOMAIN M \cup {p} /\ N[p] = [prev |-> a, next |-> NULL, pages |-> pages, minors |-> {}]
  /\ N[a] = [prev |-> M[a].prev, next |-> p, pages |-> M[a].pages, minors |-> M[a].minors]
  /\ \A b \in DOMAIN M \ {a} : N[b] = M[b]
  /\ N = [b \in DOMAIN N |-> N[b]]

LEMMA MajorLinked ==
  ASSUME NEW h, NEW held, NEW g, NEW a \in DOMAIN h.major, NEW p \in Nat, NEW size \in Nat \ {0},
         Sound(h, held \cup {NewRange(p, MajorPages(size))}), NewRange(p, MajorPages(size)) \notin held,
         h.major[a].next = NULL, SameBut(h, g), g.node = h.node, Links(h.major, a, p, MajorPages(size), g.major)
  PROVE  /\ Half(g, held) /\ FilledBut(g.major, p) /\ UsedOf(g) = UsedOf(h)
         /\ p \in DOMAIN g.major /\ p + MajorHeader \in Gaps(p, g.major[p], size)
         /\ ~(Room(g.major[p]) < size + MinorHeader) /\ Room(g.major[p]) \in Int
<1> DEFINE M == h.major
           N == g.major
           pages == MajorPages(size)
           r == NewRange(p, pages)
<1>1. HeapRec(g) /\ g.root = h.root /\ g.bestBet = h.bestBet /\ g.stop = h.stop /\ g.node = h.node
  BY DEF SameBut
<1>2. pages \in Nat /\ pages >= PageCount /\ pages > 0
  BY MajorPagesIs
<1>3. MajorsOk(M) /\ List(M, h.root) /\ h.bestBet \in DOMAIN M \cup {NULL} /\ \A b \in DOMAIN M : Block(b, M[b])
  BY DEF Sound, Searchable
<1>4. p \notin DOMAIN M
  BY NewStart DEF Sound
<1>5. /\ DOMAIN N = DOMAIN M \cup {p} /\ N[p] = [prev |-> a, next |-> NULL, pages |-> pages, minors |-> {}]
      /\ N[a] = [prev |-> M[a].prev, next |-> p, pages |-> M[a].pages, minors |-> M[a].minors]
      /\ \A b \in DOMAIN M \ {a} : N[b] = M[b]
      /\ N = [b \in DOMAIN N |-> N[b]]
  BY DEF Links
<1> HIDE DEF M, N, pages
<1>6. /\ N[p].prev = a /\ N[p].next = NULL /\ N[p].pages = pages /\ N[p].minors = {}
      /\ N[a].prev = M[a].prev /\ N[a].next = p
      /\ \A b \in DOMAIN M : N[b].pages = M[b].pages /\ N[b].minors = M[b].minors
      /\ \A b \in DOMAIN M \ {a} : N[b].prev = M[b].prev /\ N[b].next = M[b].next
  BY <1>5
<1>7. a \in DOMAIN M /\ a \in Nat /\ M[a] \in MajorType
  BY <1>3 DEF M, MajorsOk
<1>8. MajorsOk(N)
  <2>1. N[p] \in MajorType
    BY <1>2, <1>5, <1>7 DEF MajorType, Link
  <2>2. N[a] \in MajorType
    BY <1>5, <1>7 DEF MajorType, Link
  <2>3. \A b \in DOMAIN N : N[b] \in MajorType
    BY <1>3, <1>5, <2>1, <2>2 DEF MajorsOk
  <2>4. IsFiniteSet(DOMAIN N) /\ DOMAIN N \subseteq Nat
    BY <1>3, <1>5, FS_AddElement DEF MajorsOk
  <2> QED
    BY <1>5, <2>3, <2>4 DEF MajorsOk
<1>9. List(N, g.root)
  <2>1. M[a].next = NULL
    BY DEF M
  <2> QED
    BY <1>1, <1>3, <1>4, <1>5, <1>6, <1>7, <2>1, ListGrows
<1>10. /\ Block(p, N[p]) /\ p + MajorHeader \in Gaps(p, N[p], size) /\ ~(Room(N[p]) < size + MinorHeader)
  BY <1>6, FreshHasGap DEF pages
<1>11. \A b \in DOMAIN N : Block(b, N[b])
  BY <1>3, <1>5, <1>6, <1>10 DEF Block, SizeOf
<1>12. Searchable(g)
  BY <1>1, <1>3, <1>5, <1>8, <1>9, <1>11 DEF Searchable, N
<1>13. PiecesOf(N) = PiecesOf(M)
  <2>1. PiecesOf(M) \subseteq PiecesOf(N)
    BY <1>5, <1>6 DEF PiecesOf
  <2>2. PiecesOf(N) \subseteq PiecesOf(M)
    BY <1>5, <1>6 DEF PiecesOf
  <2> QED
    BY <2>1, <2>2
<1>14. BlocksOf(N) = BlocksOf(M) \cup {r}
  <2>1. r = [at |-> p, pages |-> N[p].pages]
    BY <1>6 DEF NewRange
  <2> HIDE DEF r
  <2>2. BlocksOf(N) \subseteq BlocksOf(M) \cup {r}
    BY <1>5, <1>6, <2>1 DEF BlocksOf
  <2>3. BlocksOf(M) \subseteq BlocksOf(N)
    BY <1>5, <1>6 DEF BlocksOf
  <2>4. r \in BlocksOf(N)
    BY <1>5, <2>1 DEF BlocksOf
  <2> QED
    BY <2>2, <2>3, <2>4
<1>15. Tiled(g, held)
  <2>1. /\ Tiles(BlocksOf(M) \cup FreeOf(h.node) \cup (held \cup {r}))
        /\ BlocksOf(M) \cap FreeOf(h.node) = {}
        /\ (BlocksOf(M) \cup FreeOf(h.node)) \cap (held \cup {r}) = {}
        /\ r \notin held
    BY DEF Sound, Tiled, M, pages
  <2> HIDE DEF r
  <2>2. BlocksOf(N) \cup FreeOf(g.node) \cup held = BlocksOf(M) \cup FreeOf(h.node) \cup (held \cup {r})
    BY <1>1, <1>14
  <2>3. BlocksOf(N) \cap FreeOf(g.node) = {} /\ (BlocksOf(N) \cup FreeOf(g.node)) \cap held = {}
    BY <1>1, <1>14, <2>1
  <2> QED
    BY <2>1, <2>2, <2>3 DEF Tiled, N
<1>16. Celled(g) /\ NodesOk(g.node) /\ UsedOf(g) = UsedOf(h)
  BY <1>1, <1>13 DEF Celled, Sound, UsedOf, M, N
<1>17. FilledBut(g.major, p)
  <2>1. \A b \in DOMAIN M : M[b].minors # {}
    BY DEF Sound, AllFilled, M
  <2> QED
    BY <1>5, <1>6, <2>1 DEF FilledBut, N
<1>18. Room(N[p]) \in Int
  BY <1>10, RoomIs
<1> QED
  BY <1>1, <1>5, <1>10, <1>12, <1>15, <1>16, <1>17, <1>18 DEF Half, N

(* allocate_new_page behind the last block.                                *)
Grows(h, got, held, size) ==
  \/ Gained(h, got, held, size) /\ got.h.node = h.node
  \/ got.p = NULL /\ got.h.stop \in {"back", "second"} /\ HeapRec(got.h)
Bigger(h, p, pages) ==
  [h EXCEPT !.major = [b \in DOMAIN h.major \cup {p} |-> IF b = p THEN NewMajor(pages) ELSE h.major[b]]]

LEMMA BehindIs ==
  ASSUME NEW h, NEW held, NEW got, NEW q, NEW short, NEW size \in Nat \ {0}, NEW p \in Nat,
         got = EmptyMajor([h |-> h, p |-> p], MajorPages(size)), h.stop = "no", q.bestSize \in Int,
         Sound(h, held \cup {NewRange(p, MajorPages(size))}), NewRange(p, MajorPages(size)) \notin held,
         q.at # p
  PROVE  Grows(h, Behind(got, q, short, size), held, size)
<1>1. PICK pages : pages = MajorPages(size)
  OBVIOUS
<1>2. PICK a : a = q.at
  OBVIOUS
<1>3. p # NULL /\ HeapRec(h)
  BY Constants DEF Sound
<1>4. PICK g : g = Bigger(h, p, pages)
  OBVIOUS
<1>5. got = [h |-> g, p |-> p]
  BY <1>1, <1>3, <1>4 DEF EmptyMajor, Bigger
<1>6. /\ HeapRec(g) /\ g.root = h.root /\ g.bestBet = h.bestBet /\ g.stop = "no" /\ g.node = h.node
      /\ g.major = [b \in DOMAIN h.major \cup {p} |-> IF b = p THEN NewMajor(pages) ELSE h.major[b]]
  BY <1>3, <1>4 DEF Bigger, HeapRec
<1>7. PICK l : l = Linked(g, a, p)
  OBVIOUS
<1>8. PICK b : b = Behind(got, q, short, size)
  OBVIOUS
<1>9. CASE a \notin DOMAIN g.major
  <2>1. l = [g EXCEPT !.stop = "back"]
    BY <1>6, <1>7, <1>9 DEF Linked, Stopped
  <2>2. l.stop = "back" /\ HeapRec(l)
    BY <1>6, <2>1 DEF HeapRec
  <2>3. b = [h |-> l, p |-> NULL]
    BY <1>2, <1>5, <1>7, <1>8, <2>2 DEF Behind
  <2> QED
    BY <1>8, <2>2, <2>3 DEF Grows
<1>10. CASE a \in DOMAIN g.major /\ g.major[a].next # NULL
  <2>1. l = [g EXCEPT !.stop = "second"]
    BY <1>6, <1>7, <1>10 DEF Linked, Stopped
  <2>2. l.stop = "second" /\ HeapRec(l)
    BY <1>6, <2>1 DEF HeapRec
  <2>3. b = [h |-> l, p |-> NULL]
    BY <1>2, <1>5, <1>7, <1>8, <2>2 DEF Behind
  <2> QED
    BY <1>8, <2>2, <2>3 DEF Grows
<1>11. CASE a \in DOMAIN g.major /\ g.major[a].next = NULL
  <2>1. a \in DOMAIN h.major /\ a # p /\ g.major[a] = h.major[a] /\ h.major[a].next = NULL
    BY <1>2, <1>6, <1>11
  <2>2. l = [g EXCEPT !.major[a].next = p]
    BY <1>7, <1>11 DEF Linked
  <2>3. PICK k : k = [l EXCEPT !.major[p].prev = a]
    OBVIOUS
  <2>4. SameBut(h, l) /\ l.node = h.node /\ l.stop = "no" /\ l.major = [g.major EXCEPT ![a].next = p]
    BY <1>6, <2>2 DEF HeapRec, SameBut
  <2>5. SameBut(h, k) /\ k.node = h.node /\ k.stop = "no" /\ k.major = [l.major EXCEPT ![p].prev = a]
    BY <2>3, <2>4 DEF HeapRec, SameBut
  <2>6. Links(h.major, a, p, pages, k.major)
    <3>1. h.major[a] \in MajorType
      BY <2>1 DEF Sound, Searchable, MajorsOk
    <3>2. PICK m : m = h.major[a]
      OBVIOUS
    <3>3. m = [prev |-> m.prev, next |-> m.next, pages |-> m.pages, minors |-> m.minors]
      BY <3>1, <3>2 DEF MajorType
    <3>4. g.major[a] = m /\ g.major[p] = [prev |-> NULL, next |-> NULL, pages |-> pages, minors |-> {}]
          /\ DOMAIN g.major = DOMAIN h.major \cup {p} /\ \A c \in DOMAIN h.major \ {p} : g.major[c] = h.major[c]
      BY <1>6, <2>1, <3>2 DEF NewMajor
    <3>5. /\ DOMAIN l.major = DOMAIN h.major \cup {p} /\ l.major[p] = g.major[p]
          /\ l.major[a] = [m EXCEPT !.next = p]
          /\ \A c \in DOMAIN h.major \ {p, a} : l.major[c] = h.major[c]
      BY <2>1, <2>4, <3>4
    <3>6. /\ DOMAIN k.major = DOMAIN h.major \cup {p} /\ k.major[p] = [l.major[p] EXCEPT !.prev = a]
          /\ k.major[a] = [m EXCEPT !.next = p]
          /\ \A c \in DOMAIN h.major \ {p, a} : k.major[c] = h.major[c]
          /\ k.major = [c \in DOMAIN k.major |-> k.major[c]]
      BY <2>1, <2>5, <3>5
    <3>7. [m EXCEPT !.next = p] = [prev |-> m.prev, next |-> p, pages |-> m.pages, minors |-> m.minors]
      BY <3>3
    <3>8. k.major[p] = [prev |-> a, next |-> NULL, pages |-> pages, minors |-> {}]
      <4>1. PICK n : n = [prev |-> NULL, next |-> NULL, pages |-> pages, minors |-> {}]
        OBVIOUS
      <4>2. l.major[p] = n
        BY <3>4, <3>5, <4>1
      <4>3. k.major[p] = [n EXCEPT !.prev = a]
        BY <3>6, <4>2
      <4> QED
        BY <4>1, <4>3
    <3>9. p \notin DOMAIN h.major
      BY NewStart DEF Sound
    <3> QED
      BY <3>2, <3>6, <3>7, <3>8, <3>9 DEF Links
  <2>7. /\ Half(k, held) /\ FilledBut(k.major, p) /\ UsedOf(k) = UsedOf(h)
        /\ p \in DOMAIN k.major /\ p + MajorHeader \in Gaps(p, k.major[p], size)
    BY <1>1, <2>1, <2>5, <2>6, MajorLinked
  <2>8. PICK v : v = [k EXCEPT !.bestBet = IF q.bestSize < Room(k.major[p]) THEN p ELSE @]
    OBVIOUS
  <2>9. /\ Half(v, held) /\ v.major = k.major /\ v.node = k.node /\ v.stop = k.stop /\ UsedOf(v) = UsedOf(k)
    <3>1. k.bestBet \in DOMAIN k.major \cup {NULL}
      BY <2>7 DEF Half, Searchable
    <3>2. PICK e \in DOMAIN k.major \cup {NULL} : e = IF q.bestSize < Room(k.major[p]) THEN p ELSE k.bestBet
      BY <2>7, <3>1
    <3>3. v = [k EXCEPT !.bestBet = e]
      BY <2>8, <3>2
    <3> QED
      BY <2>7, <3>3, BetChanged
  <2>10. PICK w : w = IF short THEN k ELSE v
    OBVIOUS
  <2>11. /\ Half(w, held) /\ FilledBut(w.major, p) /\ UsedOf(w) = UsedOf(h) /\ w.stop = "no"
         /\ p \in DOMAIN w.major /\ p + MajorHeader \in Gaps(p, w.major[p], size)
    BY <2>5, <2>7, <2>9, <2>10
  <2>12. b = Placed(w, p, p + MajorHeader, size)
    <3>1. got.h = g /\ got.p = p /\ l = Linked(got.h, q.at, got.p) /\ l.stop = "no" /\ p # NULL
      BY <1>2, <1>3, <1>5, <1>7, <2>4
    <3>2. k = [l EXCEPT !.major[got.p].prev = q.at]
      BY <1>2, <2>3, <3>1
    <3>3. v = [k EXCEPT !.bestBet = IF q.bestSize < Room(k.major[got.p]) THEN got.p ELSE @]
      BY <2>8, <3>1
    <3>4. w = IF short THEN k ELSE v
      BY <2>10
    <3>5. b = Placed(w, got.p, got.p + MajorHeader, size)
      BY <1>8, <3>1, <3>2, <3>3, <3>4 DEF Behind
    <3> QED
      BY <3>1, <3>5
  <2>13. Gained(w, b, held, size) /\ b.h.node = w.node
    <3>1. PICK at : at = p + MajorHeader
      OBVIOUS
    <3>2. at \in Gaps(p, w.major[p], size) /\ b = Placed(w, p, at, size)
      BY <2>11, <2>12, <3>1
    <3>3. Gained(w, Placed(w, p, at, size), held, size)
      BY <2>11, <3>2, PlacedIs
    <3>4. Placed(w, p, at, size).h.node = w.node
      BY <2>11 DEF Placed, Half, HeapRec
    <3> QED
      BY <3>2, <3>3, <3>4
  <2>14. Gained(h, b, held, size) /\ b.h.node = h.node
    BY <2>5, <2>9, <2>10, <2>11, <2>13 DEF Gained, Gains
  <2> QED
    BY <1>8, <2>14 DEF Grows
<1> QED
  BY <1>9, <1>10, <1>11

-----------------------------------------------------------------------------
(***************************************************************************)
(* kmalloc for a node and the kfree it comes to, from inside kfree or      *)
(* vmmFreePages.                                                           *)
(***************************************************************************)
(* No block has room for another node.                                     *)
Unfit(h) == \A a \in DOMAIN h.major : ~Fits(h, a, NodeSize)

LEMMA NotEmptied ==
  ASSUME NEW h, NEW held, Sound(h, held), Unfit(h), NEW x \in UsedOf(h), x.size = NodeSize
  PROVE  ~Empties(h, x.at)
<1>1. Half(h, held) /\ AllFilled(h.major) /\ Searchable(h)
  BY SoundIs DEF Half
<1>2. PICK a : a = BlockOf(h, x.at)
  OBVIOUS
<1>3. PICK g : g = Without(h, a, x.at)
  OBVIOUS
<1>4. PICK p : p = x.at
  OBVIOUS
<1>5. a \in DOMAIN h.major /\ x \in h.major[a].minors /\ g.major[a].minors = h.major[a].minors \ {x}
  BY <1>1, <1>2, <1>3, <1>4, WithoutIs
<1>6. Block(a, h.major[a])
  BY <1>1, <1>5 DEF Searchable
<1>7. ASSUME g.major[a].minors = {} PROVE FALSE
  <2>1. h.major[a].minors = {x}
    BY <1>5, <1>7
  <2>2. Gaps(a, h.major[a], NodeSize) # {}
    BY <1>6, <2>1, SingleHasGap
  <2>3. Gaps(a, h.major[a], NodeSize) = {}
    <3>1. PICK n \in Nat \ {0} : n = NodeSize
      BY Constants
    <3>2. Searchable(h) /\ a \in DOMAIN h.major /\ ~Fits(h, a, n)
      BY <1>1, <1>5, <3>1 DEF Unfit
    <3>3. Gaps(a, h.major[a], n) = {}
      BY ONLY <3>2, UnfitHasNoGap
    <3> QED
      BY <3>1, <3>3
  <2> QED
    BY <2>2, <2>3
<1> QED
  BY <1>2, <1>3, <1>7 DEF Empties

LEMMA KfreeInnerIs ==
  ASSUME NEW h, NEW held, Sound(h, held), Unfit(h), NEW x \in UsedOf(h), x.size = NodeSize, NEW p, p = x.at
  PROVE  LET g == KfreeInner(h, p)
         IN /\ Sound(g, held) /\ UsedOf(g) = UsedOf(h) \ {x} /\ g.node = h.node /\ g.stop = h.stop
            /\ DOMAIN g.major = DOMAIN h.major
<1>1. Half(h, held) /\ AllFilled(h.major)
  BY SoundIs
<1>2. ~Empties(h, p)
  BY NotEmptied
<1>3. PICK a : a = BlockOf(h, p)
  OBVIOUS
<1>4. PICK w : w = Without(h, a, p)
  OBVIOUS
<1>5. /\ a \in DOMAIN h.major /\ Half(w, held) /\ FilledBut(w.major, a) /\ DOMAIN w.major = DOMAIN h.major
      /\ UsedOf(w) = UsedOf(h) \ {x} /\ w.node = h.node /\ w.stop = h.stop
  BY <1>1, <1>3, <1>4, WithoutIs
<1>6. w.major[a].minors # {}
  BY <1>2, <1>3, <1>4 DEF Empties
<1>7. PICK g : g = RoomierBet(w, a)
  OBVIOUS
<1>8. Half(g, held) /\ g.major = w.major /\ g.node = w.node /\ g.stop = w.stop /\ UsedOf(g) = UsedOf(w)
  BY <1>5, <1>7, RoomierIs
<1>9. AllFilled(g.major)
  BY <1>5, <1>6, <1>8 DEF AllFilled, FilledBut
<1>10. KfreeInner(h, p) = g
  BY <1>2, <1>3, <1>4, <1>7 DEF KfreeInner
<1> QED
  BY <1>5, <1>8, <1>9, <1>10, SoundIs

(* Pages are taken: the heap is as sound as it was, and the unused node of *)
(* a range that is used up is the only piece that comes into use.          *)
TookSound(h, held, n, t) ==
  LET r == [at |-> t.p, pages |-> n]
  IN /\ t = [h |-> t.h, p |-> t.p, unused |-> t.unused] /\ t.p \in Nat /\ r \notin held
     /\ Sound(t.h, held \cup {r}) /\ t.h.stop = h.stop /\ t.h.major = h.major
     /\ t.h.root = h.root /\ t.h.bestBet = h.bestBet
     /\ \A l \in held : LoneIn(h.node, l) => LoneIn(t.h.node, l)
     /\ IF t.unused = NULL THEN UsedOf(t.h) = UsedOf(h)
        ELSE \E x \in UsedOf(t.h) : x.at = t.unused /\ x.size = NodeSize /\ UsedOf(h) = UsedOf(t.h) \ {x}
LEMMA SoundTaken ==
  ASSUME NEW h, NEW held, NEW n \in Nat \ {0}, Sound(h, held), Fitting(h, n) # {}
  PROVE  TookSound(h, held, n, TakePages(h, n))
<1>1. PICK t : t = TakePages(h, n)
  OBVIOUS
<1>2. HeapRec(h) /\ NodesOk(h.node) /\ Tiled(h, held) /\ Searchable(h) /\ AllFilled(h.major) /\ Celled(h)
  BY DEF Sound
<1>3. Took(h, held, n, t)
  BY <1>1, <1>2, PagesTaken
<1>4. PICK r : r = [at |-> t.p, pages |-> n]
  OBVIOUS
<1>5. /\ t = [h |-> t.h, p |-> t.p, unused |-> t.unused]
      /\ SameBut(h, t.h) /\ t.h.major = h.major /\ t.p \in Nat /\ r \notin held
      /\ NodesOk(t.h.node) /\ Tiled(t.h, held \cup {r})
      /\ \A l \in held : LoneIn(h.node, l) => LoneIn(t.h.node, l)
      /\ CellsOf(t.h.node) \subseteq CellsOf(h.node)
      /\ IF t.unused = NULL THEN CellsOf(t.h.node) = CellsOf(h.node)
         ELSE t.unused \in CellsOf(h.node) /\ CellsOf(t.h.node) = CellsOf(h.node) \ {t.unused}
  BY <1>3, <1>4 DEF Took
<1>6. Searchable(t.h)
  BY <1>2, <1>5 DEF SameBut, Searchable
<1>7. Celled(t.h)
  BY <1>2, <1>5 DEF Celled
<1>8. Sound(t.h, held \cup {r}) /\ t.h.stop = h.stop
  BY <1>2, <1>5, <1>6, <1>7 DEF Sound, SameBut
<1>9. CASE t.unused = NULL
  <2>1. UsedOf(t.h) = UsedOf(h)
    BY <1>5, <1>9 DEF UsedOf
  <2> QED
    BY <1>1, <1>4, <1>5, <1>8, <1>9, <2>1 DEF TookSound, SameBut
<1>10. CASE t.unused # NULL
  <2>1. PICK x \in UsedOf(t.h) : x.at = t.unused /\ x.size = NodeSize /\ UsedOf(h) = UsedOf(t.h) \ {x}
    BY <1>5, <1>10, CellGone
  <2> QED
    BY <1>1, <1>4, <1>5, <1>8, <1>10, <2>1 DEF TookSound, SameBut
<1> QED
  BY <1>9, <1>10

LEMMA WithMajorInnerIs ==
  ASSUME NEW h, NEW held, Sound(h, held), Unfit(h), h.stop = "no"
  PROVE  \/ WithMajorInner(h) = [p |-> NULL, h |-> h] /\ Fitting(h, MajorPages(NodeSize)) = {}
         \/ \E g, p : /\ Fitting(h, MajorPages(NodeSize)) # {} /\ WithMajorInner(h) = EmptyMajor([h |-> g, p |-> p], MajorPages(NodeSize))
                      /\ p \in Nat /\ g.stop = "no" /\ UsedOf(g) = UsedOf(h)
                      /\ Sound(g, held \cup {NewRange(p, MajorPages(NodeSize))})
                      /\ NewRange(p, MajorPages(NodeSize)) \notin held /\ p \notin DOMAIN h.major
                      /\ \A l \in held : LoneIn(h.node, l) => LoneIn(g.node, l)
<1>1. PICK n : n = MajorPages(NodeSize)
  OBVIOUS
<1>2. n \in Nat \ {0}
  BY <1>1, MajorPagesIs, Constants
<1>3. PICK t : t = TakePages(h, n)
  OBVIOUS
<1>4. CASE Fitting(h, n) = {}
  <2>1. t = [h |-> h, p |-> NULL, unused |-> NULL]
    BY <1>3, <1>4, NoPages
  <2>2. WithMajorInner(h) = [p |-> NULL, h |-> h]
    BY <1>1, <1>3, <2>1 DEF WithMajorInner, EmptyMajor
  <2> QED
    BY <1>1, <1>4, <2>2
<1>5. CASE Fitting(h, n) # {}
  <2>1. TookSound(h, held, n, t)
    BY <1>2, <1>3, <1>5, SoundTaken
  <2>2. PICK p : p = t.p
    OBVIOUS
  <2>3. /\ p \in Nat /\ NewRange(p, n) \notin held /\ Sound(t.h, held \cup {NewRange(p, n)})
        /\ t.h.stop = h.stop /\ t.h.major = h.major
        /\ \A l \in held : LoneIn(h.node, l) => LoneIn(t.h.node, l)
    BY <2>1, <2>2 DEF TookSound, NewRange
  <2>4. p \notin DOMAIN h.major
    BY <2>3, NewStart DEF Sound
  <2>5. CASE t.unused = NULL
    <3>1. WithMajorInner(h) = EmptyMajor([h |-> t.h, p |-> p], n)
      <4>1. PICK g : g = t.h
        OBVIOUS
      <4>2. [p |-> p, h |-> g] = [h |-> g, p |-> p]
        OBVIOUS
      <4> QED
        BY <1>1, <1>3, <2>2, <2>5, <4>1, <4>2 DEF WithMajorInner
    <3>2. UsedOf(t.h) = UsedOf(h)
      BY <2>1, <2>5 DEF TookSound
    <3> QED
      BY <1>1, <1>5, <2>3, <2>4, <3>1, <3>2
  <2>6. CASE t.unused # NULL
    <3>1. PICK x \in UsedOf(t.h) : x.at = t.unused /\ x.size = NodeSize /\ UsedOf(h) = UsedOf(t.h) \ {x}
      BY <2>1, <2>6 DEF TookSound
    <3>2. Unfit(t.h)
      BY <2>3 DEF Unfit, Fits, Short
    <3>3. PICK c : c = t.unused
      OBVIOUS
    <3>4. PICK g : g = KfreeInner(t.h, c)
      OBVIOUS
    <3>5. /\ Sound(g, held \cup {NewRange(p, n)}) /\ UsedOf(g) = UsedOf(t.h) \ {x}
          /\ g.node = t.h.node /\ g.stop = t.h.stop
      BY <2>3, <3>1, <3>2, <3>3, <3>4, KfreeInnerIs
    <3>6. WithMajorInner(h) = EmptyMajor([h |-> g, p |-> p], n)
      <4>2. [p |-> p, h |-> g] = [h |-> g, p |-> p]
        OBVIOUS
      <4> QED
        BY <1>1, <1>3, <2>2, <2>6, <3>3, <3>4, <4>2 DEF WithMajorInner
    <3>7. \A l \in held : LoneIn(h.node, l) => LoneIn(g.node, l)
      BY <2>3, <3>5
    <3> QED
      BY <1>1, <1>5, <2>3, <2>4, <3>1, <3>5, <3>6, <3>7
  <2> QED
    BY <2>5, <2>6
<1> QED
  BY <1>4, <1>5

-----------------------------------------------------------------------------
(***************************************************************************)
(* The loop has ended: a gap is taken or a new block is got.               *)
(***************************************************************************)
(* A sound heap that has no blocks has no free ranges either.              *)
LEMMA NoBlocks ==
  ASSUME NEW h, NEW held, Sound(h, held), h.root = NULL
  PROVE  DOMAIN h.major = {} /\ \A n : Fitting(h, n) = {}
<1>1. DOMAIN h.major = {}
  BY ListRoot DEF Sound, Searchable
<1>2. PiecesOf(h.major) = {}
  BY <1>1 DEF PiecesOf
<1>3. CellsOf(h.node) = {}
  BY <1>2 DEF Sound, Celled
<1>4. DOMAIN h.node = {}
  BY <1>3 DEF CellsOf
<1> QED
  BY <1>1, <1>4 DEF Fitting

LEMMA SearchedIs ==
  ASSUME NEW h, NEW held, Sound(h, held), h.root # NULL, NEW size, NEW q, q = Search(h, size)
  PROVE  /\ Sound(Searched(h, q), held) /\ UsedOf(Searched(h, q)) = UsedOf(h)
         /\ Searched(h, q).major = h.major /\ Searched(h, q).node = h.node
         /\ Searched(h, q).stop = h.stop /\ Searched(h, q).root = h.root
         /\ q.at \in DOMAIN h.major /\ q.bestSize \in Int
         /\ \/ Fits(h, q.at, size)
            \/ h.major[q.at].next = NULL /\ \A a \in DOMAIN h.major : ~Fits(h, a, size)
<1>1. Half(h, held) /\ Searchable(h)
  BY SoundIs DEF Half
<1>2. DOMAIN h.major # {}
  BY <1>1 DEF Searchable, List
<1>3. Found(h, size, q)
  BY <1>1, <1>2, SearchFinds
<1>4. PICK b : b = q.bestBet
  OBVIOUS
<1>5. b \in DOMAIN h.major \cup {NULL} /\ q.at \in DOMAIN h.major /\ q.bestSize \in Int
  BY <1>3, <1>4 DEF Found, QOk
<1>6. PICK g : g = Searched(h, q)
  OBVIOUS
<1>7. g = [h EXCEPT !.bestBet = b]
  BY <1>4, <1>6 DEF Searched
<1>8. /\ g.major = h.major /\ g.node = h.node /\ g.stop = h.stop /\ g.root = h.root
      /\ UsedOf(g) = UsedOf(h) /\ Sound(g, held)
  BY <1>1, <1>5, <1>7, BetChanged
<1> QED
  BY <1>3, <1>5, <1>6, <1>8 DEF Found

LEMMA TakenIs ==
  ASSUME NEW h, NEW held, Sound(h, held), h.root # NULL, NEW size \in Nat \ {0}, NEW q, q = Search(h, size),
         Fits(h, q.at, size)
  PROVE  Gained(h, Taken(h, q, size), held, size) /\ Taken(h, q, size).h.node = h.node
<1>1. PICK g : g = Searched(h, q)
  OBVIOUS
<1>2. PICK a : a = q.at
  OBVIOUS
<1>3. /\ Sound(g, held) /\ UsedOf(g) = UsedOf(h) /\ g.major = h.major /\ g.node = h.node
      /\ g.stop = h.stop /\ a \in DOMAIN g.major
  BY <1>1, <1>2, SearchedIs
<1>4. PICK at : at = Min(Gaps(a, g.major[a], size))
  OBVIOUS
<1>5. Half(g, held) /\ AllFilled(g.major) /\ Searchable(g)
  BY <1>3, SoundIs DEF Half
<1>6. Block(a, g.major[a]) /\ Gaps(a, g.major[a], size) # {} /\ size \in Nat
  BY <1>2, <1>3, <1>5 DEF Searchable, Fits
<1>7. at \in Gaps(a, g.major[a], size)
  BY <1>4, <1>6, FirstGap
<1>8. FilledBut(g.major, a)
  BY <1>5 DEF AllFilled, FilledBut
<1>9. Gained(g, Placed(g, a, at, size), held, size)
  BY <1>3, <1>5, <1>7, <1>8, PlacedIs
<1>10. Placed(g, a, at, size).h.node = g.node
  BY <1>5 DEF Placed, Half, HeapRec
<1>11. Taken(h, q, size) = Placed(g, a, at, size)
  BY <1>1, <1>2, <1>3, <1>4 DEF Taken
<1>12. Gained(h, Placed(g, a, at, size), held, size)
  BY <1>3, <1>9 DEF Gained, Gains
<1> QED
  BY <1>3, <1>10, <1>11, <1>12

LEMMA NoneBehind ==
  ASSUME NEW h, NEW held, Sound(h, held), NEW q, q.at \in DOMAIN h.major, h.major[q.at].next = NULL, NEW short, NEW size
  PROVE  Behind([p |-> NULL, h |-> h], q, short, size) = [h |-> h, p |-> NULL]
<1>1. PICK a : a = q.at
  OBVIOUS
<1>2. PICK m : m = h.major[a]
  OBVIOUS
<1>3. h.major \in [DOMAIN h.major -> MajorType] /\ a \in DOMAIN h.major /\ m.next = NULL /\ HeapRec(h)
  BY <1>1, <1>2 DEF Sound, Searchable, MajorsOk
<1>4. m = [prev |-> m.prev, next |-> m.next, pages |-> m.pages, minors |-> m.minors]
  BY <1>2, <1>3 DEF MajorType
<1>5. [m EXCEPT !.next = NULL] = m
  BY <1>3, <1>4
<1>6. [h.major EXCEPT ![a] = m] = h.major
  BY <1>2, <1>3
<1>7. PICK M : M = h.major
  OBVIOUS
<1>8. [M EXCEPT ![a].next = NULL] = M
  BY <1>2, <1>5, <1>6, <1>7
<1>9. [h EXCEPT !.major = M] = h
  BY <1>3, <1>7 DEF HeapRec
<1>10. [h EXCEPT !.major[a].next = NULL] = h
  BY <1>7, <1>8, <1>9
<1>11. Linked(h, a, NULL) = h
  BY <1>2, <1>3, <1>10 DEF Linked
<1> QED
  BY <1>1, <1>11 DEF Behind

(* kmalloc for a node, and for another call of the kernel.                 *)
LEMMA KmallocInnerIs ==
  ASSUME NEW h, NEW held, Sound(h, held), h.stop = "no"
  PROVE  LET got == KmallocInner(h) IN
         \/ /\ Gained(h, got, held, NodeSize)
            /\ \A l \in held : LoneIn(h.node, l) => LoneIn(got.h.node, l)
         \/ got.p = NULL /\ got.h.stop \in {"no", "back", "second"} /\ HeapRec(got.h)
<1>1. PICK q : q = Search(h, NodeSize)
  OBVIOUS
<1>2. PICK got : got = KmallocInner(h)
  OBVIOUS
<1>3. NodeSize \in Nat \ {0} /\ HeapRec(h)
  BY Constants DEF Sound
<1>4. CASE h.root = NULL
  <2>1. DOMAIN h.major = {} /\ Fitting(h, MajorPages(NodeSize)) = {}
    BY <1>4, NoBlocks
  <2>2. Unfit(h)
    BY <2>1 DEF Unfit
  <2>3. WithMajorInner(h) = [p |-> NULL, h |-> h]
    BY <2>1, <2>2, WithMajorInnerIs
  <2>4. got = [p |-> NULL, h |-> h]
    BY <1>2, <1>4, <2>3 DEF KmallocInner, First
  <2> QED
    BY <1>2, <1>3, <2>4
<1>5. CASE h.root # NULL /\ Fits(h, q.at, NodeSize)
  <2>1. got = Taken(h, q, NodeSize)
    BY <1>1, <1>2, <1>5 DEF KmallocInner
  <2> QED
    BY <1>1, <1>2, <1>3, <1>5, <2>1, TakenIs
<1>6. CASE h.root # NULL /\ ~Fits(h, q.at, NodeSize)
  <2>1. PICK g : g = Searched(h, q)
    OBVIOUS
  <2>2. /\ Sound(g, held) /\ UsedOf(g) = UsedOf(h) /\ g.major = h.major /\ g.node = h.node /\ g.stop = h.stop
        /\ q.at \in DOMAIN g.major /\ q.bestSize \in Int /\ g.major[q.at].next = NULL
        /\ \A a \in DOMAIN h.major : ~Fits(h, a, NodeSize)
    BY <1>1, <1>6, <2>1, SearchedIs
  <2>3. Unfit(g)
    BY <2>2 DEF Unfit, Fits, Short
  <2>4. PICK w : w = WithMajorInner(g)
    OBVIOUS
  <2>5. PICK short : short = Short(h, q.at, NodeSize)
    OBVIOUS
  <2>6. got = Behind(w, q, short, NodeSize)
    BY <1>1, <1>2, <1>6, <2>1, <2>4, <2>5 DEF KmallocInner
  <2>7. CASE w = [p |-> NULL, h |-> g]
    <3>1. got = [h |-> g, p |-> NULL]
      BY <2>2, <2>6, <2>7, NoneBehind
    <3> QED
      BY <1>2, <2>2, <3>1 DEF Sound
  <2>8. CASE \E k, p : /\ w = EmptyMajor([h |-> k, p |-> p], MajorPages(NodeSize))
                       /\ p \in Nat /\ k.stop = "no" /\ UsedOf(k) = UsedOf(g)
                       /\ Sound(k, held \cup {NewRange(p, MajorPages(NodeSize))})
                       /\ NewRange(p, MajorPages(NodeSize)) \notin held /\ p \notin DOMAIN g.major
                       /\ \A l \in held : LoneIn(g.node, l) => LoneIn(k.node, l)
    <3>1. PICK k, p : /\ w = EmptyMajor([h |-> k, p |-> p], MajorPages(NodeSize))
                      /\ p \in Nat /\ k.stop = "no" /\ UsedOf(k) = UsedOf(g)
                      /\ Sound(k, held \cup {NewRange(p, MajorPages(NodeSize))})
                      /\ NewRange(p, MajorPages(NodeSize)) \notin held /\ p \notin DOMAIN g.major
                      /\ \A l \in held : LoneIn(g.node, l) => LoneIn(k.node, l)
      BY <2>8
    <3>2. q.at # p
      BY <2>2, <3>1
    <3>3. Grows(k, got, held, NodeSize)
      BY <1>3, <2>2, <2>6, <3>1, <3>2, BehindIs
    <3>4. CASE Gained(k, got, held, NodeSize) /\ got.h.node = k.node
      <4>1. Gained(h, got, held, NodeSize)
        BY <2>2, <3>1, <3>4 DEF Gained, Gains
      <4>2. \A l \in held : LoneIn(h.node, l) => LoneIn(got.h.node, l)
        BY <2>2, <3>1, <3>4
      <4> QED
        BY <1>2, <4>1, <4>2
    <3> QED
      BY <1>2, <3>3, <3>4 DEF Grows
  <2> QED
    BY <2>2, <2>3, <2>4, <2>7, <2>8, WithMajorInnerIs
<1> QED
  BY <1>4, <1>5, <1>6

-----------------------------------------------------------------------------
(***************************************************************************)
(* A range gets its node, and kfree, vmmFreePages and vmmAllocPages are    *)
(* done.                                                                   *)
(***************************************************************************)
(* A range gets its node.                                                  *)
LEMMA NodeSettled ==
  ASSUME NEW h, NEW held, NEW r, Sound(h, held \cup {r}), r \notin held, IsRange(r), LoneIn(h.node, r),
         NEW p \in Nat, [at |-> p, size |-> NodeSize] \in PiecesOf(h.major), p \notin CellsOf(h.node),
         NEW g, SameBut(h, g), g.major = h.major,
         g.node = Append(h.node, [at |-> r.at, pages |-> r.pages, cell |-> p])
  PROVE  Sound(g, held) /\ UsedOf(g) = UsedOf(h) \ {[at |-> p, size |-> NodeSize]}
<1>1. HeapRec(h) /\ NodesOk(h.node) /\ Tiled(h, held \cup {r}) /\ Searchable(h) /\ AllFilled(h.major) /\ Celled(h)
  BY DEF Sound
<1>2. PICK n : n = [at |-> r.at, pages |-> r.pages, cell |-> p]
  OBVIOUS
<1>3. n \in NodeType /\ RangeOf(n) = r /\ n.cell = p
  BY <1>2 DEF IsRange, NodeType, RangeOf
<1>4. r \notin FreeOf(h.node) /\ r \notin BlocksOf(h.major) /\ RangeOk(r)
  BY <1>1 DEF Tiled, Tiles
<1>5. ~Touch(r, r)
  BY <1>4, TouchIs, RangeNumbers
<1>6. /\ NodesOk(g.node) /\ FreeOf(g.node) = FreeOf(h.node) \cup {r}
      /\ CellsOf(g.node) = CellsOf(h.node) \cup {p}
  BY <1>1, <1>2, <1>3, <1>4, <1>5, NodeAdded
<1>7. Tiled(g, held)
  <2>1. (BlocksOf(h.major) \cup FreeOf(h.node)) \cap (held \cup {r}) = {} /\ BlocksOf(h.major) \cap FreeOf(h.node) = {}
        /\ Tiles(BlocksOf(h.major) \cup FreeOf(h.node) \cup (held \cup {r}))
    BY <1>1 DEF Tiled
  <2>2. BlocksOf(g.major) \cup FreeOf(g.node) \cup held = BlocksOf(h.major) \cup FreeOf(h.node) \cup (held \cup {r})
    BY <1>6
  <2> QED
    BY <1>4, <1>6, <2>1, <2>2 DEF Tiled
<1>8. PICK x : x = [at |-> p, size |-> NodeSize]
  OBVIOUS
<1>9. x \in PiecesOf(h.major) /\ x.at = p /\ x.size = NodeSize
  BY <1>8
<1>10. Celled(g)
  BY <1>1, <1>6, <1>9 DEF Celled
<1>11. Searchable(g)
  BY <1>1 DEF SameBut, Searchable
<1>12. Sound(g, held)
  BY <1>1, <1>6, <1>7, <1>10, <1>11 DEF Sound, SameBut
<1>13. \A y \in PiecesOf(h.major) : y.at = p => y = x
  <2>1. TAKE y \in PiecesOf(h.major)
  <2>2. HAVE y.at = p
  <2>3. PICK a \in DOMAIN h.major : x \in h.major[a].minors
    BY <1>9 DEF PiecesOf
  <2>4. PICK b \in DOMAIN h.major : y \in h.major[b].minors
    BY DEF PiecesOf
  <2> QED
    BY <1>1, <1>9, <2>2, <2>3, <2>4, PieceOnce
<1>14. UsedOf(g) = UsedOf(h) \ {x}
  BY <1>6, <1>9, <1>13 DEF UsedOf
<1> QED
  BY <1>8, <1>12, <1>14

(* What a call of the kernel leaves: a heap that is followed no further, or*)
(* one that is sound and in which U is used.                               *)
Leaves(g, held, U) ==
  /\ HeapRec(g)
  /\ \/ g.stop = "no" /\ Sound(g, held) /\ UsedOf(g) = U
     \/ g.stop \in {"halted", "back", "second"}

LEMMA StoppedIs ==
  ASSUME NEW h, HeapRec(h), NEW how
  PROVE  HeapRec(Stopped(h, how)) /\ Stopped(h, how).stop = IF h.stop = "no" THEN how ELSE h.stop
BY DEF HeapRec, Stopped

LEMMA SettledIs ==
  ASSUME NEW r, NEW held, NEW U, Moment(r, held, U, "no"), r.free = NULL
  PROVE  Leaves(Settled(r), held, U)
<1>1. Done(r, held, U) \/ Left(r, held, U)
  BY DEF Moment, Freeing
<1>2. CASE Done(r, held, U)
  BY <1>2 DEF Done, Moment, Leaves, Settled, Sound
<1>3. CASE Left(r, held, U)
  <2>1. PICK l : l = r.lone
    OBVIOUS
  <2>2. PICK h : h = r.h
    OBVIOUS
  <2>3. /\ l # NULL /\ Sound(h, held \cup {l}) /\ UsedOf(h) = U /\ l \notin held
        /\ LoneIn(h.node, l) /\ IsRange(l) /\ h.stop = "no"
    BY <1>3, <2>1, <2>2 DEF Left, Moment
  <2>4. PICK got : got = KmallocInner(h)
    OBVIOUS
  <2>5. Settled(r) = WithNode(got, l)
    BY <2>1, <2>2, <2>3, <2>4 DEF Settled
  <2>6. CASE /\ Gained(h, got, held \cup {l}, NodeSize)
             /\ LoneIn(got.h.node, l)
    <3>1. PICK p : p = got.p
      OBVIOUS
    <3>2. PICK k : k = got.h
      OBVIOUS
    <3>3. /\ k.stop = "no" /\ p \in Nat /\ Sound(k, held \cup {l}) /\ LoneIn(k.node, l)
          /\ [at |-> p, size |-> NodeSize] \in PiecesOf(k.major) /\ p \notin CellsOf(k.node)
          /\ UsedOf(k) = UsedOf(h) \cup {[at |-> p, size |-> NodeSize]}
          /\ \A y \in UsedOf(h) : y.at # p
      BY <2>3, <2>6, <3>1, <3>2 DEF Gained, Gains
    <3>4. PICK n : n = [at |-> l.at, pages |-> l.pages, cell |-> p]
      OBVIOUS
    <3>5. PICK g : g = [k EXCEPT !.node = Append(k.node, n)]
      OBVIOUS
    <3>6. SameBut(k, g) /\ g.major = k.major /\ g.node = Append(k.node, n)
      BY <3>3, <3>5 DEF Sound, HeapRec, SameBut
    <3>7. Sound(g, held) /\ UsedOf(g) = UsedOf(k) \ {[at |-> p, size |-> NodeSize]}
      BY <2>3, <3>3, <3>4, <3>6, NodeSettled
    <3>8. UsedOf(g) = U
      <4>1. [at |-> p, size |-> NodeSize] \notin UsedOf(h)
        BY <3>3
      <4> QED
        BY <2>3, <3>3, <3>7, <4>1
    <3>9. WithNode(got, l) = g
      BY <3>1, <3>2, <3>3, <3>4, <3>5, Constants DEF WithNode
    <3> QED
      BY <2>5, <3>3, <3>6, <3>7, <3>8, <3>9 DEF Leaves, SameBut
  <2>7. CASE got.p = NULL /\ got.h.stop \in {"no", "back", "second"} /\ HeapRec(got.h)
    <3>1. WithNode(got, l) = Stopped(got.h, "halted")
      BY <2>7 DEF WithNode
    <3>2. PICK k : k = got.h
      OBVIOUS
    <3>3. HeapRec(Stopped(k, "halted")) /\ Stopped(k, "halted").stop \in {"halted", "back", "second"}
      BY <2>7, <3>2, StoppedIs
    <3> QED
      BY <2>5, <3>1, <3>2, <3>3 DEF Leaves
  <2>8. \/ /\ Gained(h, got, held \cup {l}, NodeSize)
           /\ \A s \in held \cup {l} : LoneIn(h.node, s) => LoneIn(got.h.node, s)
        \/ got.p = NULL /\ got.h.stop \in {"no", "back", "second"} /\ HeapRec(got.h)
    BY <2>3, <2>4, KmallocInnerIs
  <2> QED
    BY <2>3, <2>6, <2>7, <2>8
<1> QED
  BY <1>1, <1>2, <1>3

LEMMA UsedIsPiece ==
  ASSUME NEW h, NEW held, Sound(h, held), NEW x \in UsedOf(h)
  PROVE  x \in Piece /\ x.at \in Nat /\ x.at # NULL
<1>1. PICK a \in DOMAIN h.major : x \in h.major[a].minors
  BY DEF UsedOf, PiecesOf
<1>2. x \in Piece
  BY <1>1 DEF Sound, Searchable, Block, Row
<1> QED
  BY <1>2, Constants DEF Piece

LEMMA KfreeIs ==
  ASSUME NEW h, NEW held, Sound(h, held), h.stop = "no", NEW x \in UsedOf(h), NEW p, p = x.at
  PROVE  Leaves(Kfree(h, p), held, UsedOf(h) \ {x})
<1>1. PICK r : r = [h |-> h, free |-> p, lone |-> NULL]
  OBVIOUS
<1>2. Moment(r, held, UsedOf(h) \ {x}, "no")
  <2>1. r = [h |-> r.h, free |-> r.free, lone |-> r.lone] /\ r.h = h /\ r.free = p /\ r.lone = NULL
    BY <1>1
  <2>2. p # NULL
    BY UsedIsPiece
  <2> QED
    BY <2>1, <2>2 DEF Moment, Freeing
<1>3. Moment(FreeAll(r), held, UsedOf(h) \ {x}, "no") /\ FreeAll(r).free = NULL
  BY <1>2, AllFreed
<1> QED
  BY <1>1, <1>3, SettledIs DEF Kfree

LEMMA SupplyIs ==
  ASSUME NEW h, NEW held, NEW r, Sound(h, held \cup {r}), r \notin held, IsRange(r), h.stop = "no"
  PROVE  Leaves(Supply(h, r.at, r.pages), held, UsedOf(h))
<1>1. PICK j : j = Joined(h, r.at, r.pages)
  OBVIOUS
<1>2. Moment(j, held, UsedOf(h), "no")
  BY <1>1, JoinedMoment
<1>3. Moment(FreeAll(j), held, UsedOf(h), "no") /\ FreeAll(j).free = NULL
  BY <1>2, AllFreed
<1> QED
  BY <1>1, <1>3, SettledIs DEF Supply

(* Pages are taken by a call of the kernel.                                *)
LEMMA PagesAllocated ==
  ASSUME NEW h, NEW held, NEW n \in Nat \ {0}, Sound(h, held), h.stop = "no"
  PROVE  \/ AllocPages(h, n) = [p |-> NULL, h |-> h] /\ Fitting(h, n) = {}
         \/ \E g, p : /\ Fitting(h, n) # {} /\ AllocPages(h, n) = [h |-> g, p |-> p]
                      /\ p \in Nat /\ NewRange(p, n) \notin held /\ p \notin DOMAIN h.major
                      /\ Leaves(g, held \cup {NewRange(p, n)}, UsedOf(h))
<1>1. PICK t : t = TakePages(h, n)
  OBVIOUS
<1>2. CASE Fitting(h, n) = {}
  <2>1. t = [h |-> h, p |-> NULL, unused |-> NULL]
    BY <1>1, <1>2, NoPages
  <2>2. AllocPages(h, n) = [p |-> NULL, h |-> h]
    BY <1>1, <2>1 DEF AllocPages
  <2> QED
    BY <1>2, <2>2
<1>3. CASE Fitting(h, n) # {}
  <2>1. TookSound(h, held, n, t)
    BY <1>1, <1>3, SoundTaken
  <2>2. PICK p : p = t.p
    OBVIOUS
  <2>3. /\ p \in Nat /\ NewRange(p, n) \notin held /\ Sound(t.h, held \cup {NewRange(p, n)})
        /\ t.h.stop = "no" /\ t.h.major = h.major
    BY <2>1, <2>2 DEF TookSound, NewRange
  <2>4. p \notin DOMAIN h.major
    BY <2>3, NewStart DEF Sound
  <2>5. CASE t.unused = NULL
    <3>1. PICK g : g = t.h
      OBVIOUS
    <3>2. AllocPages(h, n) = [h |-> g, p |-> p]
      <4>1. AllocPages(h, n) = [p |-> p, h |-> g]
        BY <1>1, <2>2, <2>5, <3>1 DEF AllocPages
      <4> QED
        BY <4>1
    <3>3. Leaves(g, held \cup {NewRange(p, n)}, UsedOf(h))
      BY <2>1, <2>3, <2>5, <3>1 DEF TookSound, Leaves, Sound
    <3> QED
      BY <1>3, <2>3, <2>4, <3>2, <3>3
  <2>6. CASE t.unused # NULL
    <3>1. PICK x \in UsedOf(t.h) : x.at = t.unused /\ x.size = NodeSize /\ UsedOf(h) = UsedOf(t.h) \ {x}
      BY <2>1, <2>6 DEF TookSound
    <3>2. PICK c : c = t.unused
      OBVIOUS
    <3>3. PICK g : g = Kfree(t.h, c)
      OBVIOUS
    <3>4. Leaves(g, held \cup {NewRange(p, n)}, UsedOf(h))
      BY <2>3, <3>1, <3>2, <3>3, KfreeIs
    <3>5. AllocPages(h, n) = [h |-> g, p |-> p]
      <4>1. AllocPages(h, n) = [p |-> p, h |-> g]
        BY <1>1, <2>2, <2>6, <3>2, <3>3 DEF AllocPages
      <4> QED
        BY <4>1
    <3> QED
      BY <1>3, <2>3, <2>4, <3>4, <3>5
  <2> QED
    BY <2>5, <2>6
<1> QED
  BY <1>2, <1>3

-----------------------------------------------------------------------------
(***************************************************************************)
(* kmalloc, called from the rest of the kernel.                            *)
(***************************************************************************)
(* kmalloc, called from outside.                                           *)
LEMMA BrokenBehind ==
  ASSUME NEW k, HeapRec(k), k.stop \in {"halted", "back", "second"}, NEW p \in Nat, NEW pages, NEW q, NEW short, NEW size
  PROVE  LET b == Behind(EmptyMajor([h |-> k, p |-> p], pages), q, short, size)
         IN b.h.stop \in {"halted", "back", "second"} /\ HeapRec(b.h)
<1>1. PICK g : g = Bigger(k, p, pages)
  OBVIOUS
<1>2. EmptyMajor([h |-> k, p |-> p], pages) = [h |-> g, p |-> p]
  BY <1>1, Constants DEF EmptyMajor, Bigger
<1>3. HeapRec(g) /\ g.stop = k.stop
  BY <1>1 DEF Bigger, HeapRec
<1>4. PICK a : a = q.at
  OBVIOUS
<1>5. PICK l : l = Linked(g, a, p)
  OBVIOUS
<1>6. HeapRec(l) /\ l.stop = g.stop
  <2>1. CASE a \notin DOMAIN g.major
    BY <1>3, <1>5, <2>1, StoppedIs DEF Linked
  <2>2. CASE a \in DOMAIN g.major /\ g.major[a].next # NULL
    BY <1>3, <1>5, <2>2, StoppedIs DEF Linked
  <2>3. CASE a \in DOMAIN g.major /\ g.major[a].next = NULL
    <3>1. l = [g EXCEPT !.major[a].next = p]
      BY <1>5, <2>3 DEF Linked
    <3> QED
      BY <1>3, <3>1 DEF HeapRec
  <2> QED
    BY <2>1, <2>2, <2>3
<1>7. Behind([h |-> g, p |-> p], q, short, size) = [h |-> l, p |-> NULL]
  BY <1>3, <1>4, <1>5, <1>6 DEF Behind
<1> QED
  BY <1>2, <1>3, <1>6, <1>7

Refused(h, got, held, size) ==
  /\ got.p = NULL /\ got.h.stop = "no" /\ Sound(got.h, held) /\ UsedOf(got.h) = UsedOf(h)
  /\ Fitting(h, MajorPages(size)) = {} /\ \A a \in DOMAIN h.major : ~Fits(h, a, size)
LEMMA KmallocIs ==
  ASSUME NEW h, NEW held, Sound(h, held), h.stop = "no", NEW size \in Nat \ {0}
  PROVE  LET got == Kmalloc(h, size) IN
         \/ Gained(h, got, held, size)
         \/ Refused(h, got, held, size)
         \/ got.h.stop \in {"halted", "back", "second"} /\ HeapRec(got.h)
<1>1. PICK q : q = Search(h, size)
  OBVIOUS
<1>2. PICK got : got = Kmalloc(h, size)
  OBVIOUS
<1>3. PICK n : n = MajorPages(size)
  OBVIOUS
<1>4. n \in Nat \ {0}
  BY <1>3, MajorPagesIs
<1>5. CASE h.root = NULL
  <2>1. DOMAIN h.major = {} /\ Fitting(h, n) = {}
    BY <1>5, NoBlocks
  <2>2. AllocPages(h, n) = [p |-> NULL, h |-> h]
    BY <1>4, <2>1, PagesAllocated
  <2>3. WithMajor(h, size) = [p |-> NULL, h |-> h]
    BY <1>3, <2>2 DEF WithMajor, EmptyMajor
  <2>4. got = [p |-> NULL, h |-> h]
    BY <1>2, <1>5, <2>3 DEF Kmalloc, First
  <2>5. Refused(h, got, held, size)
    BY <1>3, <2>1, <2>4 DEF Refused
  <2> QED
    BY <1>2, <2>5
<1>6. CASE h.root # NULL /\ Fits(h, q.at, size)
  <2>1. got = Taken(h, q, size)
    BY <1>1, <1>2, <1>6 DEF Kmalloc
  <2> QED
    BY <1>1, <1>2, <1>6, <2>1, TakenIs
<1>7. CASE h.root # NULL /\ ~Fits(h, q.at, size)
  <2>1. PICK g : g = Searched(h, q)
    OBVIOUS
  <2>2. /\ Sound(g, held) /\ UsedOf(g) = UsedOf(h) /\ g.major = h.major /\ g.node = h.node /\ g.stop = "no"
        /\ q.at \in DOMAIN g.major /\ q.bestSize \in Int /\ g.major[q.at].next = NULL
        /\ \A a \in DOMAIN h.major : ~Fits(h, a, size)
    BY <1>1, <1>7, <2>1, SearchedIs
  <2>3. PICK w : w = WithMajor(g, size)
    OBVIOUS
  <2>4. w = EmptyMajor(AllocPages(g, n), n)
    BY <1>3, <2>3 DEF WithMajor
  <2>5. PICK short : short = Short(h, q.at, size)
    OBVIOUS
  <2>6. got = Behind(w, q, short, size)
    BY <1>1, <1>2, <1>7, <2>1, <2>3, <2>5 DEF Kmalloc
  <2>7. CASE AllocPages(g, n) = [p |-> NULL, h |-> g] /\ Fitting(g, n) = {}
    <3>1. w = [p |-> NULL, h |-> g]
      BY <2>4, <2>7 DEF EmptyMajor
    <3>2. got = [h |-> g, p |-> NULL]
      BY <2>2, <2>6, <3>1, NoneBehind
    <3>3. Fitting(h, n) = {}
      BY <2>2, <2>7 DEF Fitting
    <3>4. Refused(h, got, held, size)
      BY <1>3, <2>2, <3>2, <3>3 DEF Refused
    <3> QED
      BY <1>2, <3>4
  <2>8. CASE \E k, p : /\ AllocPages(g, n) = [h |-> k, p |-> p]
                       /\ p \in Nat /\ NewRange(p, n) \notin held /\ p \notin DOMAIN g.major
                       /\ Leaves(k, held \cup {NewRange(p, n)}, UsedOf(g))
    <3>1. PICK k, p : /\ AllocPages(g, n) = [h |-> k, p |-> p]
                      /\ p \in Nat /\ NewRange(p, n) \notin held /\ p \notin DOMAIN g.major
                      /\ Leaves(k, held \cup {NewRange(p, n)}, UsedOf(g))
      BY <2>8
    <3>2. w = EmptyMajor([h |-> k, p |-> p], n)
      BY <2>4, <3>1
    <3>3. CASE k.stop \in {"halted", "back", "second"}
      <4>1. HeapRec(k)
        BY <3>1 DEF Leaves
      <4> QED
        BY <1>2, <2>6, <3>1, <3>2, <3>3, <4>1, BrokenBehind
    <3>4. CASE k.stop = "no"
      <4>1. Sound(k, held \cup {NewRange(p, n)}) /\ UsedOf(k) = UsedOf(g)
        BY <3>1, <3>4 DEF Leaves
      <4>2. q.at # p
        BY <2>2, <3>1
      <4>3. Grows(k, got, held, size)
        BY <1>3, <2>2, <2>6, <3>1, <3>2, <3>4, <4>1, <4>2, BehindIs
      <4>4. CASE Gained(k, got, held, size)
        <5>1. Gained(h, got, held, size)
          BY <2>2, <3>4, <4>1, <4>4 DEF Gained, Gains
        <5> QED
          BY <1>2, <5>1, <1>7
      <4> QED
        BY <1>2, <4>3, <4>4 DEF Grows
    <3> QED
      BY <3>1, <3>3, <3>4 DEF Leaves
  <2> QED
    BY <1>4, <2>2, <2>7, <2>8, PagesAllocated
<1> QED
  BY <1>5, <1>6, <1>7

LEMMA FirstPages == MajorPages(NodeSize) = PageCount
<1> DEFINE w == NodeSize + MajorHeader + MinorHeader
<1> DEFINE d == (w + PageSize - 1) \div PageSize
<1>1. w \in Nat /\ w <= PageCount * PageSize /\ PageCount * PageSize \in Nat
  BY Constants
<1>2. d \in Nat /\ d * PageSize <= w + PageSize - 1
  BY <1>1, Constants, Z3
<1>3. d <= PageCount
  <2>1. ASSUME d > PageCount PROVE FALSE
    <3>1. d >= PageCount + 1 /\ PageCount + 1 \in Nat
      BY <1>2, <2>1, Constants
    <3>2. (PageCount + 1) * PageSize <= d * PageSize
      BY <1>2, <3>1, PageMul
    <3>3. (PageCount + 1) * PageSize = PageCount * PageSize + PageSize
      BY Constants
    <3>4. d * PageSize \in Nat
      BY <1>2, Constants
    <3> QED
      BY <1>1, <1>2, <3>2, <3>3, <3>4, Constants
  <2> QED
    BY <1>2, <2>1, Constants
<1>4. Max({PageCount, d}) = PageCount
  BY <1>2, <1>3, Constants DEF Max
<1> QED
  BY <1>4 DEF MajorPages

-----------------------------------------------------------------------------
(***************************************************************************)
(* vmmBootstrap: the first block, whose first piece becomes the cell of    *)
(* the node of all other pages.                                            *)
(***************************************************************************)
(* The heap of vmmBootstrap's first piece, before it is the node's cell.   *)
Fresh(h, n) ==
  /\ HeapRec(h) /\ h.root = 0 /\ h.bestBet = NULL /\ h.stop = "no" /\ h.major = [a \in {0} |-> NewMajor(n)]

LEMMA FreshSearchable ==
  ASSUME NEW h, NEW n, n = MajorPages(NodeSize), Fresh(h, n)
  PROVE  /\ Searchable(h) /\ DOMAIN h.major = {0} /\ FilledBut(h.major, 0) /\ BlocksOf(h.major) = {[at |-> 0, pages |-> n]}
         /\ Fits(h, 0, NodeSize) /\ Min(Gaps(0, h.major[0], NodeSize)) = MajorHeader
         /\ MajorHeader \in Gaps(0, h.major[0], NodeSize) /\ PiecesOf(h.major) = {}
<1>1. n \in Nat /\ n > 0 /\ NodeSize \in Nat \ {0}
  BY MajorPagesIs, Constants
<1>2. PICK M : M = h.major
  OBVIOUS
<1>3. PICK m : m = [prev |-> NULL, next |-> NULL, pages |-> n, minors |-> {}]
  OBVIOUS
<1>4. DOMAIN M = {0} /\ M[0] = m /\ M = [a \in {0} |-> m]
  BY <1>2, <1>3 DEF Fresh, NewMajor
<1>5. m \in MajorType /\ m.prev = NULL /\ m.next = NULL /\ m.pages = n /\ m.minors = {}
  BY <1>1, <1>3 DEF MajorType, Link
<1>6. MajorsOk(M)
  BY <1>4, <1>5, FS_Singleton DEF MajorsOk
<1>7. List(M, 0)
  <2>1. \A S \in SUBSET DOMAIN M : Reaches(M, 0, S) => S = DOMAIN M
    BY <1>4, Constants DEF Reaches
  <2>2. \A a \in DOMAIN M : LinkedAt(M, 0, a)
    BY <1>4, <1>5 DEF LinkedAt
  <2> QED
    BY <1>4, <1>5, <2>1, <2>2 DEF List
<1>8. /\ Block(0, m) /\ Gaps(0, m, NodeSize) = {0 + MajorHeader} /\ ~(Room(m) < NodeSize + MinorHeader)
      /\ Min(Gaps(0, m, NodeSize)) = 0 + MajorHeader
  BY <1>1, <1>5, FreshHasGap
<1>9. 0 + MajorHeader = MajorHeader
  BY Constants
<1>10. Searchable(h)
  BY <1>2, <1>4, <1>6, <1>7, <1>8 DEF Searchable, Fresh
<1>11. Fits(h, 0, NodeSize)
  BY <1>2, <1>4, <1>8 DEF Fits, Short
<1>12. BlocksOf(M) = {[at |-> 0, pages |-> n]} /\ PiecesOf(M) = {} /\ FilledBut(M, 0)
  BY <1>4, <1>5 DEF BlocksOf, PiecesOf, FilledBut
<1> QED
  BY <1>2, <1>4, <1>8, <1>9, <1>10, <1>11, <1>12

FirstNode(n, c) == [at |-> n * PageSize, pages |-> HeapPages - n, cell |-> c]
LEMMA FirstTaken ==
  ASSUME NEW n, n = MajorPages(NodeSize)
  PROVE  /\ AllocPages(Unused, n) = [p |-> 0, h |-> [Unused EXCEPT !.node = <<FirstNode(n, NULL)>>]]
         /\ n \in Nat /\ 0 < n /\ n < HeapPages
<1>1. n \in Nat /\ 0 < n /\ n < HeapPages /\ HeapPages \in Nat
  BY FirstPages, Constants
<1>2. PICK o : o = [at |-> 0, pages |-> HeapPages, cell |-> NULL]
  OBVIOUS
<1>3. Unused.node = <<o>> /\ o.at = 0 /\ o.pages = HeapPages
  BY <1>2 DEF Unused
<1>4. DOMAIN Unused.node = {1} /\ Unused.node[1] = o
  BY <1>3
<1>5. Fitting(Unused, n) = {1} /\ Exact(Unused, n) = {}
  BY <1>1, <1>3, <1>4 DEF Fitting, Exact
<1>6. BestNode(Unused, n) = 1
  <2>1. BestNode(Unused, n) = CHOOSE k \in {1} : \A j \in {1} :
         \/ Unused.node[k].pages < Unused.node[j].pages
         \/ Unused.node[k].pages = Unused.node[j].pages /\ k <= j
    BY <1>5 DEF BestNode
  <2>2. \E k \in {1} : \A j \in {1} :
         \/ Unused.node[k].pages < Unused.node[j].pages
         \/ Unused.node[k].pages = Unused.node[j].pages /\ k <= j
    OBVIOUS
  <2> QED
    BY <2>1, <2>2
<1>7. PICK t : t = TakePages(Unused, n)
  OBVIOUS
<1>8. PICK h : h = [Unused EXCEPT !.node[1].at = @ + n * PageSize, !.node[1].pages = @ - n]
  OBVIOUS
<1>9. t = [p |-> 0, unused |-> NULL, h |-> h]
  <2>1. Unused.node[1].pages # n /\ Unused.node[1].at = 0 /\ Fitting(Unused, n) # {}
    BY <1>1, <1>3, <1>4, <1>5
  <2> QED
    BY <1>6, <1>7, <1>8, <2>1 DEF TakePages
<1>10. h = [Unused EXCEPT !.node = <<FirstNode(n, NULL)>>]
  <2>1. PICK x : x = n * PageSize
    OBVIOUS
  <2>2. x \in Nat /\ 0 + x = x
    BY <1>1, <2>1, Constants
  <2>3. PICK s : s = <<o>>
    OBVIOUS
  <2>4. PICK u : u = [s EXCEPT ![1].at = @ + x]
    OBVIOUS
  <2>5. PICK v : v = [u EXCEPT ![1].pages = @ - n]
    OBVIOUS
  <2>6. s \in Seq({o}) /\ Len(s) = 1 /\ DOMAIN s = {1} /\ s[1] = o
    BY <2>3
  <2>7. DOMAIN u = {1} /\ u[1] = [o EXCEPT !.at = @ + x] /\ u = [k \in {1} |-> u[k]]
    BY <2>4, <2>6
  <2>8. u[1] = [at |-> x, pages |-> HeapPages, cell |-> NULL]
    BY <1>2, <2>2, <2>7
  <2>9. PICK y : y = [at |-> x, pages |-> HeapPages, cell |-> NULL]
    OBVIOUS
  <2>10. DOMAIN v = {1} /\ v[1] = [y EXCEPT !.pages = @ - n] /\ v = [k \in {1} |-> v[k]]
    BY <2>5, <2>7, <2>8, <2>9
  <2>11. v[1] = FirstNode(n, NULL)
    BY <2>1, <2>9, <2>10 DEF FirstNode
  <2>12. v = <<FirstNode(n, NULL)>>
    <3>1. PICK z : z = FirstNode(n, NULL)
      OBVIOUS
    <3>2. v = [k \in {1} |-> z]
      BY <2>10, <2>11, <3>1
    <3>3. <<z>> = [k \in {1} |-> z]
      OBVIOUS
    <3> QED
      BY <3>1, <3>2, <3>3
  <2>13. [Unused EXCEPT !.node[1].at = @ + x] = [Unused EXCEPT !.node = u]
    BY <1>3, <2>3, <2>4 DEF Unused
  <2>14. [[Unused EXCEPT !.node = u] EXCEPT !.node[1].pages = @ - n] = [Unused EXCEPT !.node = v]
    BY <2>5 DEF Unused
  <2>15. h = [[Unused EXCEPT !.node[1].at = @ + x] EXCEPT !.node[1].pages = @ - n]
    BY <1>8, <2>1
  <2> QED
    BY <2>12, <2>13, <2>14, <2>15
<1>11. AllocPages(Unused, n) = [p |-> 0, h |-> h]
  BY <1>7, <1>9 DEF AllocPages
<1> QED
  BY <1>1, <1>10, <1>11

Start(n) == [at |-> 0, pages |-> n]
Rest(n) == [at |-> n * PageSize, pages |-> HeapPages - n]
LEMMA FirstTiles ==
  ASSUME NEW n \in Nat, 0 < n, n < HeapPages
  PROVE  Tiles({Start(n), Rest(n)}) /\ Start(n) # Rest(n) /\ IsRange(Rest(n))
<1>1. PICK r : r = Start(HeapPages)
  OBVIOUS
<1>2. r.at = 0 /\ r.pages = HeapPages /\ r = [at |-> 0, pages |-> HeapPages]
  BY <1>1 DEF Start
<1>3. Aligned(0) /\ Page(0) = 0
  BY PageMul, Constants DEF Aligned, Page
<1>4. RangeOk(r) /\ FirstPage(r) = 0 /\ EndPage(r) = HeapPages
  BY <1>2, <1>3, Constants DEF RangeOk, FirstPage, EndPage
<1>5. Tiles({r})
  BY <1>4, Constants DEF Tiles, Covers
<1>6. PICK T : T = {r}
  OBVIOUS
<1>7. PICK p, q : p = [at |-> r.at, pages |-> n] /\ q = [at |-> r.at + n * PageSize, pages |-> r.pages - n]
  OBVIOUS
<1>8. Tiles((T \ {r}) \cup {p, q}) /\ p # q
  BY <1>2, <1>5, <1>6, <1>7, TilesSplit
<1>9. n * PageSize \in Nat /\ 0 + n * PageSize = n * PageSize
  BY PageMul, Constants
<1>10. p = Start(n) /\ q = Rest(n)
  BY <1>2, <1>7, <1>9 DEF Start, Rest
<1>11. (T \ {r}) \cup {p, q} = {p, q}
  BY <1>6
<1>12. IsRange(Rest(n))
  BY <1>9, Constants DEF IsRange, Rest
<1> QED
  BY <1>8, <1>10, <1>11, <1>12

LEMMA StartHalf ==
  ASSUME NEW h, NEW n, n = MajorPages(NodeSize), Fresh(h, n), h.node = <<>>
  PROVE  Half(h, {Rest(n)}) /\ Rest(n) \notin {} /\ UsedOf(h) = {}
<1>1. n \in Nat /\ 0 < n /\ n < HeapPages
  BY FirstTaken
<1>2. CellsOf(h.node) = {} /\ FreeOf(h.node) = {} /\ NodesOk(h.node)
  <2>1. h.node \in Seq(NodeType) /\ DOMAIN h.node = {}
    OBVIOUS
  <2> QED
    BY <2>1 DEF CellsOf, FreeOf, NodesOk
<1>3. Searchable(h) /\ BlocksOf(h.major) = {Start(n)} /\ PiecesOf(h.major) = {}
  BY FreshSearchable DEF Start
<1>4. Tiled(h, {Rest(n)})
  <2>1. BlocksOf(h.major) \cup FreeOf(h.node) \cup {Rest(n)} = {Start(n), Rest(n)}
    BY <1>2, <1>3
  <2> QED
    BY <1>1, <1>2, <1>3, <2>1, FirstTiles DEF Tiled
<1> QED
  BY <1>2, <1>3, <1>4 DEF Half, Fresh, Celled, UsedOf

LEMMA FirstRooted ==
  ASSUME NEW n, n = MajorPages(NodeSize)
  PROVE  LET s == Rooted(WithMajor(Unused, NodeSize))
         IN /\ Fresh(s, n) /\ s.node = <<FirstNode(n, NULL)>>
            /\ Kmalloc(Unused, NodeSize) = Taken(s, Search(s, NodeSize), NodeSize)
<1>1. PICK N : N = <<FirstNode(n, NULL)>>
  OBVIOUS
<1>2. PICK u : u = [Unused EXCEPT !.node = N]
  OBVIOUS
<1>3. AllocPages(Unused, n) = [p |-> 0, h |-> u]
  BY <1>1, <1>2, FirstTaken
<1>4. u.root = NULL /\ u.bestBet = NULL /\ u.major = <<>> /\ u.node = N /\ u.stop = "no" /\ HeapRec(u)
  BY <1>2 DEF Unused, HeapRec
<1>5. PICK e : e = Bigger(u, 0, n)
  OBVIOUS
<1>6. WithMajor(Unused, NodeSize) = [p |-> 0, h |-> e]
  BY <1>3, <1>5, Constants DEF WithMajor, EmptyMajor, Bigger
<1>7. /\ HeapRec(e) /\ e.bestBet = NULL /\ e.node = N /\ e.stop = "no"
      /\ e.major = [a \in {0} |-> NewMajor(n)]
  <2>1. DOMAIN u.major \cup {0} = {0}
    BY <1>4
  <2>2. e = [u EXCEPT !.major = [a \in {0} |-> IF a = 0 THEN NewMajor(n) ELSE u.major[a]]]
    BY <1>5, <2>1 DEF Bigger
  <2>3. e.major = [a \in {0} |-> IF a = 0 THEN NewMajor(n) ELSE u.major[a]]
    BY <1>4, <2>2 DEF HeapRec
  <2> QED
    BY <1>4, <2>2, <2>3 DEF HeapRec
<1>8. PICK s : s = Rooted(WithMajor(Unused, NodeSize))
  OBVIOUS
<1>9. s = [e EXCEPT !.root = 0]
  BY <1>6, <1>8 DEF Rooted
<1>10. Fresh(s, n) /\ s.node = N
  BY <1>7, <1>9 DEF Fresh, HeapRec
<1>11. Kmalloc(Unused, NodeSize) = First(WithMajor(Unused, NodeSize), NodeSize)
  BY DEF Kmalloc, Unused
<1>12. WithMajor(Unused, NodeSize).p # NULL
  BY <1>6, Constants
<1>13. Kmalloc(Unused, NodeSize) = Taken(s, Search(s, NodeSize), NodeSize)
  BY <1>8, <1>11, <1>12 DEF First
<1> QED
  BY <1>1, <1>8, <1>10, <1>13

LEMMA FirstGot ==
  ASSUME NEW s, NEW n, n = MajorPages(NodeSize), Fresh(s, n)
  PROVE  \E b \in {0, NULL} :
           Taken(s, Search(s, NodeSize), NodeSize) = Placed([s EXCEPT !.bestBet = b], 0, MajorHeader, NodeSize)
<1>1. PICK q : q = Search(s, NodeSize)
  OBVIOUS
<1>2. Searchable(s) /\ DOMAIN s.major = {0} /\ Min(Gaps(0, s.major[0], NodeSize)) = MajorHeader
  BY FreshSearchable
<1>3. Found(s, NodeSize, q)
  BY <1>1, <1>2, SearchFinds
<1>4. PICK b : b = q.bestBet
  OBVIOUS
<1>5. b \in {0, NULL} /\ q.at = 0
  BY <1>2, <1>3, <1>4 DEF Found, QOk
<1>6. Searched(s, q) = [s EXCEPT !.bestBet = b]
  BY <1>4 DEF Searched
<1>7. Taken(s, q, NodeSize) = Placed([s EXCEPT !.bestBet = b], 0, MajorHeader, NodeSize)
  BY <1>2, <1>5, <1>6 DEF Taken
<1> QED
  BY <1>1, <1>5, <1>7

LEMMA InitSound ==
  ASSUME NEW g, g = LET got == Kmalloc(Unused, NodeSize) IN [got.h EXCEPT !.node[1].cell = got.p]
  PROVE  Sound(g, {}) /\ g.stop = "no"
<1>1. PICK n : n = MajorPages(NodeSize)
  OBVIOUS
<1>2. PICK s : s = Rooted(WithMajor(Unused, NodeSize))
  OBVIOUS
<1>3. Fresh(s, n) /\ s.node = <<FirstNode(n, NULL)>> /\ Kmalloc(Unused, NodeSize) = Taken(s, Search(s, NodeSize), NodeSize)
  BY <1>1, <1>2, FirstRooted
<1>4. PICK b \in {0, NULL} : Kmalloc(Unused, NodeSize) = Placed([s EXCEPT !.bestBet = b], 0, MajorHeader, NodeSize)
  BY <1>1, <1>3, FirstGot
<1>5. PICK M : M = [s.major EXCEPT ![0].minors = @ \cup {[at |-> MajorHeader, size |-> NodeSize]}]
  OBVIOUS
<1>6. PICK t : t = [s EXCEPT !.bestBet = b]
  OBVIOUS
<1>7. /\ HeapRec(t) /\ t.root = 0 /\ t.bestBet = b /\ t.major = s.major /\ t.stop = "no"
      /\ t.node = <<FirstNode(n, NULL)>>
  BY <1>3, <1>6 DEF Fresh, HeapRec
<1>8. PICK got : got = Kmalloc(Unused, NodeSize)
  OBVIOUS
<1>9. got.p = MajorHeader /\ got.h = [t EXCEPT !.major = M]
  BY <1>4, <1>5, <1>6, <1>7, <1>8 DEF Placed
<1>10. PICK k : k = got.h
  OBVIOUS
<1>11. /\ HeapRec(k) /\ k.root = 0 /\ k.bestBet = b /\ k.major = M /\ k.stop = "no"
       /\ k.node = <<FirstNode(n, NULL)>>
  BY <1>7, <1>9, <1>10 DEF HeapRec
<1>12. g = [k EXCEPT !.node[1].cell = MajorHeader]
  BY <1>8, <1>9, <1>10
<1>13. /\ HeapRec(g) /\ g.root = 0 /\ g.bestBet = b /\ g.major = M /\ g.stop = "no"
       /\ g.node = [k.node EXCEPT ![1].cell = MajorHeader]
  BY <1>11, <1>12 DEF HeapRec
<1>14. g.node = <<FirstNode(n, MajorHeader)>>
  <2>1. PICK o : o = FirstNode(n, NULL)
    OBVIOUS
  <2>2. [o EXCEPT !.cell = MajorHeader] = FirstNode(n, MajorHeader)
    BY <2>1 DEF FirstNode
  <2>3. PICK z : z = FirstNode(n, MajorHeader)
    OBVIOUS
  <2>4. [<<o>> EXCEPT ![1].cell = MajorHeader] = <<z>>
    BY <2>2, <2>3
  <2> QED
    BY <1>11, <1>13, <2>1, <2>3, <2>4
<1>15. PICK e : e = [s EXCEPT !.node = <<>>]
  OBVIOUS
<1>16. Fresh(e, n) /\ e.node = <<>> /\ e.major = s.major
  BY <1>3, <1>15 DEF Fresh, HeapRec
<1>17. Half(e, {Rest(n)}) /\ UsedOf(e) = {}
  BY <1>1, <1>16, StartHalf
<1>18. PICK f : f = [e EXCEPT !.bestBet = b]
  OBVIOUS
<1>19. DOMAIN e.major = {0} /\ FilledBut(e.major, 0) /\ MajorHeader \in Gaps(0, e.major[0], NodeSize)
  BY <1>1, <1>16, FreshSearchable
<1>20. Half(f, {Rest(n)}) /\ f.major = e.major /\ f.node = e.node /\ f.stop = "no" /\ f.root = 0 /\ UsedOf(f) = {} /\ f.bestBet = b
  <2>1. b \in DOMAIN e.major \cup {NULL}
    BY <1>19
  <2>2. Half(f, {Rest(n)}) /\ f.major = e.major /\ f.node = e.node /\ f.stop = e.stop /\ f.root = e.root /\ UsedOf(f) = UsedOf(e)
    BY <1>17, <1>18, <2>1, BetChanged
  <2> QED
    BY <1>16, <1>17, <1>18, <2>2 DEF Fresh, HeapRec
<1>21. PICK v : v = Placed(f, 0, MajorHeader, NodeSize)
  OBVIOUS
<1>22. Gained(f, v, {Rest(n)}, NodeSize)
  BY <1>19, <1>20, <1>21, Constants, PlacedIs
<1>23. PICK w : w = v.h
  OBVIOUS
<1>24. /\ v.p = MajorHeader /\ w.major = M /\ w.node = <<>> /\ w.root = 0 /\ w.bestBet = b /\ w.stop = "no"
  <2>1. v.p = MajorHeader /\ w = [f EXCEPT !.major = M]
    BY <1>5, <1>16, <1>20, <1>21, <1>23 DEF Placed
  <2> QED
    BY <1>16, <1>20, <2>1 DEF Half, HeapRec
<1>25. /\ Sound(w, {} \cup {Rest(n)}) /\ UsedOf(w) = {[at |-> MajorHeader, size |-> NodeSize]}
       /\ [at |-> MajorHeader, size |-> NodeSize] \in PiecesOf(w.major) /\ MajorHeader \notin CellsOf(w.node)
  <2>1. {} \cup {Rest(n)} = {Rest(n)}
    OBVIOUS
  <2> QED
    BY <1>20, <1>22, <1>23, <1>24, <2>1 DEF Gained, Gains
<1>26. LoneIn(w.node, Rest(n)) /\ IsRange(Rest(n)) /\ Rest(n) \notin {}
  <2>1. IsRange(Rest(n))
    BY <1>1, FirstTiles, FirstTaken
  <2> QED
    BY <1>24, <2>1 DEF LoneIn, FreeOf
<1>27. SameBut(w, g) /\ g.major = w.major
  BY <1>13, <1>24 DEF SameBut
<1>28. g.node = Append(w.node, [at |-> Rest(n).at, pages |-> Rest(n).pages, cell |-> MajorHeader])
  <2>1. [at |-> Rest(n).at, pages |-> Rest(n).pages, cell |-> MajorHeader] = FirstNode(n, MajorHeader)
    BY DEF Rest, FirstNode
  <2>2. PICK z : z = FirstNode(n, MajorHeader)
    OBVIOUS
  <2>3. Append(<<>>, z) = <<z>>
    OBVIOUS
  <2> QED
    BY <1>14, <1>24, <2>1, <2>2, <2>3
<1>29. PICK r : r = Rest(n)
  OBVIOUS
<1>30. Sound(g, {})
  <2>1. PICK held : held = {}
    OBVIOUS
  <2>2. MajorHeader \in Nat
    BY Constants
  <2> QED
    BY <1>25, <1>26, <1>27, <1>28, <1>29, <2>1, <2>2, NodeSettled
<1> QED
  BY <1>13, <1>30

-----------------------------------------------------------------------------
(***************************************************************************)
(* The invariant, and the properties that follow from it.                  *)
(***************************************************************************)
(* The inductive invariant: the heap is sound, with the stacks as the      *)
(* ranges held by others, or was left in one of the three ways at which    *)
(* the model stops following it.  It is never left at a node that empties  *)
(* a block ("deep").                                                       *)
HeapIInv ==
  /\ HeapRec(heap)
  /\ \/ heap.stop = "no" /\ Sound(heap, stacks)
     \/ heap.stop \in {"halted", "back", "second"}

Broken(h) == HeapRec(h) /\ h.stop \in {"halted", "back", "second"}

LEMMA InUseIs == InUse = UsedOf(heap) /\ InUse' = UsedOf(heap')
BY DEF InUse, Minors, Cells, UsedOf, PiecesOf, CellsOf

(* What each call changes.                                                 *)
LEMMA AllocateStep ==
  ASSUME Sound(heap, stacks), heap.stop = "no", NEW size \in Sizes, Allocate(size)
  PROVE  \/ Broken(heap')
         \/ /\ heap'.stop = "no" /\ Sound(heap', stacks')
            /\ \E x : UsedOf(heap') = UsedOf(heap) \cup {x} \/ UsedOf(heap') = UsedOf(heap)
<1>1. size \in Nat \ {0}
  BY Constants
<1>2. PICK got : got = Kmalloc(heap, size)
  OBVIOUS
<1>3. heap' = got.h /\ stacks' = stacks
  BY <1>2 DEF Allocate
<1>4. \/ Gained(heap, got, stacks, size)
      \/ Refused(heap, got, stacks, size)
      \/ got.h.stop \in {"halted", "back", "second"} /\ HeapRec(got.h)
  BY <1>1, <1>2, KmallocIs
<1> QED
  BY <1>3, <1>4 DEF Gained, Gains, Refused, Broken

LEMMA FreeStep ==
  ASSUME Sound(heap, stacks), heap.stop = "no", NEW x \in InUse, Free(x)
  PROVE  \/ Broken(heap')
         \/ /\ heap'.stop = "no" /\ Sound(heap', stacks')
            /\ UsedOf(heap') = UsedOf(heap) \ {x}
<1>1. PICK p : p = x.at
  OBVIOUS
<1>2. x \in UsedOf(heap)
  BY InUseIs
<1>3. Leaves(Kfree(heap, p), stacks, UsedOf(heap) \ {x})
  BY <1>1, <1>2, KfreeIs
<1> QED
  BY <1>1, <1>3 DEF Free, Leaves, Broken

LEMMA NewStackStep ==
  ASSUME Sound(heap, stacks), heap.stop = "no", NEW n \in StackPages, NewStack(n)
  PROVE  \/ Broken(heap')
         \/ heap'.stop = "no" /\ Sound(heap', stacks') /\ UsedOf(heap') = UsedOf(heap)
<1>1. n \in Nat \ {0}
  BY Constants
<1>2. PICK got : got = AllocPages(heap, n) /\ got.p # NULL /\ heap' = got.h /\ stacks' = stacks \cup {[at |-> got.p, pages |-> n]}
  BY DEF NewStack
<1>3. got # [p |-> NULL, h |-> heap]
  BY <1>2
<1>4. PICK g, p : got = [h |-> g, p |-> p] /\ Leaves(g, stacks \cup {NewRange(p, n)}, UsedOf(heap))
  BY <1>1, <1>2, <1>3, PagesAllocated
<1>5. heap' = g /\ stacks' = stacks \cup {NewRange(p, n)}
  BY <1>2, <1>4 DEF NewRange
<1> QED
  BY <1>4, <1>5 DEF Leaves, Broken

LEMMA FreeStackStep ==
  ASSUME Sound(heap, stacks), heap.stop = "no", NEW s \in stacks, FreeStack(s)
  PROVE  \/ Broken(heap')
         \/ heap'.stop = "no" /\ Sound(heap', stacks') /\ UsedOf(heap') = UsedOf(heap)
<1>1. PICK held : held = stacks \ {s}
  OBVIOUS
<1>2. held \cup {s} = stacks /\ s \notin held
  BY <1>1
<1>3. RangeOk(s)
  BY DEF Sound, Tiled, Tiles
<1>4. IsRange(s)
  BY <1>3 DEF RangeOk, Aligned, IsRange
<1>5. Leaves(Supply(heap, s.at, s.pages), held, UsedOf(heap))
  BY <1>2, <1>4, SupplyIs
<1>6. heap' = Supply(heap, s.at, s.pages) /\ stacks' = held
  BY <1>1 DEF FreeStack
<1> QED
  BY <1>5, <1>6 DEF Leaves, Broken

LEMMA InitHeapIInv == HeapInit => HeapIInv
<1> SUFFICES ASSUME HeapInit PROVE HeapIInv
  OBVIOUS
<1>1. Sound(heap, {}) /\ heap.stop = "no"
  BY InitSound DEF HeapInit
<1> QED
  BY <1>1 DEF HeapInit, HeapIInv, Sound

LEMMA NextHeapIInv == HeapIInv /\ [HeapNext]_heapVars => HeapIInv'
<1> SUFFICES ASSUME HeapIInv, [HeapNext]_heapVars PROVE HeapIInv'
  OBVIOUS
<1>1. CASE UNCHANGED heapVars
  BY <1>1 DEF HeapIInv, heapVars
<1>2. CASE HeapNext
  <2>1. Sound(heap, stacks) /\ heap.stop = "no"
    BY <1>2 DEF HeapNext, HeapIInv
  <2>2. \/ Broken(heap')
        \/ heap'.stop = "no" /\ Sound(heap', stacks')
    BY <1>2, <2>1, AllocateStep, FreeStep, NewStackStep, FreeStackStep DEF HeapNext
  <2> QED
    BY <2>2 DEF HeapIInv, Broken, Sound
<1> QED
  BY <1>1, <1>2

(* What kmalloc, kfree and the calls for pages leave is sound, although    *)
(* each of them may be entered again from inside the others.               *)
THEOREM HeapInvariant == HeapSpec => []HeapIInv
<1>1. HeapInit => HeapIInv
  BY InitHeapIInv
<1>2. HeapIInv /\ [HeapNext]_heapVars => HeapIInv'
  BY NextHeapIInv
<1> QED
  BY <1>1, <1>2, PTL DEF HeapSpec

-----------------------------------------------------------------------------
LEMMA SoundLists == ASSUME Sound(heap, stacks) PROVE MajorsListed
<1>1. List(heap.major, heap.root) /\ heap.bestBet \in Majors \cup {NULL} /\ AllFilled(heap.major)
  BY DEF Sound, Searchable, Majors
<1>2. \A S \in SUBSET Majors : ReachFrom(heap.root, S) => S = Majors
  BY <1>1 DEF List, ReachFrom, Reaches, Majors
<1>3. ASSUME NEW a \in Majors
      PROVE  LET m == heap.major[a] IN
             /\ IF m.prev = NULL THEN heap.root = a
                ELSE m.prev \in Majors /\ heap.major[m.prev].next = a
             /\ m.next # NULL => m.next \in Majors
             /\ m.minors # {}
  BY <1>1, <1>3 DEF List, LinkedAt, AllFilled, Majors
<1> QED
  BY <1>1, <1>2, <1>3 DEF MajorsListed

LEMMA SoundPieces == ASSUME Sound(heap, stacks) PROVE PiecesApart
<1>1. ASSUME NEW a \in Majors, NEW x \in heap.major[a].minors
      PROVE  /\ a + MajorHeader <= x.at /\ End(x) <= a + SizeOf(heap.major[a])
             /\ \A y \in heap.major[a].minors : x # y => End(x) <= y.at \/ End(y) <= x.at
  <2>1. Row(heap.major[a].minors, a + MajorHeader, a + SizeOf(heap.major[a]))
    BY <1>1 DEF Sound, Searchable, Block, Majors
  <2> QED
    BY <1>1, <2>1 DEF Row
<1> QED
  BY <1>1 DEF PiecesApart

LEMMA PagesOfIs ==
  ASSUME NEW r, RangeOk(r)
  PROVE  \A j : j \in PagesOf(r) <=> j \in Nat /\ Covers(r, j)
<1>1. FirstPage(r) \in Nat /\ r.pages \in Nat /\ r.pages > 0 /\ EndPage(r) = FirstPage(r) + r.pages
  BY RangeNumbers
<1>2. PICK a : a = FirstPage(r)
  OBVIOUS
<1>3. PagesOf(r) = {a + i : i \in 0 .. r.pages - 1}
  BY <1>2 DEF PagesOf, FirstPage, Page
<1>4. ASSUME NEW j \in Nat, a <= j, j < a + r.pages PROVE j \in PagesOf(r)
  <2>1. j - a \in 0 .. r.pages - 1 /\ j = a + (j - a)
    BY <1>1, <1>2, <1>4
  <2> QED
    BY <1>3, <2>1
<1>5. ASSUME NEW j \in PagesOf(r) PROVE j \in Nat /\ a <= j /\ j < a + r.pages
  BY <1>1, <1>2, <1>3, <1>5
<1> QED
  BY <1>1, <1>2, <1>4, <1>5 DEF Covers

LEMMA SoundPages == ASSUME Sound(heap, stacks) PROVE PagesApart
<1>1. FreeRanges = FreeOf(heap.node)
  BY DEF FreeRanges, FreeOf, ToSet, RangeOf
<1>2. Blocks = BlocksOf(heap.major)
  BY DEF Blocks, BlocksOf, Majors
<1>3. PICK T : T = Blocks \cup stacks \cup FreeRanges
  OBVIOUS
<1>4. Tiles(T)
  <2>1. T = BlocksOf(heap.major) \cup FreeOf(heap.node) \cup stacks
    BY <1>1, <1>2, <1>3
  <2> QED
    BY <2>1 DEF Sound, Tiled
<1>5. UNION {PagesOf(r) : r \in T} = 0 .. HeapPages - 1
  <2>1. ASSUME NEW j \in 0 .. HeapPages - 1 PROVE j \in UNION {PagesOf(r) : r \in T}
    <3>1. PICK r \in T : Covers(r, j)
      BY <1>4, <2>1 DEF Tiles
    <3>2. j \in Nat /\ RangeOk(r)
      BY <1>4, <2>1, Constants DEF Tiles
    <3>3. j \in PagesOf(r)
      BY <3>1, <3>2, PagesOfIs
    <3> QED
      BY <3>3
  <2>2. ASSUME NEW r \in T, NEW j \in PagesOf(r) PROVE j \in 0 .. HeapPages - 1
    <3>1. RangeOk(r)
      BY <1>4 DEF Tiles
    <3>2. j \in Nat /\ Covers(r, j)
      BY <2>2, <3>1, PagesOfIs
    <3>3. EndPage(r) <= HeapPages /\ EndPage(r) \in Nat
      BY <3>1, RangeNumbers DEF RangeOk
    <3> QED
      BY <3>2, <3>3, Constants DEF Covers
  <2> QED
    BY <2>1, <2>2
<1>6. ASSUME NEW r \in T, NEW q \in T, r # q PROVE PagesOf(r) \cap PagesOf(q) = {}
  <2>1. RangeOk(r) /\ RangeOk(q) /\ Apart(r, q)
    BY <1>4, <1>6 DEF Tiles
  <2>2. FirstPage(r) \in Nat /\ EndPage(r) \in Nat /\ FirstPage(q) \in Nat /\ EndPage(q) \in Nat
    BY <2>1, RangeNumbers
  <2>3. ASSUME NEW j \in PagesOf(r), j \in PagesOf(q) PROVE FALSE
    <3>1. j \in Nat /\ Covers(r, j) /\ Covers(q, j)
      BY <2>1, <2>3, PagesOfIs
    <3> QED
      BY <2>1, <2>2, <3>1 DEF Covers, Apart
  <2> QED
    BY <2>3
<1>7. \A r, q \in FreeRanges : r.at + r.pages * PageSize # q.at
  BY <1>1 DEF Sound, NodesOk, Touch
<1> QED
  BY <1>3, <1>5, <1>6, <1>7 DEF PagesApart

LEMMA SoundNodes == ASSUME Sound(heap, stacks) PROVE NodesHeld
<1>1. Cells = CellsOf(heap.node) /\ Minors = PiecesOf(heap.major)
  BY DEF Cells, CellsOf, Minors, PiecesOf
<1>2. Cells \subseteq {x.at : x \in Minors}
  BY <1>1 DEF Sound, Celled
<1>3. PICK N : N = heap.node
  OBVIOUS
<1>4. NodesOk(N)
  BY <1>3 DEF Sound
<1>5. PICK n : n = Len(N)
  OBVIOUS
<1>6. n \in Nat /\ DOMAIN N = 1 .. n
  BY <1>4, <1>5 DEF NodesOk
<1>7. PICK f : f = [k \in 1 .. n |-> N[k].cell]
  OBVIOUS
<1>8. f \in Bijection(1 .. n, Cells)
  <2>1. Cells = {N[k].cell : k \in 1 .. n}
    BY <1>3, <1>6 DEF Cells
  <2>2. f \in [1 .. n -> Cells] /\ \A c \in Cells : \E k \in 1 .. n : f[k] = c
    BY <1>7, <2>1
  <2>3. \A k, l \in 1 .. n : f[k] = f[l] => k = l
    BY <1>4, <1>6, <1>7 DEF NodesOk
  <2> QED
    BY <2>2, <2>3 DEF Bijection, Injection, Surjection, IsInjective
<1>9. Cardinality(Cells) = n
  <2>1. ExistsBijection(1 .. n, Cells)
    BY <1>8 DEF ExistsBijection
  <2> QED
    BY <1>6, <2>1, FS_CountingElements
<1> QED
  BY <1>2, <1>3, <1>5, <1>9 DEF NodesHeld

(* The list of blocks is whole, pieces do not overlap in their blocks, each*)
(* page has one use, and every free range has a node of its own, after any *)
(* calls of kmalloc, kfree and for stacks.                                 *)
THEOREM HeapShared == HeapSpec => []MemoryShared
<1>1. HeapIInv => MemoryShared
  <2> SUFFICES ASSUME HeapIInv PROVE MemoryShared
    OBVIOUS
  <2>1. heap.stop # "deep"
    BY DEF HeapIInv
  <2>2. ASSUME Followed PROVE Sound(heap, stacks)
    BY <2>2 DEF HeapIInv, Followed
  <2> QED
    BY <2>1, <2>2, SoundLists, SoundPieces, SoundPages, SoundNodes DEF MemoryShared
<1> QED
  BY <1>1, HeapInvariant, PTL

LEMMA AtMostOne ==
  ASSUME NEW S, NEW T, NEW x, T = S \cup {x} \/ T = S \ {x} \/ T = S
  PROVE  Cardinality(SymDiff(S, T)) <= 1
<1>1. PICK D : D = SymDiff(S, T)
  OBVIOUS
<1>2. D = {} \/ D = {x}
  BY <1>1 DEF SymDiff
<1>3. Cardinality({}) = 0
  BY FS_EmptySet
<1>4. Cardinality({x}) = 1
  BY FS_Singleton
<1>5. Cardinality(D) = 0 \/ Cardinality(D) = 1
  BY <1>2, <1>3, <1>4
<1> QED
  BY <1>1, <1>5

(* One call from the rest of the kernel takes or gives one piece, whatever *)
(* nodes and blocks come and go for it on the way.                         *)
THEOREM OneCallOnePiece == HeapSpec => OthersStay
<1> DEFINE A == heap'.stop = "no" => Cardinality(SymDiff(InUse, InUse')) <= 1
<1>1. HeapIInv /\ [HeapNext]_heapVars => [A]_heapVars
  <2> SUFFICES ASSUME HeapIInv, HeapNext, heap'.stop = "no" PROVE Cardinality(SymDiff(InUse, InUse')) <= 1
    OBVIOUS
  <2>1. Sound(heap, stacks) /\ heap.stop = "no"
    BY DEF HeapNext, HeapIInv
  <2>2. PICK S, T : S = InUse /\ T = InUse'
    OBVIOUS
  <2>3. S = UsedOf(heap) /\ T = UsedOf(heap')
    BY <2>2, InUseIs
  <2>4. ~Broken(heap')
    BY DEF Broken
  <2>5. \E x : T = S \cup {x} \/ T = S \ {x} \/ T = S
    BY <2>1, <2>3, <2>4, AllocateStep, FreeStep, NewStackStep, FreeStackStep DEF HeapNext
  <2> QED
    BY <2>2, <2>5, AtMostOne
<1> QED
  BY <1>1, HeapInvariant, PTL DEF HeapSpec, OthersStay

(* kmalloc returns NULL only when no block has a gap and no range has the  *)
(* pages, wherever its search started.                                     *)
THEOREM HonestRefusals == HeapSpec => []RefusedHonestly
<1>1. HeapIInv => RefusedHonestly
  <2> SUFFICES ASSUME HeapIInv, Followed, NEW size \in Sizes, NEW got, got = Kmalloc(heap, size),
                      got.p = NULL, got.h.stop = "no"
               PROVE  /\ \A a \in Majors : Gaps(a, heap.major[a], size) = {}
                      /\ Fitting(heap, MajorPages(size)) = {}
    BY DEF RefusedHonestly
  <2>1. Sound(heap, stacks) /\ heap.stop = "no" /\ size \in Nat \ {0}
    BY Constants DEF HeapIInv, Followed
  <2>2. ~Gained(heap, got, stacks, size)
    BY Constants DEF Gained
  <2>3. Refused(heap, got, stacks, size)
    BY <2>1, <2>2, KmallocIs
  <2>4. Fitting(heap, MajorPages(size)) = {} /\ \A a \in Majors : ~Fits(heap, a, size)
    BY <2>3 DEF Refused, Majors
  <2>5. Searchable(heap)
    <3>1. Half(heap, stacks)
      BY <2>1, SoundIs
    <3> QED
      BY <3>1 DEF Half
  <2> QED
    BY <2>1, <2>4, <2>5, UnfitHasNoGap DEF Majors
<1> QED
  BY <1>1, HeapInvariant, PTL

-----------------------------------------------------------------------------
(***************************************************************************)
(* The receive ring.                                                       *)
(***************************************************************************)
Contents == Frames \cup {0}

(* The frames lie side by side: from the driver's position, Waiting of     *)
(* them, and nothing else holds one.                                       *)
Arc ==
  \A i \in Slots :
    ~rring[i].own <=>
      \/ currRdes < filling /\ currRdes <= i /\ i < filling
      \/ filling < currRdes /\ (currRdes <= i \/ i < filling)
      \/ currRdes = filling /\ ~rring[currRdes].own

(* What RINT has announced or will announce, and the frame that nicReceive *)
(* is about to take on the strength of it, are all in the ring.            *)
Bit(b) == IF b THEN 1 ELSE 0
Seen == pc \in {"scan", "copied"}
Tokens == Bit(rint) + Bit(raising) + Bit(Seen)

Announced == Tokens <= Waiting /\ (pc = "clear" => rint)
CopyTrue == pc = "copied" => buf = rring[currRdes].frame

IInv == TypeOK /\ Arc /\ Announced /\ CopyTrue

LEMMA SlotFacts ==
  ASSUME NEW i \in Slots
  PROVE  /\ RDES_COUNT \in Nat \ {0}
         /\ i \in Nat /\ i < RDES_COUNT
         /\ NextSlot(i) \in Slots
BY RingAssumption DEF Slots, NextSlot

LEMMA WaitingNat == TypeOK => Waiting \in Nat /\ Waiting <= RDES_COUNT
BY RingAssumption DEF TypeOK, Slots, Waiting

LEMMA TokensNat == Tokens \in Nat
BY DEF Tokens, Bit

(* A token is a frame at the driver's position.                            *)
LEMMA AtHand == TypeOK /\ Arc /\ Announced => FrameAtHand
<1> SUFFICES ASSUME TypeOK, Arc, Announced, pc \in {"scan", "copied"}
             PROVE  ~rring[currRdes].own
  BY DEF FrameAtHand
<1>1. Tokens >= 1
  BY DEF Tokens, Bit, Seen
<1>2. Waiting >= 1
  BY <1>1, WaitingNat, TokensNat DEF Announced
<1> QED
  BY <1>2, RingAssumption DEF Waiting, Arc, TypeOK, Slots

LEMMA InitIInv == Init => IInv
<1> SUFFICES ASSUME Init PROVE IInv
  OBVIOUS
<1> USE RingAssumption DEF Init, Empty, NoFrame, Slots
<1>1. TypeOK
  <2>1. rring \in [Slots -> [own : BOOLEAN, err : BOOLEAN, frame : Frames \cup {0}]]
    OBVIOUS
  <2>2. 0 \in Slots /\ last \in [frame : Frames \cup {0}, turn : BOOLEAN]
    OBVIOUS
  <2> QED
    BY <2>1, <2>2 DEF TypeOK
<1>2. Arc
  BY DEF Arc
<1>3. Announced
  BY DEF Announced, Tokens, Bit, Seen, Waiting
<1>4. CopyTrue
  BY DEF CopyTrue
<1> QED
  BY <1>1, <1>2, <1>3, <1>4 DEF IInv

(* One more frame waits after an arrival.                                  *)
LEMMA ArriveIInv ==
  ASSUME IInv, NEW f \in Frames, NEW e \in BOOLEAN, Arrive(f, e)
  PROVE  IInv' /\ Waiting' = Waiting + 1
<1> USE DEF IInv
<1> filling \in Slots /\ currRdes \in Slots
  BY DEF TypeOK
<1>0. /\ filling' = NextSlot(filling) /\ currRdes' = currRdes /\ pc' = pc
      /\ rring[filling].own /\ ~raising /\ raising' = TRUE /\ rint' = rint /\ buf' = buf
      /\ last' = last
      /\ rring' = [rring EXCEPT ![filling] = Filled(f, e)]
  BY DEF Arrive, driver
<1>1. TypeOK'
  BY <1>0, SlotFacts DEF TypeOK, Filled
<1>2. rring'[filling].own = FALSE /\ \A i \in Slots \ {filling} : rring'[i] = rring[i]
  BY <1>0 DEF TypeOK, Filled
<1>3. Arc'
  <2> SUFFICES ASSUME NEW i \in Slots
               PROVE  ~rring'[i].own <=>
                        \/ currRdes < filling' /\ currRdes <= i /\ i < filling'
                        \/ filling' < currRdes /\ (currRdes <= i \/ i < filling')
                        \/ currRdes = filling' /\ ~rring'[currRdes].own
    BY <1>0 DEF Arc
  <2>1. CASE i = filling
    <3>1. ~rring'[i].own /\ i \in Nat /\ i < RDES_COUNT /\ currRdes \in Nat /\ currRdes < RDES_COUNT
      BY <2>1, <1>2, RingAssumption DEF Slots
    <3>a. ~rring'[currRdes].own
      BY <3>1, <2>1, <1>2 DEF Arc
    <3>2. CASE filling' = i + 1
      BY <3>1, <3>a, <3>2
    <3>3. CASE filling' = 0 /\ i + 1 = RDES_COUNT
      BY <3>1, <3>a, <3>3
    <3> QED
      BY <3>2, <3>3, <2>1, <1>0 DEF NextSlot
  <2>2. CASE i # filling
    <3>1. rring'[i] = rring[i]
      BY <1>2, <2>2
    <3>2. CASE currRdes = filling'
      BY <3>1, <3>2, <2>2, <1>0, <1>2, RingAssumption DEF Slots, NextSlot, Arc
    <3>3. CASE currRdes # filling'
      BY <3>1, <3>3, <2>2, <1>0, <1>2, RingAssumption DEF Slots, NextSlot, Arc
    <3> QED
      BY <3>2, <3>3
  <2> QED
    BY <2>1, <2>2
<1>4. Waiting' = Waiting + 1
  BY <1>0, <1>2, RingAssumption DEF Waiting, Arc, Slots, NextSlot
<1>5. Tokens' = Tokens + 1
  BY <1>0 DEF Tokens, Bit, Seen
<1>6. Announced'
  BY <1>0, <1>4, <1>5, WaitingNat, TokensNat DEF Announced
<1>7. CopyTrue'
  BY <1>0, <1>2, AtHand DEF CopyTrue, FrameAtHand, TypeOK
<1> QED
  BY <1>1, <1>3, <1>4, <1>6, <1>7

(* One frame less waits after GiveBack.                                    *)
LEMMA GiveBackIInv ==
  ASSUME IInv, GiveBack
  PROVE  IInv' /\ Waiting' = Waiting - 1
<1> USE DEF IInv
<1> filling \in Slots /\ currRdes \in Slots
  BY DEF TypeOK
<1>0. /\ filling' = filling /\ currRdes' = NextSlot(currRdes) /\ pc = "copied" /\ pc' = "called"
      /\ raising' = raising /\ rint' = rint /\ buf' = 0
      /\ last' = [frame |-> buf, turn |-> ~last.turn]
      /\ rring' = [rring EXCEPT ![currRdes] = Empty]
  BY DEF GiveBack, card
<1>1. TypeOK'
  BY <1>0, SlotFacts DEF TypeOK, Empty
<1>2. rring'[currRdes].own = TRUE /\ \A i \in Slots \ {currRdes} : rring'[i] = rring[i]
  BY <1>0 DEF TypeOK, Empty
<1>h. ~rring[currRdes].own
  BY <1>0, AtHand DEF FrameAtHand
<1>3. Arc'
  <2> SUFFICES ASSUME NEW i \in Slots
               PROVE  ~rring'[i].own <=>
                        \/ currRdes' < filling /\ currRdes' <= i /\ i < filling
                        \/ filling < currRdes' /\ (currRdes' <= i \/ i < filling)
                        \/ currRdes' = filling /\ ~rring'[currRdes'].own
    BY <1>0 DEF Arc
  <2>1. CASE i = currRdes
    BY <2>1, <1>0, <1>2, <1>h, RingAssumption DEF Slots, NextSlot, Arc
  <2>2. CASE i # currRdes
    <3>1. rring'[i] = rring[i]
      BY <1>2, <2>2
    <3>2. CASE currRdes' = filling
      BY <3>1, <3>2, <2>2, <1>h, <1>0, <1>2, RingAssumption DEF Slots, NextSlot, Arc
    <3>3. CASE currRdes' # filling
      BY <3>1, <3>3, <2>2, <1>h, <1>0, <1>2, RingAssumption DEF Slots, NextSlot, Arc
    <3> QED
      BY <3>2, <3>3
  <2> QED
    BY <2>1, <2>2
<1>4. Waiting' = Waiting - 1
  BY <1>0, <1>2, <1>h, RingAssumption DEF Waiting, Arc, Slots, NextSlot
<1>5. Tokens' = Tokens - 1
  BY <1>0 DEF Tokens, Bit, Seen
<1>6. Announced'
  BY <1>0, <1>4, <1>5, WaitingNat, TokensNat DEF Announced
<1>7. CopyTrue'
  BY <1>0 DEF CopyTrue
<1> QED
  BY <1>1, <1>3, <1>4, <1>6, <1>7

(* The other steps leave the ring as it is.                                *)
ring == <<rring, filling, currRdes>>

LEMMA OtherIInv ==
  ASSUME IInv, Raise \/ ReadCSR \/ ClearCSR \/ Look \/ UNCHANGED vars
  PROVE  IInv' /\ UNCHANGED <<ring, last>>
<1> USE DEF IInv
<1>0. UNCHANGED <<ring, last>>
  <2>1. CASE Look
    BY <2>1, AtHand DEF Look, FrameAtHand, ring, card
  <2> QED
    BY <2>1 DEF Raise, ReadCSR, ClearCSR, vars, ring, card, driver
<1>1. TypeOK'
  <2>1. CASE Look
    <3>1. currRdes' = currRdes /\ rring' = rring
      BY <1>0 DEF ring
    <3>2. rring[currRdes].frame \in Frames \cup {0}
      BY DEF TypeOK
    <3> QED
      BY <2>1, <3>1, <3>2 DEF Look, TypeOK, card
  <2> QED
    BY <2>1 DEF TypeOK, Raise, ReadCSR, ClearCSR, vars, card, driver
<1>2. Arc' /\ Waiting' = Waiting
  BY <1>0 DEF Arc, Waiting, ring
<1>3. Tokens' <= Tokens /\ (pc' = "clear" => rint')
  <2>1. CASE Raise
    BY <2>1 DEF Raise, Announced, Tokens, Bit, Seen, driver
  <2>2. CASE ReadCSR
    BY <2>2 DEF ReadCSR, Tokens, Bit, Seen, card
  <2>3. CASE ClearCSR
    BY <2>3 DEF ClearCSR, Announced, Tokens, Bit, Seen, card
  <2>4. CASE Look
    BY <2>4, AtHand DEF Look, FrameAtHand, Tokens, Bit, Seen, card
  <2>5. CASE UNCHANGED vars
    BY <2>5 DEF vars, Announced, Tokens, Bit, Seen, card, driver
  <2> QED
    BY <2>1, <2>2, <2>3, <2>4, <2>5
<1>4. Announced'
  <2>1. Tokens' \in Nat
    BY DEF Tokens, Bit
  <2> QED
    BY <2>1, <1>2, <1>3, WaitingNat, TokensNat DEF Announced
<1>5. CopyTrue'
  <2>1. CASE Look
    BY <2>1, <1>0, AtHand DEF Look, CopyTrue, ring, FrameAtHand
  <2> QED
    BY <2>1 DEF CopyTrue, Raise, ReadCSR, ClearCSR, vars, card, driver
<1> QED
  BY <1>0, <1>1, <1>2, <1>4, <1>5

LEMMA NextIInv == IInv /\ [Next]_vars => IInv'
BY ArriveIInv, GiveBackIInv, OtherIInv DEF Next, NicReceive, Arrives

LEMMA IInvAlways == Spec => []IInv
BY InitIInv, NextIInv, PTL DEF Spec

(* Every variable keeps its type: the positions stay inside the ring.      *)
THEOREM NicTyped == Spec => []TypeOK
<1>1. IInv => TypeOK
  BY DEF IInv
<1> QED
  BY <1>1, IInvAlways, PTL

(* Once RINT has been seen a frame is at the driver's position, however    *)
(* many frames raised it at once.                                          *)
THEOREM NicFrameAtHand == Spec => []FrameAtHand
<1>1. IInv => FrameAtHand
  BY AtHand DEF IInv
<1> QED
  BY <1>1, IInvAlways, PTL

(* The frames in the ring, from the driver's position on, are a sequence.  *)
QueueOK ==
  /\ Waiting \in Nat /\ Waiting <= RDES_COUNT
  /\ queue \in Seq(Contents) /\ Len(queue) = Waiting
  /\ \A k \in 1 .. Waiting : queue[k] = rring[Place(k - 1)].frame

LEMMA QueueSeq == TypeOK => QueueOK
<1> SUFFICES ASSUME TypeOK PROVE QueueOK
  OBVIOUS
<1>1. Waiting \in Nat /\ Waiting <= RDES_COUNT
  BY WaitingNat
<1>2. \A k \in 1 .. Waiting : Place(k - 1) \in Slots
  BY <1>1, RingAssumption DEF Place, Slots, TypeOK
<1>3. queue \in [1 .. Waiting -> Contents]
  BY <1>2 DEF queue, Contents, TypeOK
<1>4. queue \in Seq(Contents)
  BY <1>1, <1>3, SeqDef
<1>5. Len(queue) = Waiting
  BY <1>1, <1>3, <1>4, LenProperties
<1> QED
  BY <1>1, <1>2, <1>4, <1>5 DEF queue, QueueOK

LEMMA QueueInit == Init => Q!Init
<1> SUFFICES ASSUME Init PROVE Q!Init
  OBVIOUS
<1>1. TypeOK
  BY InitIInv DEF IInv
<1>2. Waiting = 0
  BY RingAssumption DEF Init, Waiting, Slots, Empty
<1>3. queue = <<>>
  BY <1>1, <1>2, QueueSeq, EmptySeq DEF QueueOK
<1> QED
  BY <1>3 DEF Q!Init, Init, Q!None, NoFrame

LEMMA QueueArrive ==
  ASSUME IInv, NEW f \in Frames, NEW e \in BOOLEAN, Arrive(f, e)
  PROVE  Q!Put(f)
<1> DEFINE n == Waiting
<1>1. TypeOK /\ TypeOK' /\ Waiting' = n + 1
  BY ArriveIInv DEF IInv
<1>2. QueueOK /\ QueueOK'
  BY <1>1, QueueSeq, PTL
<1>3. n \in Nat /\ n + 1 <= RDES_COUNT
  BY <1>1, <1>2 DEF QueueOK
<1>4. /\ currRdes' = currRdes /\ last' = last
      /\ rring'[filling].frame = f /\ \A i \in Slots \ {filling} : rring'[i] = rring[i]
  BY <1>1 DEF Arrive, TypeOK, Filled, driver
<1>5. \A k \in 0 .. n : Place(k)' = Place(k)
  BY <1>4 DEF Place
<1>6. Place(n) = filling /\ \A k \in 0 .. n - 1 : Place(k) \in Slots \ {filling}
  BY <1>1, <1>3, RingAssumption DEF Place, Waiting, TypeOK, Slots, Arrive, IInv, Arc
<1>7. /\ queue \in Seq(Contents) /\ Len(queue) = n
      /\ \A k \in 1 .. n : queue[k] = rring[Place(k - 1)].frame
  BY <1>2 DEF QueueOK
<1>8. /\ queue' \in Seq(Contents) /\ Len(queue') = n + 1
      /\ \A k \in 1 .. n + 1 : queue'[k] = rring'[Place(k - 1)].frame
  BY <1>1, <1>2, <1>3, <1>5 DEF QueueOK
<1>9. \A k \in 1 .. n + 1 : queue'[k] = IF k <= n THEN queue[k] ELSE f
  <2> SUFFICES ASSUME NEW k \in 1 .. n + 1
               PROVE  queue'[k] = IF k <= n THEN queue[k] ELSE f
    OBVIOUS
  <2>1. CASE k = n + 1
    BY <2>1, <1>3, <1>4, <1>6, <1>8
  <2>2. CASE k \in 1 .. n
    BY <2>2, <1>3, <1>4, <1>6, <1>7, <1>8
  <2> QED
    BY <2>1, <2>2, <1>3
<1>10. queue' = Append(queue, f)
  <2>1. f \in Contents
    BY DEF Contents
  <2>2. /\ Append(queue, f) \in Seq(Contents) /\ Len(Append(queue, f)) = n + 1
        /\ \A k \in 1 .. n : Append(queue, f)[k] = queue[k]
        /\ Append(queue, f)[n + 1] = f
    BY <1>3, <1>7, <2>1, AppendProperties
  <2>3. \A k \in 1 .. n + 1 : Append(queue, f)[k] = queue'[k]
    BY <1>3, <1>9, <2>2
  <2> QED
    BY <1>8, <2>2, <2>3, SeqEqual
<1>11. Len(queue) < RDES_COUNT
  BY <1>3, <1>7, RingAssumption
<1> QED
  BY <1>4, <1>10, <1>11 DEF Q!Put

LEMMA QueueGiveBack ==
  ASSUME IInv, GiveBack
  PROVE  Q!Get
<1> DEFINE n == Waiting
<1>1. TypeOK /\ TypeOK' /\ Waiting' = n - 1
  BY GiveBackIInv DEF IInv
<1>2. QueueOK /\ QueueOK'
  BY <1>1, QueueSeq, PTL
<1>3. n \in Nat /\ n >= 1 /\ n <= RDES_COUNT
  BY <1>1, <1>2 DEF QueueOK
<1>4. /\ currRdes' = NextSlot(currRdes) /\ last' = [frame |-> buf, turn |-> ~last.turn]
      /\ \A i \in Slots \ {currRdes} : rring'[i] = rring[i]
  BY <1>1 DEF GiveBack, TypeOK
<1>5. buf = rring[currRdes].frame
  BY DEF IInv, CopyTrue, GiveBack
<1>6. \A k \in 0 .. n - 2 : /\ Place(k)' = Place(k + 1)
                            /\ Place(k + 1) \in Slots \ {currRdes}
  BY <1>1, <1>3, <1>4, RingAssumption DEF Place, TypeOK, Slots, NextSlot
<1>7. Place(0) = currRdes
  BY <1>1, RingAssumption DEF Place, TypeOK, Slots
<1>8. /\ queue \in Seq(Contents) /\ Len(queue) = n
      /\ \A k \in 1 .. n : queue[k] = rring[Place(k - 1)].frame
  BY <1>2 DEF QueueOK
<1>9. /\ queue' \in Seq(Contents) /\ Len(queue') = n - 1
      /\ \A k \in 1 .. n - 1 : queue'[k] = rring'[Place(k - 1)'].frame
  BY <1>1, <1>2 DEF QueueOK
<1>10. queue # <<>>
  BY <1>3, <1>8, EmptySeq
<1>11. Head(queue) = buf
  BY <1>3, <1>5, <1>7, <1>8, <1>10
<1>12. queue' = Tail(queue)
  <2>1. /\ Tail(queue) \in Seq(Contents) /\ Len(Tail(queue)) = n - 1
        /\ \A k \in 1 .. n - 1 : Tail(queue)[k] = queue[k + 1]
    BY <1>3, <1>8, <1>10, HeadTailProperties
  <2>2. ASSUME NEW k \in 1 .. n - 1
        PROVE  queue'[k] = Tail(queue)[k]
    <3>1. queue'[k] = rring[Place(k)].frame
      BY <1>3, <1>4, <1>6, <1>9
    <3>2. queue[k + 1] = rring[Place(k)].frame
      BY <1>3, <1>8
    <3> QED
      BY <2>1, <3>1, <3>2
  <2> QED
    BY <1>9, <2>1, <2>2, SeqEqual
<1> QED
  BY <1>4, <1>10, <1>11, <1>12 DEF Q!Get

LEMMA QueueStep == IInv /\ [Next]_vars => [Q!Next]_<<queue, last>>
<1> SUFFICES ASSUME IInv, [Next]_vars
             PROVE  [Q!Next]_<<queue, last>>
  OBVIOUS
<1>1. CASE Arrives
  BY <1>1, QueueArrive DEF Arrives, Q!Next
<1>2. CASE GiveBack
  BY <1>2, QueueGiveBack DEF Q!Next
<1>3. CASE Raise \/ ReadCSR \/ ClearCSR \/ Look \/ UNCHANGED vars
  <2>1. UNCHANGED <<rring, filling, currRdes, last>>
    BY <1>3, OtherIInv DEF ring
  <2> QED
    BY <2>1 DEF queue, Waiting, Place
<1> QED
  BY <1>1, <1>2, <1>3 DEF Next, NicReceive

(* Driver and card implement the queue of RxQueue: every frame is handed   *)
(* on once, in the order of arrival.                                       *)
THEOREM NicInOrder == Spec => InOrder
<1>1. Init => Q!Init
  BY QueueInit
<1>2. IInv /\ [Next]_vars => [Q!Next]_<<queue, last>>
  BY QueueStep
<1> QED
  BY <1>1, <1>2, IInvAlways, PTL DEF Spec, InOrder, Q!Spec
=============================================================================
