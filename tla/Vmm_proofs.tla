----------------------------- MODULE Vmm_proofs ------------------------------
(***************************************************************************)
(* Proofs about vmm.c, for every number of processes, frames and page      *)
(* tables and every size of a request: the free ranges of every VMM stay   *)
(* inside its space and apart; every page frame has one use or is free; the*)
(* free ranges are exactly the pages that are not mapped; a page table is  *)
(* there only for pages that are mapped; and pages keep their frames while *)
(* they are owned, which is the refinement to AddressSpaces.               *)
(***************************************************************************)
EXTENDS Vmm, Counting

Ranges(N, lo, hi) == N \subseteq Node /\ Apart(N) /\ Inside(N, lo, hi)

(* Taking pages from the start of a range.                                 *)
LEMMA RestRanges ==
  ASSUME NEW N, NEW lo \in Nat, NEW hi \in Nat, Ranges(N, lo, hi),
         NEW r \in N, NEW n \in Nat \ {0}, n <= r.size
  PROVE  Ranges((N \ {r}) \cup Rest(r, n), lo, hi)
<1> DEFINE M == (N \ {r}) \cup Rest(r, n)
<1>1. r \in Node /\ r.addr \in Nat /\ r.size \in Nat
  BY DEF Ranges, Node
<1>2. \A x \in M : x \in N \/ (n < r.size /\ x = Extent(r.addr + n, r.size - n))
  BY <1>1 DEF Rest
<1>3. \A x \in M : x \in Node /\ lo <= x.addr /\ x.addr + x.size <= hi
  BY <1>1, <1>2 DEF Ranges, Node, Inside, Extent
<1>4. Apart(M)
  <2> SUFFICES ASSUME NEW x \in M, NEW y \in M, x # y
               PROVE  x.addr + x.size < y.addr \/ y.addr + y.size < x.addr
    BY DEF Apart
  <2>1. CASE x \in N /\ y \in N
    BY <2>1 DEF Ranges, Apart
  <2>2. CASE x \in N \ {r} /\ y = Extent(r.addr + n, r.size - n) /\ n < r.size
    BY <1>1, <2>2 DEF Ranges, Apart, Node, Extent
  <2>3. CASE y \in N \ {r} /\ x = Extent(r.addr + n, r.size - n) /\ n < r.size
    BY <1>1, <2>3 DEF Ranges, Apart, Node, Extent
  <2> QED
    BY <1>1, <1>2, <2>1, <2>2, <2>3 DEF Rest
<1> QED
  BY <1>3, <1>4 DEF Ranges, Inside

(* Taking pages out of the middle of a range, or its end.                  *)
LEMMA SplitRanges ==
  ASSUME NEW N, NEW lo \in Nat, NEW hi \in Nat, Ranges(N, lo, hi),
         NEW r \in N, NEW n \in Nat \ {0}, NEW a \in Nat,
         r.addr <= a, a + n <= r.addr + r.size
  PROVE  Ranges((N \ {r}) \cup Split(r, a, n), lo, hi)
<1>1. r \in Node /\ r.addr \in Nat /\ r.size \in Nat
  BY DEF Ranges, Node
<1>2. CASE a = r.addr
  BY <1>1, <1>2, RestRanges DEF Split
<1>3. CASE a # r.addr
  <2> DEFINE M    == (N \ {r}) \cup Split(r, a, n)
             head == Extent(r.addr, a - r.addr)
             tail == Extent(a + n, r.addr + r.size - (a + n))
  <2>1. \A x \in M : x \in N \ {r} \/ x = head \/ (x = tail /\ a + n < r.addr + r.size)
    BY <1>1, <1>3 DEF Split
  <2>2. head \in Node /\ head.addr = r.addr /\ head.addr + head.size = a
    BY <1>1, <1>3 DEF Node, Extent
  <2>3. a + n < r.addr + r.size =>
          tail \in Node /\ tail.addr = a + n /\ tail.addr + tail.size = r.addr + r.size
    BY <1>1 DEF Node, Extent
  <2>4. \A x \in N \ {r} : /\ x \in Node /\ x.addr \in Nat /\ x.size \in Nat
                           /\ x.addr + x.size < r.addr \/ r.addr + r.size < x.addr
    BY DEF Ranges, Apart, Node
  <2>5. lo <= r.addr /\ r.addr + r.size <= hi
    BY DEF Ranges, Inside
  <2> HIDE DEF head, tail
  <2>6. \A x \in M : x \in Node /\ lo <= x.addr /\ x.addr + x.size <= hi
    <3> SUFFICES ASSUME NEW x \in M PROVE x \in Node /\ lo <= x.addr /\ x.addr + x.size <= hi
      OBVIOUS
    <3>1. CASE x \in N \ {r}
      BY <3>1 DEF Ranges, Inside
    <3>2. CASE x = head
      BY <1>1, <3>2, <2>2, <2>5
    <3>3. CASE x = tail /\ a + n < r.addr + r.size
      BY <1>1, <3>3, <2>3, <2>5
    <3> QED
      BY <2>1, <3>1, <3>2, <3>3
  <2>7. Apart(M)
    <3> SUFFICES ASSUME NEW x \in M, NEW y \in M, x # y
                 PROVE  x.addr + x.size < y.addr \/ y.addr + y.size < x.addr
      BY DEF Apart
    <3>1. CASE x \in N \ {r} /\ y \in N \ {r}
      BY <3>1 DEF Ranges, Apart
    <3> a < r.addr + r.size
      BY <1>1
    <3>2. CASE x \in N \ {r} /\ y = head
      <4>1. x.addr \in Nat /\ (x.addr + x.size < r.addr \/ r.addr + r.size < x.addr)
        BY <3>2, <2>4
      <4>2. a < x.addr \/ x.addr + x.size < r.addr
        BY <4>1, <1>1
      <4> QED
        BY <4>2, <3>2, <2>2
    <3>3. CASE y \in N \ {r} /\ x = head
      <4>1. y.addr \in Nat /\ (y.addr + y.size < r.addr \/ r.addr + r.size < y.addr)
        BY <3>3, <2>4
      <4>2. a < y.addr \/ y.addr + y.size < r.addr
        BY <4>1, <1>1
      <4> QED
        BY <4>2, <3>3, <2>2
    <3>4. CASE x \in N \ {r} /\ y = tail /\ a + n < r.addr + r.size
      BY <1>1, <3>4, <2>3, <2>4
    <3>5. CASE y \in N \ {r} /\ x = tail /\ a + n < r.addr + r.size
      BY <1>1, <3>5, <2>3, <2>4
    <3>6. CASE x = head /\ y = tail /\ a + n < r.addr + r.size
      BY <3>6, <2>2, <2>3
    <3>7. CASE y = head /\ x = tail /\ a + n < r.addr + r.size
      BY <3>7, <2>2, <2>3
    <3> QED
      BY <2>1, <3>1, <3>2, <3>3, <3>4, <3>5, <3>6, <3>7
  <2> QED
    BY <2>6, <2>7 DEF Ranges, Inside
<1> QED
  BY <1>2, <1>3

(* Two runs of pages without a common page do not overlap.                 *)
LEMMA DisjointRuns ==
  ASSUME NEW a \in Nat, NEW n \in Nat \ {0}, NEW b \in Nat, NEW m \in Nat \ {0},
         (a .. a + n - 1) \cap (b .. b + m - 1) = {}
  PROVE  a + n <= b \/ b + m <= a
<1>1. CASE a <= b
  BY <1>1, b \in b .. b + m - 1
<1>2. CASE b < a
  BY <1>2, a \in a .. a + n - 1
<1> QED
  BY <1>1, <1>2

(* Giving pages back: the range they join takes in what is in front of it  *)
(* and behind it, and touches nothing else.                                *)
LEMMA SupplyRanges ==
  ASSUME NEW N, NEW lo \in Nat, NEW hi \in Nat, Ranges(N, lo, hi),
         NEW a \in Nat, NEW n \in Nat \ {0}, lo <= a, a + n <= hi,
         \A r \in N : a + n <= r.addr \/ r.addr + r.size <= a
  PROVE  Ranges(Supply(N, Extent(a, n)), lo, hi)
<1> DEFINE r == Extent(a, n)
           F == OrElse(FrontNode(N, r), r)
           B == OrElse(BackNode(N, r), r)
           M == Supply(N, r)
           P == N \ (FrontNode(N, r) \cup BackNode(N, r))
<1>1. r \in Node /\ r.addr = a /\ r.size = n
  BY DEF Extent, Node
<1>2. \A x \in N : x \in Node /\ x.addr \in Nat /\ x.size \in Nat \ {0}
                  /\ lo <= x.addr /\ x.addr + x.size <= hi
  BY DEF Ranges, Node, Inside
<1> HIDE DEF r
<1>3. \A f \in F : /\ f.addr \in Nat /\ lo <= f.addr /\ f.addr <= a
                   /\ \A x \in P : x.addr + x.size < f.addr \/ a + n < x.addr
  <2> SUFFICES ASSUME NEW f \in F
               PROVE  /\ f.addr \in Nat /\ lo <= f.addr /\ f.addr <= a
                      /\ \A x \in P : x.addr + x.size < f.addr \/ a + n < x.addr
    OBVIOUS
  <2>1. CASE FrontNode(N, r) = {}
    <3>1. f = r
      BY <2>1 DEF OrElse
    <3>2. \A x \in P : x.addr + x.size # a /\ x.addr # a + n
      BY <1>1, <2>1 DEF FrontNode, BackNode
    <3> QED
      BY <1>1, <1>2, <3>1, <3>2
  <2>2. CASE FrontNode(N, r) # {}
    <3>1. f \in N /\ f.addr + f.size = a
      BY <1>1, <2>2 DEF OrElse, FrontNode
    <3>2. \A x \in P : x \in N /\ x # f /\ x.addr # a + n
      BY <1>1, <3>1 DEF FrontNode, BackNode
    <3>3. \A x \in P : x.addr + x.size < f.addr \/ a < x.addr
      BY <3>1, <3>2 DEF Ranges, Apart
    <3> QED
      BY <1>2, <3>1, <3>2, <3>3
  <2> QED
    BY <2>1, <2>2
<1>4. \A b \in B : /\ b.addr \in Nat /\ b.size \in Nat /\ a + n <= b.addr + b.size
                   /\ b.addr + b.size <= hi
                   /\ \A x \in P : x.addr + x.size < a \/ b.addr + b.size < x.addr
  <2> SUFFICES ASSUME NEW b \in B
               PROVE  /\ b.addr \in Nat /\ b.size \in Nat /\ a + n <= b.addr + b.size
                      /\ b.addr + b.size <= hi
                      /\ \A x \in P : x.addr + x.size < a \/ b.addr + b.size < x.addr
    OBVIOUS
  <2>1. CASE BackNode(N, r) = {}
    <3>1. b = r
      BY <2>1 DEF OrElse
    <3>2. \A x \in P : x.addr + x.size # a /\ x.addr # a + n
      BY <1>1, <2>1 DEF FrontNode, BackNode
    <3> QED
      BY <1>1, <1>2, <3>1, <3>2
  <2>2. CASE BackNode(N, r) # {}
    <3>1. b \in N /\ b.addr = a + n
      BY <1>1, <2>2 DEF OrElse, BackNode
    <3>2. \A x \in P : x \in N /\ x # b /\ x.addr + x.size # a
      BY <1>1, <3>1 DEF FrontNode, BackNode
    <3>3. \A x \in P : x.addr + x.size < b.addr \/ b.addr + b.size < x.addr
      BY <3>1, <3>2 DEF Ranges, Apart
    <3> QED
      BY <1>2, <3>1, <3>2, <3>3
  <2> QED
    BY <2>1, <2>2
<1>5. \A x \in M : x \in P \/ \E f \in F, b \in B : x = Join(f, b)
  BY DEF Supply
<1>6. \A f \in F, b \in B : /\ Join(f, b) \in Node /\ Join(f, b).addr = f.addr
                            /\ Join(f, b).addr + Join(f, b).size = b.addr + b.size
  BY <1>3, <1>4 DEF Join, Extent, Node
<1>7. \A f, g \in F : f = g
  BY <1>1, <1>2 DEF OrElse, FrontNode, Ranges, Apart
<1>8. \A f, g \in B : f = g
  BY <1>1, <1>2 DEF OrElse, BackNode, Ranges, Apart
<1> HIDE DEF F, B, M
<1>9. \A x \in M : x \in Node /\ lo <= x.addr /\ x.addr + x.size <= hi
  BY <1>2, <1>3, <1>4, <1>5, <1>6
<1>10. \A x \in P : \A f \in F, b \in B :
         x.addr + x.size < f.addr \/ b.addr + b.size < x.addr
  BY <1>2, <1>3, <1>4
<1>11. Apart(M)
  <2> SUFFICES ASSUME NEW x \in M, NEW y \in M, x # y
               PROVE  x.addr + x.size < y.addr \/ y.addr + y.size < x.addr
    BY DEF Apart
  <2>1. CASE x \in P /\ y \in P
    BY <2>1 DEF Ranges, Apart
  <2>2. CASE x \in P /\ y \notin P
    BY <2>2, <1>5, <1>6, <1>10
  <2>3. CASE y \in P /\ x \notin P
    BY <2>3, <1>5, <1>6, <1>10
  <2>4. CASE x \notin P /\ y \notin P
    BY <2>4, <1>5, <1>7, <1>8
  <2> QED
    BY <2>1, <2>2, <2>3, <2>4
<1> QED
  BY <1>9, <1>11 DEF Ranges, Inside, M, r

-----------------------------------------------------------------------------
(* The inductive invariant: a process that is not yet in service has no    *)
(* ranges, so that the one it is supplied with is its first.               *)
Fields ==
  /\ nodes = [s \in Spaces |-> nodes[s]]
  /\ stage \in [Procs -> Stages]
  /\ \A p \in Procs : stage[p] \in {"none", "new"} => nodes[p] = {}

Inv == Fields /\ FreeRanges

LEMMA SpaceBounds ==
  ASSUME NEW s \in Spaces
  PROVE  First(s) \in Nat /\ Length(s) \in Nat \ {0}
<1>1. \A k, m \in Nat \ {0} : k * m \in Nat \ {0}
  OBVIOUS
<1> QED
  BY <1>1, VmmAssumption DEF First, Length

(* A space of which one list changes, the others staying as they are.      *)
LEMMA OneSpaceChanges ==
  ASSUME Inv, NEW s \in InService, NEW M, UNCHANGED stage,
         nodes' = [nodes EXCEPT ![s] = M],
         Ranges(M, First(s), First(s) + Length(s))
  PROVE  Inv'
<1>1. s \in Spaces /\ InService' = InService /\ InService \subseteq Spaces
  BY DEF InService, Spaces
<1>2. nodes'[s] = M /\ \A x \in Spaces \ {s} : nodes'[x] = nodes[x]
  BY <1>1 DEF Inv, Fields
<1>3. \A p \in Procs : stage[p] \in {"none", "new"} => p # s
  BY VmmAssumption DEF InService
<1>4. Fields'
  BY <1>1, <1>2, <1>3 DEF Inv, Fields, Spaces
<1>5. FreeRanges'
  BY <1>1, <1>2 DEF Inv, FreeRanges, Ranges, First, Length
<1> QED
  BY <1>4, <1>5 DEF Inv

LEMMA InvInit ==
  ASSUME Init PROVE Inv
<1>1. Fields
  BY VmmAssumption DEF Init, Fields, Spaces, Stages
<1>2. InService = {Kernel} /\ nodes[Kernel] = {Extent(First(Kernel), Length(Kernel))}
  BY DEF Init, InService, Spaces
<1>3. First(Kernel) \in Nat /\ Length(Kernel) \in Nat \ {0}
  BY SpaceBounds DEF Spaces
<1>4. FreeRanges
  BY <1>2, <1>3 DEF FreeRanges, Apart, Inside, Extent, Node
<1> QED
  BY <1>1, <1>4 DEF Inv

LEMMA InvAllocPages ==
  ASSUME Inv, NEW s \in Spaces, NEW n \in Sizes, AllocPages(s, n)
  PROVE  Inv'
<1>1. s \in InService
  BY DEF AllocPages, Usable, InService
<1>2. PICK r \in Best(nodes[s], n) : nodes' = [nodes EXCEPT ![s] = (nodes[s] \ {r}) \cup Rest(r, n)]
  BY DEF AllocPages
<1>3. r \in nodes[s] /\ n <= r.size /\ n \in Nat \ {0}
  <2>1. r \in nodes[s] /\ r.size >= n
    BY DEF Best
  <2>2. r \in Node
    BY <1>1, <2>1 DEF Inv, FreeRanges
  <2> QED
    BY <2>1, <2>2, VmmAssumption DEF Node
<1>4. Ranges(nodes[s], First(s), First(s) + Length(s))
  BY <1>1 DEF Inv, FreeRanges, Ranges
<1>5. Ranges((nodes[s] \ {r}) \cup Rest(r, n), First(s), First(s) + Length(s))
  BY <1>3, <1>4, RestRanges, SpaceBounds
<1> QED
  BY <1>1, <1>2, <1>5, OneSpaceChanges DEF AllocPages

LEMMA InvAllocPagesAt ==
  ASSUME Inv, NEW s \in Spaces, NEW n \in Sizes, NEW a \in Pages(s), AllocPagesAt(s, n, a)
  PROVE  Inv'
<1>1. s \in InService
  BY DEF AllocPagesAt, Usable, InService
<1>2. PICK r \in nodes[s] :
        /\ a \in PagesOf(r) /\ a + n <= r.addr + r.size
        /\ nodes' = [nodes EXCEPT ![s] = (nodes[s] \ {r}) \cup Split(r, a, n)]
  BY DEF AllocPagesAt
<1>3. Ranges(nodes[s], First(s), First(s) + Length(s))
  BY <1>1 DEF Inv, FreeRanges, Ranges
<1>4. a \in Nat /\ n \in Nat \ {0} /\ r.addr <= a
  BY <1>2, <1>3, VmmAssumption DEF Ranges, Node, PagesOf
<1>5. Ranges((nodes[s] \ {r}) \cup Split(r, a, n), First(s), First(s) + Length(s))
  BY <1>2, <1>3, <1>4, SplitRanges, SpaceBounds
<1> QED
  BY <1>1, <1>2, <1>5, OneSpaceChanges DEF AllocPagesAt

LEMMA InvFreePages ==
  ASSUME Inv, NEW s \in Spaces, NEW n \in Sizes, NEW a \in Pages(s), FreePages(s, n, a)
  PROVE  Inv'
<1>1. s \in InService
  BY DEF FreePages, Usable, InService
<1>2. Ranges(nodes[s], First(s), First(s) + Length(s))
  BY <1>1 DEF Inv, FreeRanges, Ranges
<1>3. First(s) \in Nat /\ Length(s) \in Nat \ {0} /\ n \in Nat \ {0}
  BY SpaceBounds, VmmAssumption
<1>4. a \in Nat /\ First(s) <= a
  BY <1>3 DEF Pages
<1>5. a .. a + n - 1 \subseteq Pages(s) /\ (a .. a + n - 1) \cap Covered(nodes[s]) = {}
  BY DEF FreePages, Allocated
<1>6. a + n <= First(s) + Length(s)
  <2>1. a + n - 1 \in a .. a + n - 1
    BY <1>3, <1>4
  <2> QED
    BY <2>1, <1>3, <1>4, <1>5 DEF Pages
<1>7. \A r \in nodes[s] : a + n <= r.addr \/ r.addr + r.size <= a
  <2> SUFFICES ASSUME NEW r \in nodes[s] PROVE a + n <= r.addr \/ r.addr + r.size <= a
    OBVIOUS
  <2>1. r.addr \in Nat /\ r.size \in Nat \ {0}
    BY <1>2 DEF Ranges, Node
  <2>2. (a .. a + n - 1) \cap (r.addr .. r.addr + r.size - 1) = {}
    BY <1>5 DEF Covered, PagesOf
  <2> QED
    BY <2>1, <2>2, <1>3, <1>4, DisjointRuns
<1>8. Ranges(Supply(nodes[s], Extent(a, n)), First(s), First(s) + Length(s))
  BY <1>2, <1>3, <1>4, <1>6, <1>7, SupplyRanges
<1> QED
  BY <1>1, <1>8, OneSpaceChanges DEF FreePages

LEMMA InvSupplySpace ==
  ASSUME Inv, NEW p \in Procs, SupplySpace(p)
  PROVE  Inv'
<1> DEFINE whole == Extent(First(p), Length(p))
<1>1. nodes[p] = {} /\ p \in Spaces /\ p \notin InService
  BY VmmAssumption DEF Inv, Fields, SupplySpace, Spaces, InService
<1>2. Supply({}, whole) = {whole}
  <2>1. Join(whole, whole) = whole
    BY SpaceBounds, <1>1 DEF Join, Extent
  <2> QED
    BY <2>1 DEF Supply, FrontNode, BackNode, OrElse
<1>3. nodes' = [nodes EXCEPT ![p] = {whole}]
  BY <1>1, <1>2 DEF SupplySpace
<1>4. nodes'[p] = {whole} /\ \A x \in Spaces \ {p} : nodes'[x] = nodes[x]
  BY <1>1, <1>3 DEF Inv, Fields
<1>5. stage' = [stage EXCEPT ![p] = "live"] /\ InService' = InService \cup {p}
  BY DEF SupplySpace, InService, Inv, Fields
<1>6. Fields'
  BY <1>1, <1>3, <1>4, <1>5 DEF Inv, Fields, Spaces, Stages
<1>7. Ranges({whole}, First(p), First(p) + Length(p))
  BY SpaceBounds, <1>1 DEF Ranges, Apart, Inside, Extent, Node
<1>8. FreeRanges'
  BY <1>4, <1>5, <1>7 DEF Inv, FreeRanges, Ranges, InService, Spaces, First, Length
<1> QED
  BY <1>6, <1>8 DEF Inv

(* The actions that no space in service has its list changed by.           *)
LEMMA InvOthers ==
  ASSUME Inv, NEW p \in Procs,
         InitSpace(p) \/ FreeSpace(p) \/ LeaveSpace(p) \/ TermSpace(p)
  PROVE  Inv'
<1>1. /\ \A x \in InService' : x \in InService /\ nodes'[x] = nodes[x]
      /\ Fields'
  <2> USE VmmAssumption DEF Inv, Fields, InService, Spaces, Stages
  <2>1. CASE InitSpace(p)
    BY <2>1 DEF InitSpace
  <2>2. CASE FreeSpace(p)
    BY <2>2 DEF FreeSpace
  <2>3. CASE LeaveSpace(p)
    BY <2>3 DEF LeaveSpace
  <2>4. CASE TermSpace(p)
    BY <2>4 DEF TermSpace
  <2> QED
    BY <2>1, <2>2, <2>3, <2>4
<1> QED
  BY <1>1 DEF Inv, FreeRanges, First, Length

(* The free ranges of every VMM in service lie in its space, do not        *)
(* overlap and do not touch: vmmSupply joins what it can join.             *)
THEOREM VmmFreeRanges == Spec => []FreeRanges
<1>1. Init => Inv
  BY InvInit
<1>2. Inv /\ [Next]_vars => Inv'
  <2> SUFFICES ASSUME Inv, [Next]_vars PROVE Inv'
    OBVIOUS
  <2>1. CASE \E s \in Spaces, n \in Sizes : AllocPages(s, n)
    BY <2>1, InvAllocPages
  <2>2. CASE \E s \in Spaces, n \in Sizes : \E a \in Pages(s) : AllocPagesAt(s, n, a)
    BY <2>2, InvAllocPagesAt
  <2>3. CASE \E s \in Spaces, n \in Sizes : \E a \in Pages(s) : FreePages(s, n, a)
    BY <2>3, InvFreePages
  <2>4. CASE \E p \in Procs : SupplySpace(p)
    BY <2>4, InvSupplySpace
  <2>5. CASE \E p \in Procs : InitSpace(p) \/ FreeSpace(p) \/ LeaveSpace(p) \/ TermSpace(p)
    BY <2>5, InvOthers
  <2>6. CASE UNCHANGED <<nodes, stage>>
    BY <2>6 DEF Inv, Fields, FreeRanges, InService
  <2>7. CASE \E s \in Spaces : Switch(s)
    BY <2>7, <2>6 DEF Switch
  <2>8. CASE UNCHANGED vars
    BY <2>8, <2>6 DEF vars
  <2> QED
    BY <2>1, <2>2, <2>3, <2>4, <2>5, <2>7, <2>8 DEF Next
<1>3. Inv => FreeRanges
  BY DEF Inv
<1> QED
  BY <1>1, <1>2, <1>3, PTL DEF Spec
-----------------------------------------------------------------------------
(* Pages and page tables: the table of a page, its place there, and back.  *)
Start(i) == i * PtEntries

LEMMA Division ==
  ASSUME NEW page \in Nat
  PROVE /\ PdIndex(page) \in Nat /\ PtIndex(page) \in 0 .. PtEntries - 1
        /\ page = Start(PdIndex(page)) + PtIndex(page)
<1>1. PtEntries \in Nat /\ PtEntries > 0
  BY VmmAssumption
<1> QED
  BY <1>1 DEF PdIndex, PtIndex, Start

LEMMA Starts ==
  ASSUME NEW i \in Nat
  PROVE /\ Start(i) \in Nat /\ Start(i + 1) = Start(i) + PtEntries
        /\ \A j \in 0 .. PtEntries - 1 : PdIndex(Start(i) + j) = i /\ PtIndex(Start(i) + j) = j
<1>1. PtEntries \in Nat /\ PtEntries > 0
  BY VmmAssumption
<1>2. Start(i) \in Nat
  BY <1>1 DEF Start
<1>3. Start(i + 1) = Start(i) + PtEntries
  BY <1>1 DEF Start
<1>4. ASSUME NEW j \in 0 .. PtEntries - 1 PROVE PdIndex(Start(i) + j) = i /\ PtIndex(Start(i) + j) = j
  BY <1>1 DEF PdIndex, PtIndex, Start
<1> QED
  BY <1>2, <1>3, <1>4

LEMMA StartsOrder ==
  ASSUME NEW i \in Nat, NEW k \in Nat
  PROVE /\ i <= k => Start(i) <= Start(k)
        /\ i < k => Start(i) + PtEntries <= Start(k)
<1>1. PtEntries \in Nat /\ PtEntries > 0
  BY VmmAssumption
<1> QED
  BY <1>1 DEF Start

(* A space consists of whole tables, which no other space has at the same  *)
(* places of a directory, but that processes share theirs.                 *)
LeastTable(s) == IF s = Kernel THEN ProcTables ELSE 0
PastTable(s)  == IF s = Kernel THEN ProcTables + KernelTables ELSE ProcTables

LEMMA SpaceIs ==
  ASSUME NEW s \in Spaces
  PROVE  /\ LeastTable(s) \in Nat /\ PastTable(s) \in Nat /\ LeastTable(s) < PastTable(s)
         /\ First(s) = Start(LeastTable(s)) /\ First(s) + Length(s) = Start(PastTable(s))
         /\ First(s) \in Nat /\ Length(s) \in Nat \ {0}
         /\ Pages(s) \subseteq Nat
         /\ Own(s) = LeastTable(s) .. PastTable(s) - 1
         /\ Own(s) \subseteq Tables /\ Tables \subseteq Nat
         /\ \A page \in Pages(s) : PdIndex(page) \in Own(s)
         /\ \A i \in Own(s), j \in 0 .. PtEntries - 1 : Start(i) + j \in Pages(s)
<1>1. /\ PtEntries \in Nat \ {0} /\ ProcTables \in Nat \ {0} /\ KernelTables \in Nat \ {0}
  BY VmmAssumption
<1>2. LeastTable(s) \in Nat /\ PastTable(s) \in Nat /\ LeastTable(s) < PastTable(s)
  BY <1>1 DEF LeastTable, PastTable
<1>3. First(s) = Start(LeastTable(s)) /\ First(s) + Length(s) = Start(PastTable(s))
  BY <1>1 DEF First, Length, Start, LeastTable, PastTable
<1>4. First(s) \in Nat /\ Length(s) \in Nat \ {0}
  BY SpaceBounds
<1>5. Pages(s) = Start(LeastTable(s)) .. Start(PastTable(s)) - 1
  BY <1>3, <1>4 DEF Pages
<1>6. Start(LeastTable(s)) \in Nat /\ Start(PastTable(s)) \in Nat
  BY <1>3, <1>4
<1>7. ASSUME NEW page \in Pages(s)
      PROVE  page \in Nat /\ PdIndex(page) \in LeastTable(s) .. PastTable(s) - 1
  <2>1. page \in Nat /\ Start(LeastTable(s)) <= page /\ page < Start(PastTable(s))
    BY <1>5, <1>6
  <2> DEFINE i == PdIndex(page)
             j == PtIndex(page)
  <2>2. i \in Nat /\ j \in 0 .. PtEntries - 1 /\ page = Start(i) + j
    BY <2>1, Division
  <2> HIDE DEF i, j
  <2>3. Start(i) \in Nat
    BY <2>2, Starts
  <2>4. ~(i < LeastTable(s))
    BY <1>1, <1>2, <1>6, <2>1, <2>2, <2>3, StartsOrder
  <2>5. ~(PastTable(s) <= i)
    BY <1>1, <1>2, <1>6, <2>1, <2>2, <2>3, StartsOrder
  <2> QED
    BY <1>2, <2>1, <2>2, <2>4, <2>5 DEF i
<1>8. ASSUME NEW i \in LeastTable(s) .. PastTable(s) - 1, NEW j \in 0 .. PtEntries - 1
      PROVE  Start(i) + j \in Pages(s) /\ PdIndex(Start(i) + j) = i
  <2>1. i \in Nat /\ LeastTable(s) <= i /\ i < PastTable(s)
    BY <1>2
  <2>2. /\ Start(i) \in Nat /\ Start(LeastTable(s)) <= Start(i)
        /\ Start(i) + PtEntries <= Start(PastTable(s)) /\ PdIndex(Start(i) + j) = i
    BY <1>2, <2>1, Starts, StartsOrder
  <2> QED
    BY <1>1, <1>5, <1>6, <2>2
<1>9. Own(s) = LeastTable(s) .. PastTable(s) - 1
  <2>1. ASSUME NEW i \in LeastTable(s) .. PastTable(s) - 1 PROVE i \in Own(s)
    <3>1. 0 \in 0 .. PtEntries - 1
      BY <1>1
    <3> QED
      BY <1>8, <3>1 DEF Own
  <2> QED
    BY <1>7, <2>1 DEF Own
<1>10. LeastTable(s) .. PastTable(s) - 1 \subseteq Tables /\ Tables \subseteq Nat
  BY <1>1 DEF LeastTable, PastTable, Tables
<1> QED
  BY <1>2, <1>3, <1>4, <1>7, <1>8, <1>9, <1>10

LEMMA TablesFinite ==
  IsFiniteSet(Tables) /\ Cardinality(Tables) = ProcTables + KernelTables
<1>1. ProcTables \in Nat \ {0} /\ KernelTables \in Nat \ {0}
  BY VmmAssumption
<1>2. /\ IsFiniteSet(0 .. ProcTables + KernelTables - 1)
      /\ Cardinality(0 .. ProcTables + KernelTables - 1)
           = (IF 0 > ProcTables + KernelTables - 1 THEN 0 ELSE (ProcTables + KernelTables - 1) - 0 + 1)
  <2> DEFINE top == ProcTables + KernelTables - 1
  <2>1. top \in Int
    BY <1>1
  <2> HIDE DEF top
  <2>2. IsFiniteSet(0 .. top) /\ Cardinality(0 .. top) = (IF 0 > top THEN 0 ELSE top - 0 + 1)
    BY <2>1, FS_Interval
  <2> QED
    BY <2>2 DEF top
<1> QED
  BY <1>1, <1>2 DEF Tables

LEMMA OwnApart ==
  ASSUME NEW s \in Spaces, NEW i \in Own(s)
  PROVE  s = Kernel <=> i \in KernelEntries
<1>1. /\ ProcTables \in Nat \ {0} /\ KernelTables \in Nat \ {0}
  BY VmmAssumption
<1>2. i \in LeastTable(s) .. PastTable(s) - 1
  BY SpaceIs
<1> QED
  BY <1>1, <1>2 DEF LeastTable, PastTable, KernelEntries

LEMMA MinIn ==
  ASSUME NEW S \in SUBSET Nat, S # {}
  PROVE  Min(S) \in S /\ \A y \in S : Min(S) <= y
<1>1. PICK m \in S : \A y \in S : m <= y
  BY LeastNumber
<1> QED
  BY <1>1 DEF Min

LEMMA AllocIs ==
  ASSUME NEW F \in SUBSET Frames
  PROVE  F # {} => AllocPageFrame(F) \in F
BY VmmAssumption, MinIn DEF AllocPageFrame

-----------------------------------------------------------------------------
(* The uses a frame can have, as keys, and the values V of the keys: a     *)
(* frame, or something else where there is none.  F are the free frames.   *)
KeysOf(s) == {<<"directory", s, 0>>} \cup {<<"table", s, i>> : i \in Own(s)}
                                    \cup {<<"page", s, page>> : page \in Pages(s)}
Keys == UNION {KeysOf(s) : s \in Spaces}

Once(F, V) ==
  /\ \A k, l \in Keys : V[k] = V[l] /\ V[k] \in Frames => k = l
  /\ \A f \in Frames : f \in F <=> \A k \in Keys : V[k] # f

LEMMA OnceTake ==
  ASSUME NEW F, NEW V, NEW W, Once(F, V), NEW x \in Keys, V[x] \notin Frames,
         NEW f \in F, f \in Frames, W[x] = f, \A k \in Keys \ {x} : W[k] = V[k]
  PROVE  Once(F \ {f}, W)
<1>1. \A k \in Keys : V[k] # f
  BY DEF Once
<1>2. \A k, l \in Keys : W[k] = W[l] /\ W[k] \in Frames => k = l
  BY <1>1 DEF Once
<1>3. ASSUME NEW g \in Frames PROVE g \in F \ {f} <=> \A k \in Keys : W[k] # g
  BY <1>1 DEF Once
<1> QED
  BY <1>2, <1>3 DEF Once

LEMMA OnceGive ==
  ASSUME NEW F, NEW V, NEW W, Once(F, V), NEW X \in SUBSET Keys,
         \A k \in X : W[k] \notin Frames, \A k \in Keys \ X : W[k] = V[k]
  PROVE  Once(F \cup ({V[k] : k \in X} \cap Frames), W)
<1>1. \A k, l \in Keys : W[k] = W[l] /\ W[k] \in Frames => k = l
  BY DEF Once
<1>2. ASSUME NEW g \in Frames
      PROVE  g \in F \cup ({V[k] : k \in X} \cap Frames) <=> \A k \in Keys : W[k] # g
  <2>1. CASE \E k \in X : V[k] = g
    <3>1. PICK x \in X : V[x] = g
      BY <2>1
    <3>2. ASSUME NEW k \in Keys PROVE W[k] # g
      BY <3>1 DEF Once
    <3> QED
      BY <3>1, <3>2
  <2>2. CASE ~\E k \in X : V[k] = g
    <3>1. g \in F <=> \A k \in Keys : V[k] # g
      BY DEF Once
    <3> QED
      BY <2>2, <3>1
  <2> QED
    BY <2>1, <2>2
<1> QED
  BY <1>1, <1>2 DEF Once

LEMMA OnceSame ==
  ASSUME NEW F, NEW V, NEW W, Once(F, V), \A k \in Keys : W[k] = V[k]
  PROVE  Once(F, W)
BY DEF Once

(* The values for the directories D, of which L is loaded, the contents T  *)
(* of the frames and the frames pd of the directories.                     *)
Through(g, T, j) == IF g = Absent THEN Absent ELSE T[g][j]
Leading(D, L, s) == D[IF s = Kernel THEN L ELSE s]

Val(D, T, pd, L) ==
  [k \in Keys |->
     IF k[1] = "directory" THEN pd[k[2]]
     ELSE IF k[1] = "table" THEN Leading(D, L, k[2])[k[3]]
     ELSE Through(Leading(D, L, k[2])[PdIndex(k[3])], T, PtIndex(k[3]))]

LEMMA KeyKinds ==
  /\ \A s \in Spaces : /\ <<"directory", s, 0>> \in Keys
                       /\ \A i \in Own(s) : <<"table", s, i>> \in Keys
                       /\ \A page \in Pages(s) : <<"page", s, page>> \in Keys
  /\ \A k \in Keys : \E s \in Spaces : \/ k = <<"directory", s, 0>>
                                       \/ \E i \in Own(s) : k = <<"table", s, i>>
                                       \/ \E page \in Pages(s) : k = <<"page", s, page>>
BY DEF Keys, KeysOf

LEMMA ValIs ==
  ASSUME NEW D, NEW T, NEW pd, NEW L, NEW s \in Spaces
  PROVE  Val(D, T, pd, L)[<<"directory", s, 0>>] = pd[s]
BY KeyKinds DEF Val

LEMMA ValOfTable ==
  ASSUME NEW D, NEW T, NEW pd, NEW L, NEW s \in Spaces, NEW i \in Own(s)
  PROVE  Val(D, T, pd, L)[<<"table", s, i>>] = Leading(D, L, s)[i]
<1>1. <<"table", s, i>> \in Keys
  BY KeyKinds
<1> QED
  BY <1>1 DEF Val

LEMMA ValOfPage ==
  ASSUME NEW D, NEW T, NEW pd, NEW L, NEW s \in Spaces, NEW page \in Pages(s)
  PROVE  Val(D, T, pd, L)[<<"page", s, page>>]
           = Through(Leading(D, L, s)[PdIndex(page)], T, PtIndex(page))
<1>1. <<"page", s, page>> \in Keys
  BY KeyKinds
<1> QED
  BY <1>1 DEF Val

(* FramesOnce, which counts, says that the values are used once.           *)
Now == Val(directory, tables, pdFrame, loaded)

LEMMA NowIs ==
  ASSUME NEW s \in Spaces
  PROVE  /\ Now[<<"directory", s, 0>>] = pdFrame[s]
         /\ \A i \in Own(s) : Now[<<"table", s, i>>] = Entry(s, i)
         /\ \A page \in Pages(s) : Now[<<"page", s, page>>] = Frame(s, page)
<1>1. ASSUME NEW i \in Own(s) PROVE Now[<<"table", s, i>>] = Entry(s, i)
  <2>1. Val(directory, tables, pdFrame, loaded)[<<"table", s, i>>] = Leading(directory, loaded, s)[i]
    BY ValOfTable
  <2>2. Entry(s, i) = Leading(directory, loaded, s)[i]
    BY DEF Entry, Leading
  <2> QED
    BY <2>1, <2>2 DEF Now
<1>2. ASSUME NEW page \in Pages(s) PROVE Now[<<"page", s, page>>] = Frame(s, page)
  <2>1. Val(directory, tables, pdFrame, loaded)[<<"page", s, page>>]
          = Through(Leading(directory, loaded, s)[PdIndex(page)], tables, PtIndex(page))
    BY ValOfPage
  <2>2. Frame(s, page) = Through(Leading(directory, loaded, s)[PdIndex(page)], tables, PtIndex(page))
    BY DEF Frame, Through, Entry, Leading
  <2> QED
    BY <2>1, <2>2 DEF Now
<1>3. Now[<<"directory", s, 0>>] = pdFrame[s]
  BY ValIs DEF Now
<1> QED
  BY <1>1, <1>2, <1>3

LEMMA UsesAre ==
  /\ \A k \in Keys : <<k[1], k[2], k[3], Now[k]>> \in Uses
  /\ \A u \in Uses : \E k \in Keys : u = <<k[1], k[2], k[3], Now[k]>>
<1>1. ASSUME NEW k \in Keys PROVE <<k[1], k[2], k[3], Now[k]>> \in Uses
  <2>1. PICK s \in Spaces : \/ k = <<"directory", s, 0>>
                            \/ \E i \in Own(s) : k = <<"table", s, i>>
                            \/ \E page \in Pages(s) : k = <<"page", s, page>>
    BY KeyKinds
  <2>2. UsesOf(s) \subseteq Uses
    BY DEF Uses
  <2>3. <<k[1], k[2], k[3], Now[k]>> \in UsesOf(s)
    <3>1. CASE k = <<"directory", s, 0>>
      BY <3>1, NowIs DEF UsesOf
    <3>2. CASE \E i \in Own(s) : k = <<"table", s, i>>
      <4>1. PICK i \in Own(s) : k = <<"table", s, i>>
        BY <3>2
      <4>2. <<k[1], k[2], k[3], Now[k]>> = <<"table", s, i, Entry(s, i)>>
        BY <4>1, NowIs
      <4> QED
        BY <4>2 DEF UsesOf
    <3>3. CASE \E page \in Pages(s) : k = <<"page", s, page>>
      <4>1. PICK page \in Pages(s) : k = <<"page", s, page>>
        BY <3>3
      <4>2. <<k[1], k[2], k[3], Now[k]>> = <<"page", s, page, Frame(s, page)>>
        BY <4>1, NowIs
      <4> QED
        BY <4>2 DEF UsesOf
    <3> QED
      BY <2>1, <3>1, <3>2, <3>3
  <2> QED
    BY <2>2, <2>3
<1>2. ASSUME NEW u \in Uses PROVE \E k \in Keys : u = <<k[1], k[2], k[3], Now[k]>>
  <2>1. PICK s \in Spaces : u \in UsesOf(s)
    BY DEF Uses
  <2>2. CASE u = <<"directory", s, 0, pdFrame[s]>>
    <3>1. <<"directory", s, 0>> \in Keys /\ Now[<<"directory", s, 0>>] = pdFrame[s]
      BY KeyKinds, NowIs
    <3> QED
      BY <2>2, <3>1
  <2>3. CASE \E i \in Own(s) : u = <<"table", s, i, Entry(s, i)>>
    <3>1. PICK i \in Own(s) : u = <<"table", s, i, Entry(s, i)>>
      BY <2>3
    <3>2. <<"table", s, i>> \in Keys /\ Now[<<"table", s, i>>] = Entry(s, i)
      BY KeyKinds, NowIs
    <3> QED
      BY <3>1, <3>2
  <2>4. CASE \E page \in Pages(s) : u = <<"page", s, page, Frame(s, page)>>
    <3>1. PICK page \in Pages(s) : u = <<"page", s, page, Frame(s, page)>>
      BY <2>4
    <3>2. <<"page", s, page>> \in Keys /\ Now[<<"page", s, page>>] = Frame(s, page)
      BY KeyKinds, NowIs
    <3> QED
      BY <3>1, <3>2
  <2> QED
    BY <2>1, <2>2, <2>3, <2>4 DEF UsesOf
<1> QED
  BY <1>1, <1>2

LEMMA OnceCounts ==
  ASSUME Once(free, Now), NEW f \in Frames
  PROVE  Cardinality({u \in Uses : u[4] = f}) = IF f \in free THEN 0 ELSE 1
<1> DEFINE U == {u \in Uses : u[4] = f}
<1> HIDE DEF U
<1>1. CASE f \in free
  <2>1. U = {}
    BY <1>1, UsesAre DEF Once, U
  <2> QED
    BY <1>1, <2>1, FS_EmptySet DEF U
<1>2. CASE f \notin free
  <2>1. PICK k \in Keys : Now[k] = f
    BY <1>2 DEF Once
  <2>2. \A l \in Keys : Now[l] = f => l = k
    BY <2>1 DEF Once
  <2>3. U = {<<k[1], k[2], k[3], f>>}
    <3>1. <<k[1], k[2], k[3], f>> \in U
      BY <2>1, UsesAre DEF U
    <3>2. \A u \in U : u = <<k[1], k[2], k[3], f>>
      BY <2>2, UsesAre DEF U
    <3> QED
      BY <3>1, <3>2
  <2> QED
    BY <1>2, <2>3, FS_Singleton DEF U
<1> QED
  BY <1>1, <1>2 DEF U

-----------------------------------------------------------------------------
(* Mappings: the values once m is installed, and what the directory of s   *)
(* is then.  Only the kernel's pages and those of the space whose          *)
(* directory is loaded are reached through the mapping.                    *)
Entered == [0 .. PtEntries - 1 -> Frames \cup {Absent}]
MapSet == [free : SUBSET Frames, dir : [Tables -> Frames \cup {Absent}],
           tables : [Frames \cup {0} -> Entered]]
Owners == directory \in [Spaces -> [Tables -> Frames \cup {Absent}]] /\ loaded \in Spaces
Here == {Kernel, loaded}

V(m) == Val([directory EXCEPT ![loaded] = m.dir], m.tables, pdFrame, loaded)
Dir(m, s) == IF s \in Here THEN m.dir ELSE directory[s]
Good(m) == m \in MapSet /\ Once(m.free, V(m))

LEMMA LeadingIs ==
  ASSUME Owners, NEW m, NEW s \in Spaces
  PROVE  Leading([directory EXCEPT ![loaded] = m.dir], loaded, s) = Dir(m, s)
BY DEF Leading, Dir, Owners, Here

LEMMA DirectoryVal ==
  ASSUME NEW m, NEW s \in Spaces
  PROVE  V(m)[<<"directory", s, 0>>] = pdFrame[s]
BY ValIs DEF V

LEMMA TableVal ==
  ASSUME Owners, NEW m, NEW s \in Spaces, NEW i \in Own(s)
  PROVE  <<"table", s, i>> \in Keys /\ V(m)[<<"table", s, i>>] = Dir(m, s)[i]
<1> DEFINE D == [directory EXCEPT ![loaded] = m.dir]
<1>1. Leading(D, loaded, s) = Dir(m, s)
  BY LeadingIs
<1> HIDE DEF D
<1>2. Val(D, m.tables, pdFrame, loaded)[<<"table", s, i>>] = Leading(D, loaded, s)[i]
  BY ValOfTable
<1>3. V(m) = Val(D, m.tables, pdFrame, loaded)
  BY DEF V, D
<1> QED
  BY <1>1, <1>2, <1>3, KeyKinds

LEMMA PageVal ==
  ASSUME Owners, NEW m, NEW s \in Spaces, NEW page \in Pages(s)
  PROVE  /\ <<"page", s, page>> \in Keys
         /\ V(m)[<<"page", s, page>>] = Through(Dir(m, s)[PdIndex(page)], m.tables, PtIndex(page))
<1> DEFINE D == [directory EXCEPT ![loaded] = m.dir]
<1>1. Leading(D, loaded, s) = Dir(m, s)
  BY LeadingIs
<1> HIDE DEF D
<1>2. Val(D, m.tables, pdFrame, loaded)[<<"page", s, page>>]
        = Through(Leading(D, loaded, s)[PdIndex(page)], m.tables, PtIndex(page))
  BY ValOfPage
<1>3. V(m) = Val(D, m.tables, pdFrame, loaded)
  BY DEF V, D
<1> QED
  BY <1>1, <1>2, <1>3, KeyKinds

(* What an entry of a directory is: a frame that is not free, and no other *)
(* entry is the same.                                                      *)
LEMMA EntryIs ==
  ASSUME Owners, NEW m, Good(m), NEW s \in Spaces, NEW i \in Own(s)
  PROVE  /\ i \in Tables /\ Dir(m, s)[i] \in Frames \cup {Absent}
         /\ Dir(m, s)[i] # Absent => Dir(m, s)[i] \in Frames \ m.free
         /\ \A q \in Spaces : \A j \in Own(q) :
              Dir(m, s)[i] = Dir(m, q)[j] /\ Dir(m, s)[i] # Absent => q = s /\ j = i
<1>1. i \in Tables
  BY SpaceIs
<1>2. Dir(m, s) \in [Tables -> Frames \cup {Absent}]
  BY DEF Dir, Owners, Good, MapSet
<1>3. <<"table", s, i>> \in Keys /\ V(m)[<<"table", s, i>>] = Dir(m, s)[i]
  BY TableVal
<1>4. Dir(m, s)[i] # Absent => Dir(m, s)[i] \in Frames \ m.free
  BY <1>1, <1>2, <1>3 DEF Good, Once
<1>5. ASSUME NEW q \in Spaces, NEW j \in Own(q), Dir(m, s)[i] = Dir(m, q)[j], Dir(m, s)[i] # Absent
      PROVE  q = s /\ j = i
  <2>1. <<"table", q, j>> = <<"table", s, i>>
    <3>1. <<"table", q, j>> \in Keys /\ V(m)[<<"table", q, j>>] = V(m)[<<"table", s, i>>]
      BY <1>3, <1>5, TableVal
    <3>2. V(m)[<<"table", s, i>>] \in Frames
      BY <1>3, <1>4, <1>5
    <3> QED
      BY <1>3, <3>1, <3>2 DEF Good, Once
  <2> QED
    BY <2>1
<1> QED
  BY <1>1, <1>2, <1>4, <1>5

(* A page table of kernel space is not one of process space, so that an    *)
(* entry that changes is one space's.                                      *)
LEMMA OneSpace ==
  ASSUME Owners, NEW s \in Here, NEW i \in Own(s), NEW q \in Here, i \in Own(q)
  PROVE  q = s
<1>1. s \in Spaces /\ q \in Spaces
  BY DEF Here, Owners, Spaces
<1> QED
  BY <1>1, OwnApart DEF Here

(* From m to x a table, or a page, gets a frame.                           *)
TableAdded(m, s, i, x) ==
  /\ Good(x) /\ x.dir[i] \in m.free /\ x.free = m.free \ {x.dir[i]}
  /\ \A j \in Tables \ {i} : x.dir[j] = m.dir[j]
  /\ \A k \in Keys \ {<<"table", s, i>>} : V(x)[k] = V(m)[k]

PageEntered(m, s, page, x) ==
  /\ Good(x) /\ x.dir = m.dir
  /\ V(x)[<<"page", s, page>>] \in m.free /\ x.free = m.free \ {V(x)[<<"page", s, page>>]}
  /\ \A k \in Keys \ {<<"page", s, page>>} : V(x)[k] = V(m)[k]

LEMMA WithTableDoes ==
  ASSUME Owners, NEW m, Good(m), NEW s \in Here, NEW page \in Pages(s),
         m.dir[PdIndex(page)] = Absent, m.free # {}
  PROVE  TableAdded(m, s, PdIndex(page), WithTable(m, page))
<1> DEFINE i == PdIndex(page)
           f == AllocPageFrame(m.free)
           x == WithTable(m, page)
<1>1. s \in Spaces /\ i \in Own(s) /\ i \in Tables
  BY SpaceIs DEF Here, Owners, Spaces
<1>2. m \in MapSet /\ m.free \subseteq Frames
  BY DEF Good, MapSet
<1>3. f \in m.free /\ f \in Frames
  BY <1>2, AllocIs
<1>4. EmptyTable \in Entered /\ \A j \in 0 .. PtEntries - 1 : EmptyTable[j] = Absent
  BY DEF EmptyTable, Entered
<1> HIDE DEF i, f
<1>5. x = [free |-> m.free \ {f}, dir |-> [m.dir EXCEPT ![i] = f],
           tables |-> [m.tables EXCEPT ![f] = EmptyTable]]
  BY <1>2 DEF WithTable, TakeFrame, MapSet, i, f
<1>6. /\ x \in MapSet /\ x.free = m.free \ {f} /\ x.dir[i] = f
      /\ \A j \in Tables \ {i} : x.dir[j] = m.dir[j]
      /\ x.tables[f] = EmptyTable /\ \A g \in Frames \ {f} : x.tables[g] = m.tables[g]
  BY <1>1, <1>2, <1>3, <1>4, <1>5 DEF MapSet
<1> HIDE DEF x
<1>7. ASSUME NEW q \in Spaces, NEW j \in Own(q), j # i \/ q # s PROVE Dir(x, q)[j] = Dir(m, q)[j]
  <2>1. j \in Tables
    BY SpaceIs
  <2>2. q \in Here => j # i
    BY <1>1, <1>7, OneSpace
  <2> QED
    BY <1>6, <2>1, <2>2 DEF Dir
<1>8. ASSUME NEW q \in Spaces, NEW p \in Pages(q)
      PROVE  V(x)[<<"page", q, p>>] = V(m)[<<"page", q, p>>]
  <2> DEFINE j == PdIndex(p)
             g == Dir(m, q)[j]
  <2>1. j \in Own(q) /\ PtIndex(p) \in 0 .. PtEntries - 1
    BY SpaceIs, Division
  <2>2. /\ V(x)[<<"page", q, p>>] = Through(Dir(x, q)[j], x.tables, PtIndex(p))
        /\ V(m)[<<"page", q, p>>] = Through(g, m.tables, PtIndex(p))
    BY PageVal
  <2>3. g # Absent => g \in Frames \ m.free
    BY <2>1, EntryIs
  <2> HIDE DEF j, g
  <2>4. CASE j = i /\ q = s
    <3>1. g = Absent /\ Dir(x, q)[j] = f
      BY <1>6, <2>4 DEF Dir, g, i
    <3>2. f # Absent
      BY <1>3, VmmAssumption
    <3> QED
      BY <1>4, <1>6, <2>1, <2>2, <3>1, <3>2 DEF Through
  <2>5. CASE j # i \/ q # s
    <3>1. Dir(x, q)[j] = g
      BY <1>7, <2>1, <2>5 DEF g
    <3> QED
      BY <1>3, <1>6, <2>2, <2>3, <3>1 DEF Through
  <2> QED
    BY <2>4, <2>5
<1>9. ASSUME NEW k \in Keys \ {<<"table", s, i>>} PROVE V(x)[k] = V(m)[k]
  <2>1. PICK q \in Spaces : \/ k = <<"directory", q, 0>>
                            \/ \E j \in Own(q) : k = <<"table", q, j>>
                            \/ \E p \in Pages(q) : k = <<"page", q, p>>
    BY KeyKinds
  <2>2. CASE k = <<"directory", q, 0>>
    BY <2>2, DirectoryVal
  <2>3. CASE \E j \in Own(q) : k = <<"table", q, j>>
    <3>1. PICK j \in Own(q) : k = <<"table", q, j>>
      BY <2>3
    <3>2. j # i \/ q # s
      BY <1>9, <3>1
    <3> QED
      BY <1>7, <3>1, <3>2, TableVal
  <2>4. CASE \E p \in Pages(q) : k = <<"page", q, p>>
    BY <1>8, <2>4
  <2> QED
    BY <2>1, <2>2, <2>3, <2>4
<1>10. V(x)[<<"table", s, i>>] = f /\ V(m)[<<"table", s, i>>] = Absent
  <2>1. V(x)[<<"table", s, i>>] = Dir(x, s)[i] /\ V(m)[<<"table", s, i>>] = Dir(m, s)[i]
    BY <1>1, TableVal
  <2> QED
    BY <1>6, <2>1 DEF Dir, i
<1>11. Once(x.free, V(x))
  <2>1. Once(m.free, V(m)) /\ <<"table", s, i>> \in Keys /\ Absent \notin Frames
    BY <1>1, KeyKinds, VmmAssumption DEF Good
  <2>2. Once(m.free \ {f}, V(x))
    BY <1>3, <1>9, <1>10, <2>1, OnceTake
  <2> QED
    BY <1>6, <2>2
<1> QED
  BY <1>3, <1>6, <1>9, <1>11 DEF Good, TableAdded, x, i

LEMMA EnterDoes ==
  ASSUME Owners, NEW m, Good(m), NEW s \in Here, NEW page \in Pages(s),
         m.dir[PdIndex(page)] # Absent, m.free # {},
         V(m)[<<"page", s, page>>] \notin Frames
  PROVE  PageEntered(m, s, page, Enter(m, page))
<1> DEFINE i == PdIndex(page)
           r == PtIndex(page)
           g == m.dir[i]
           f == AllocPageFrame(m.free)
           x == Enter(m, page)
           t == [m.tables[g] EXCEPT ![r] = f]
<1>1. s \in Spaces /\ i \in Own(s) /\ i \in Tables /\ page \in Nat /\ r \in 0 .. PtEntries - 1
  <2>1. s \in Spaces
    BY DEF Here, Owners, Spaces
  <2> QED
    BY <2>1, SpaceIs, Division
<1>2. m \in MapSet /\ m.free \subseteq Frames
  BY DEF Good, MapSet
<1>3. f \in m.free /\ f \in Frames
  BY <1>2, AllocIs
<1>4. g \in Frames /\ Dir(m, s)[i] = g /\ g # Absent
  BY <1>1, <1>2 DEF Dir, MapSet
<1>5. /\ t \in Entered /\ t[r] = f
      /\ \A j \in 0 .. PtEntries - 1 : j # r => t[j] = m.tables[g][j]
  <2>1. m.tables[g] \in Entered
    BY <1>2, <1>4 DEF MapSet
  <2> QED
    BY <1>1, <1>3, <2>1 DEF Entered
<1>6. x = [free |-> m.free \ {f}, dir |-> m.dir, tables |-> [m.tables EXCEPT ![g] = t]]
  <2>1. m = [free |-> m.free, dir |-> m.dir, tables |-> m.tables]
    BY <1>2 DEF MapSet
  <2>2. TakeFrame(m) = [free |-> m.free \ {f}, dir |-> m.dir, tables |-> m.tables]
    BY <2>1 DEF TakeFrame
  <2>3. x = [TakeFrame(m) EXCEPT !.tables[g][r] = f]
    BY DEF Enter
  <2> HIDE DEF g, r, f, x
  <2> QED
    BY ONLY <2>2, <2>3
<1> HIDE DEF i, r, f, t, g
<1>7. /\ x \in MapSet /\ x.free = m.free \ {f} /\ x.dir = m.dir
      /\ x.tables[g] = t /\ \A h \in Frames \ {g} : x.tables[h] = m.tables[h]
  BY <1>2, <1>3, <1>4, <1>5, <1>6 DEF MapSet
<1> HIDE DEF x
<1>8. \A q : Dir(x, q) = Dir(m, q)
  BY <1>7 DEF Dir
<1>9. ASSUME NEW q \in Spaces, NEW p \in Pages(q), p # page \/ q # s
      PROVE  V(x)[<<"page", q, p>>] = V(m)[<<"page", q, p>>]
  <2> DEFINE j == PdIndex(p)
             h == Dir(m, q)[j]
  <2>1. j \in Own(q) /\ PtIndex(p) \in 0 .. PtEntries - 1 /\ p \in Nat
    BY SpaceIs, Division
  <2>2. V(x)[<<"page", q, p>>] = Through(h, x.tables, PtIndex(p))
    BY <1>8, PageVal
  <2>3. V(m)[<<"page", q, p>>] = Through(h, m.tables, PtIndex(p))
    BY PageVal
  <2>4. h # Absent => h \in Frames
    BY <2>1, EntryIs
  <2>5. h = g => q = s /\ j = i
    BY <1>1, <1>4, <2>1, EntryIs
  <2>6. h = g => PtIndex(p) # r
    <3>1. p = Start(j) + PtIndex(p) /\ page = Start(i) + r
      BY <1>1, <2>1, Division DEF i, r
    <3> QED
      BY <1>9, <2>5, <3>1
  <2> HIDE DEF j, h
  <2> QED
    BY <1>5, <1>7, <2>1, <2>2, <2>3, <2>4, <2>6 DEF Through
<1>10. ASSUME NEW k \in Keys \ {<<"page", s, page>>} PROVE V(x)[k] = V(m)[k]
  <2>1. PICK q \in Spaces : \/ k = <<"directory", q, 0>>
                            \/ \E j \in Own(q) : k = <<"table", q, j>>
                            \/ \E p \in Pages(q) : k = <<"page", q, p>>
    BY KeyKinds
  <2>2. CASE k = <<"directory", q, 0>>
    BY <2>2, DirectoryVal
  <2>3. CASE \E j \in Own(q) : k = <<"table", q, j>>
    BY <1>8, <2>3, TableVal
  <2>4. CASE \E p \in Pages(q) : k = <<"page", q, p>>
    BY <1>9, <1>10, <2>4
  <2> QED
    BY <2>1, <2>2, <2>3, <2>4
<1>11. <<"page", s, page>> \in Keys /\ V(x)[<<"page", s, page>>] = f
  <2>1. <<"page", s, page>> \in Keys
    BY <1>1, PageVal
  <2>2. V(x)[<<"page", s, page>>] = Through(Dir(x, s)[i], x.tables, r)
    BY <1>1, PageVal DEF i, r
  <2> QED
    BY <1>4, <1>5, <1>7, <1>8, <2>1, <2>2 DEF Through
<1>12. Once(x.free, V(x))
  <2>1. Once(m.free, V(m))
    BY DEF Good
  <2>2. Once(m.free \ {f}, V(x))
    BY <1>3, <1>10, <1>11, <2>1, OnceTake
  <2> QED
    BY <1>7, <2>2
<1> QED
  BY <1>3, <1>7, <1>10, <1>11, <1>12 DEF Good, PageEntered, x

(* A page is mapped, and a table for it, if there is none: two frames.     *)
Needed(m) ==
  \A s \in Spaces : \A i \in Own(s) :
    V(m)[<<"table", s, i>>] # Absent =>
      \E page \in Pages(s) : PdIndex(page) = i /\ V(m)[<<"page", s, page>>] # Absent

PageMapped(m, s, page, x) ==
  /\ Good(x) /\ Needed(x)
  /\ x.dir[PdIndex(page)] # Absent
  /\ \A j \in Tables \ {PdIndex(page)} : x.dir[j] = m.dir[j]
  /\ \E f, g \in m.free : x.free = m.free \ {f, g} /\ (m.dir[PdIndex(page)] # Absent => f = g)
  /\ V(x)[<<"page", s, page>>] \in Frames
  /\ \A q \in Spaces : \A p \in Pages(q) : q # s \/ p # page =>
       V(x)[<<"page", q, p>>] = V(m)[<<"page", q, p>>]

LEMMA MapPageDoes ==
  ASSUME Owners, NEW m, Good(m), Needed(m), NEW s \in Here, NEW page \in Pages(s),
         V(m)[<<"page", s, page>>] = Absent,
         m.free # {}, m.dir[PdIndex(page)] = Absent => \A f : m.free # {f}
  PROVE  PageMapped(m, s, page, MapPage(m, page))
<1> DEFINE i == PdIndex(page)
           w == WithTable(m, page)
           x == MapPage(m, page)
<1>1. s \in Spaces /\ i \in Own(s) /\ i \in Tables
  <2>1. s \in Spaces
    BY DEF Here, Owners, Spaces
  <2> QED
    BY <2>1, SpaceIs
<1>2. <<"page", s, page>> \in Keys /\ <<"page", s, page>> # <<"table", s, i>>
  BY <1>1, PageVal
<1>3. m.free \subseteq Frames /\ Absent \notin Frames
  BY VmmAssumption DEF Good, MapSet
<1> HIDE DEF i
<1>4. /\ Good(w) /\ w.dir[i] # Absent /\ w.free # {}
      /\ \A j \in Tables \ {i} : w.dir[j] = m.dir[j]
      /\ \A k \in Keys \ {<<"table", s, i>>} : V(w)[k] = V(m)[k]
      /\ \E f \in m.free : w.free \in {m.free, m.free \ {f}} /\ (m.dir[i] # Absent => w.free = m.free)
  <2>1. CASE m.dir[i] = Absent
    <3>1. /\ Good(w) /\ w.dir[i] \in m.free /\ w.free = m.free \ {w.dir[i]}
          /\ \A j \in Tables \ {i} : w.dir[j] = m.dir[j]
          /\ \A k \in Keys \ {<<"table", s, i>>} : V(w)[k] = V(m)[k]
      <4>1. Owners /\ Good(m) /\ s \in Here /\ page \in Pages(s) /\ m.free # {}
        OBVIOUS
      <4> QED
        BY <2>1, <4>1, WithTableDoes DEF TableAdded, i
    <3>2. w.free # {}
      BY <2>1, <3>1 DEF i
    <3> QED
      BY <1>3, <2>1, <3>1, <3>2
  <2>2. CASE m.dir[i] # Absent
    <3>1. w = m
      BY <2>2 DEF WithTable, i
    <3> QED
      BY <2>2, <3>1
  <2> QED
    BY <2>1, <2>2
<1>5. x = Enter(w, page) /\ x = MapPage(m, page)
  BY DEF MapPage
<1> HIDE DEF w, x
<1>6. /\ Good(x) /\ x.dir = w.dir /\ V(x)[<<"page", s, page>>] \in w.free
      /\ x.free = w.free \ {V(x)[<<"page", s, page>>]}
      /\ \A k \in Keys \ {<<"page", s, page>>} : V(x)[k] = V(w)[k]
  <2>1. V(w)[<<"page", s, page>>] \notin Frames
    BY <1>2, <1>3, <1>4
  <2>2. PageEntered(w, s, page, x)
    <3>1. Owners /\ Good(w) /\ s \in Here /\ page \in Pages(s) /\ w.dir[PdIndex(page)] # Absent /\ w.free # {}
      BY <1>4 DEF i
    <3> QED
      BY ONLY <1>5, <2>1, <3>1, EnterDoes
  <2> QED
    BY <2>2 DEF PageEntered
<1>7. V(x)[<<"page", s, page>>] \in Frames /\ w.free \subseteq m.free
  BY <1>3, <1>4, <1>6
<1>8. \E f, g \in m.free : x.free = m.free \ {f, g} /\ (m.dir[i] # Absent => f = g)
  <2> DEFINE f == V(x)[<<"page", s, page>>]
  <2>1. f \in m.free /\ x.free = w.free \ {f}
    BY <1>6, <1>7
  <2> HIDE DEF f
  <2>2. PICK g \in m.free : w.free \in {m.free, m.free \ {g}} /\ (m.dir[i] # Absent => w.free = m.free)
    BY <1>4
  <2>3. CASE w.free = m.free
    BY <2>1, <2>3
  <2>4. CASE w.free # m.free
    BY <2>1, <2>2, <2>4
  <2> QED
    BY <2>3, <2>4
<1>9. ASSUME NEW q \in Spaces, NEW p \in Pages(q), q # s \/ p # page
      PROVE  V(x)[<<"page", q, p>>] = V(m)[<<"page", q, p>>]
  <2>1. /\ <<"page", q, p>> \in Keys /\ <<"page", q, p>> # <<"table", s, i>>
        /\ <<"page", q, p>> # <<"page", s, page>>
    BY <1>9, PageVal
  <2> QED
    BY <1>4, <1>6, <2>1
<1>10. Needed(x)
  <2> SUFFICES ASSUME NEW q \in Spaces, NEW j \in Own(q), V(x)[<<"table", q, j>>] # Absent
               PROVE  \E p \in Pages(q) : PdIndex(p) = j /\ V(x)[<<"page", q, p>>] # Absent
    BY DEF Needed
  <2>1. CASE q = s /\ j = i
    BY <1>3, <1>7, <2>1 DEF i
  <2>2. CASE q # s \/ j # i
    <3>1. <<"table", q, j>> \in Keys
      BY TableVal
    <3>2. V(m)[<<"table", q, j>>] # Absent
      BY <1>4, <1>6, <2>2, <3>1
    <3>3. PICK p \in Pages(q) : PdIndex(p) = j /\ V(m)[<<"page", q, p>>] # Absent
      BY <3>2 DEF Needed
    <3> QED
      BY <1>9, <2>2, <3>3 DEF i
  <2> QED
    BY <2>1, <2>2
<1> QED
  BY <1>4, <1>6, <1>7, <1>8, <1>9, <1>10, <1>5 DEF PageMapped, i

(* vmmMapPages goes from page to page.                                     *)
MapSteps(m, a, n, h) ==
  /\ h[0] = m /\ MapPages(m, a, n) = h[n]
  /\ \A k \in 1 .. n : h[k] = MapPage(h[k - 1], a + k - 1)

LEMMA MapPagesSteps ==
  ASSUME NEW m, NEW a \in Nat, NEW n \in Nat
  PROVE  \E h : MapSteps(m, a, n, h)
<1> DEFINE Run(k, h) == h = [j \in 0 .. k |-> IF j = 0 THEN m ELSE MapPage(h[j - 1], a + j - 1)]
           S == {k \in Nat : \E h : Run(k, h)}
<1>1. 0 \in S
  <2> DEFINE h == [j \in 0 .. 0 |-> m]
  <2>1. h = [j \in 0 .. 0 |-> IF j = 0 THEN m ELSE MapPage(h[j - 1], a + j - 1)]
    OBVIOUS
  <2> QED
    BY <2>1
<1>2. ASSUME NEW k \in Nat, k \in S PROVE k + 1 \in S
  <2>1. PICK h : Run(k, h)
    BY <1>2
  <2> DEFINE g == [j \in 0 .. k + 1 |-> IF j = k + 1 THEN MapPage(h[k], a + k) ELSE h[j]]
  <2>2. \A j \in 0 .. k : g[j] = h[j]
    OBVIOUS
  <2>3. g[0] = m
    BY <2>1
  <2>4. \A j \in 1 .. k + 1 : g[j] = MapPage(g[j - 1], a + j - 1)
    <3> SUFFICES ASSUME NEW j \in 1 .. k + 1 PROVE g[j] = MapPage(g[j - 1], a + j - 1)
      OBVIOUS
    <3>1. CASE j = k + 1
      <4>1. g[j] = MapPage(h[k], a + k) /\ j - 1 = k /\ a + j - 1 = a + k
        BY <3>1
      <4> QED
        BY <2>2, <4>1
    <3>2. CASE j # k + 1
      <4>1. j \in 1 .. k /\ j - 1 \in 0 .. k
        BY <3>2
      <4>2. h[j] = MapPage(h[j - 1], a + j - 1)
        BY <2>1, <4>1
      <4> QED
        BY <2>2, <4>1, <4>2
    <3> QED
      BY <3>1, <3>2
  <2>5. g = [j \in 0 .. k + 1 |-> g[j]]
    OBVIOUS
  <2> HIDE DEF g
  <2>6. \A j \in 0 .. k + 1 : g[j] = IF j = 0 THEN m ELSE MapPage(g[j - 1], a + j - 1)
    BY <2>3, <2>4
  <2>7. [j \in 0 .. k + 1 |-> g[j]]
          = [j \in 0 .. k + 1 |-> IF j = 0 THEN m ELSE MapPage(g[j - 1], a + j - 1)]
    BY ONLY <2>6
  <2>8. Run(k + 1, g)
    BY ONLY <2>5, <2>7 DEF Run
  <2> QED
    BY <2>8
<1>3. n \in S
  <2> HIDE DEF S
  <2> QED
    BY <1>1, <1>2, SetInduction
<1>4. PICK h : Run(n, h)
  BY <1>3
<1> DEFINE after == CHOOSE h_1 : Run(n, h_1)
<1>5. Run(n, after)
  <2> HIDE DEF Run
  <2> QED
    BY <1>4
<1>6. MapPages(m, a, n) = after[n]
  BY DEF MapPages
<1> HIDE DEF after
<1>7. after[0] = m /\ \A k \in 1 .. n : after[k] = MapPage(after[k - 1], a + k - 1)
  BY <1>5
<1> QED
  BY <1>6, <1>7 DEF MapSteps

(* The tables that are missing for k further pages and those behind them.  *)
Missing(x, a, k, n) == {i \in {PdIndex(page) : page \in a + k .. a + n - 1} : x.dir[i] = Absent}

PagesMapped(m, s, a, k, x) ==
  /\ Good(x) /\ Needed(x)
  /\ \A page \in Pages(s) : page \in a .. a + k - 1 => V(x)[<<"page", s, page>>] \in Frames
  /\ \A q \in Spaces : \A p \in Pages(q) : q # s \/ p \notin a .. a + k - 1 =>
       V(x)[<<"page", q, p>>] = V(m)[<<"page", q, p>>]

Lasts(x, a, k, n) ==
  /\ IsFiniteSet(Missing(x, a, k, n)) /\ IsFiniteSet(x.free)
  /\ n - k + Cardinality(Missing(x, a, k, n)) <= Cardinality(x.free)

LEMMA LastsOn ==
  ASSUME Owners, NEW m, NEW x, NEW s \in Here, NEW a \in Nat, NEW n \in Nat, NEW k \in Nat, k < n,
         a .. a + n - 1 \subseteq Pages(s), Lasts(m, a, k, n),
         PageMapped(m, s, a + k, x)
  PROVE  Lasts(x, a, k + 1, n)
<1> DEFINE i  == PdIndex(a + k)
           M  == Missing(m, a, k, n)
           M2 == Missing(x, a, k + 1, n)
<1>1. /\ s \in Spaces /\ a + k \in a .. a + n - 1
      /\ \A page \in a .. a + n - 1 : PdIndex(page) \in Tables
  <2>1. s \in Spaces
    BY DEF Here, Owners, Spaces
  <2> QED
    BY <2>1, SpaceIs
<1>2. ASSUME NEW j \in M2 PROVE j \in M \ {i}
  <2>1. PICK page \in a + (k + 1) .. a + n - 1 : j = PdIndex(page)
    BY DEF Missing
  <2>2. page \in a + k .. a + n - 1 /\ page \in a .. a + n - 1 /\ x.dir[j] = Absent
    BY <2>1 DEF Missing
  <2>3. j # i /\ j \in Tables
    BY <1>1, <2>1, <2>2 DEF PageMapped
  <2>4. m.dir[j] = Absent
    BY <2>2, <2>3 DEF PageMapped
  <2> QED
    BY <2>1, <2>2, <2>3, <2>4 DEF Missing
<1>3. m.dir[i] = Absent => i \in M
  <2>1. a + k \in a + k .. a + n - 1
    OBVIOUS
  <2> QED
    BY <2>1 DEF Missing
<1>4. /\ IsFiniteSet(M) /\ IsFiniteSet(m.free)
      /\ n - k + Cardinality(M) <= Cardinality(m.free)
  BY DEF Lasts
<1>5. PICK f, g \in m.free : x.free = m.free \ {f, g} /\ (m.dir[i] # Absent => f = g)
  BY DEF PageMapped
<1> HIDE DEF i, M, M2
<1>6. /\ Cardinality(m.free) \in Nat /\ Cardinality(M) \in Nat
      /\ IsFiniteSet(m.free \ {f}) /\ Cardinality(m.free \ {f}) = Cardinality(m.free) - 1
      /\ IsFiniteSet(M \ {i})
      /\ i \in M => Cardinality(M \ {i}) = Cardinality(M) - 1
      /\ i \notin M => M \ {i} = M
  BY <1>4, FS_CardinalityType, FS_RemoveElement
<1>7. /\ IsFiniteSet(M2) /\ Cardinality(M2) \in Nat
      /\ Cardinality(M2) <= Cardinality(M \ {i})
  <2>1. M2 \subseteq M \ {i}
    BY <1>2
  <2> QED
    BY <1>6, <2>1, FS_Subset, FS_CardinalityType
<1>8. /\ IsFiniteSet(x.free) /\ Cardinality(x.free) \in Nat
      /\ Cardinality(x.free) >= Cardinality(m.free) - 2
      /\ f = g => Cardinality(x.free) = Cardinality(m.free) - 1
  <2>1. CASE f = g
    <3>1. x.free = m.free \ {f}
      BY <1>5, <2>1
    <3>2. Cardinality(m.free \ {f}) \in Nat
      BY <1>6, FS_CardinalityType
    <3> QED
      BY <1>6, <2>1, <3>1, <3>2
  <2>2. CASE f # g
    <3>1. x.free = (m.free \ {f}) \ {g} /\ g \in m.free \ {f}
      BY <1>5, <2>2
    <3>2. /\ IsFiniteSet((m.free \ {f}) \ {g})
          /\ Cardinality((m.free \ {f}) \ {g}) = Cardinality(m.free \ {f}) - 1
          /\ Cardinality((m.free \ {f}) \ {g}) \in Nat
      BY <1>6, <3>1, FS_RemoveElement, FS_CardinalityType
    <3> QED
      BY <1>6, <2>2, <3>1, <3>2
  <2> QED
    BY <2>1, <2>2
<1>9. n - (k + 1) + Cardinality(M2) <= Cardinality(x.free)
  <2>1. CASE i \in M
    BY <1>4, <1>6, <1>7, <1>8, <2>1
  <2>2. CASE i \notin M
    <3>1. f = g
      BY <1>3, <1>5, <2>2
    <3>2. Cardinality(M \ {i}) = Cardinality(M)
      BY <1>6, <2>2
    <3>3. Cardinality(x.free) = Cardinality(m.free) - 1
      BY <1>8, <3>1
    <3> QED
      BY <1>4, <1>6, <1>7, <3>2, <3>3
  <2> QED
    BY <2>1, <2>2
<1> QED
  BY <1>7, <1>8, <1>9 DEF Lasts, M2

(* With frames to last, all pages of a range are mapped; nothing else is.  *)
LEMMA MapPagesDoes ==
  ASSUME Owners, NEW m, Good(m), Needed(m), NEW s \in Here, NEW a \in Nat, NEW n \in Nat,
         a .. a + n - 1 \subseteq Pages(s),
         \A page \in a .. a + n - 1 : V(m)[<<"page", s, page>>] = Absent,
         Enough(m, a, n)
  PROVE  PagesMapped(m, s, a, n, MapPages(m, a, n))
<1>0. s \in Spaces
  BY DEF Here, Owners, Spaces
<1>1. PICK h : MapSteps(m, a, n, h)
  BY MapPagesSteps
<1> DEFINE S == {k \in Nat : k <= n => PagesMapped(m, s, a, k, h[k]) /\ Lasts(h[k], a, k, n)}
<1>2. Lasts(m, a, 0, n)
  <2> DEFINE I == {PdIndex(page) : page \in a .. a + n - 1}
  <2>1. Missing(m, a, 0, n) = {i \in I : m.dir[i] = Absent}
    BY DEF Missing
  <2>2. IsFiniteSet(I)
    <3>1. I \subseteq Tables
      BY <1>0, SpaceIs
    <3> QED
      BY <3>1, TablesFinite, FS_Subset
  <2>3. IsFiniteSet({i \in I : m.dir[i] = Absent})
    BY <2>2, FS_Subset
  <2>4. IsFiniteSet(m.free)
    <3>1. m.free \subseteq Frames
      BY DEF Good, MapSet
    <3> QED
      BY <3>1, VmmAssumption, FS_Subset
  <2>5. n + Cardinality({i \in I : m.dir[i] = Absent}) <= Cardinality(m.free)
    BY DEF Enough
  <2> HIDE DEF I
  <2> QED
    BY <2>1, <2>3, <2>4, <2>5 DEF Lasts
<1>3. 0 \in S
  BY <1>1, <1>2 DEF PagesMapped, MapSteps
<1>4. ASSUME NEW k \in Nat, k \in S PROVE k + 1 \in S
  <2> SUFFICES ASSUME k + 1 <= n
               PROVE  PagesMapped(m, s, a, k + 1, h[k + 1]) /\ Lasts(h[k + 1], a, k + 1, n)
    OBVIOUS
  <2> DEFINE y == h[k]
             x == h[k + 1]
             page == a + k
  <2>1. PagesMapped(m, s, a, k, y) /\ Lasts(y, a, k, n)
    BY <1>4
  <2>2. x = MapPage(y, page) /\ page \in a .. a + n - 1 /\ page \in Pages(s) /\ page \notin a .. a + k - 1
    <3>1. k + 1 \in 1 .. n /\ (k + 1) - 1 = k /\ a + (k + 1) - 1 = a + k
      OBVIOUS
    <3> QED
      BY <1>1, <3>1 DEF MapSteps
  <2>3. s \in Spaces
    BY <1>0
  <2> HIDE DEF x, y, page
  <2>4. V(y)[<<"page", s, page>>] = Absent
    BY <2>1, <2>2, <2>3 DEF PagesMapped
  <2>5. y.free # {} /\ (y.dir[PdIndex(page)] = Absent => \A f : y.free # {f})
    <3>1. /\ IsFiniteSet(Missing(y, a, k, n)) /\ IsFiniteSet(y.free)
          /\ n - k + Cardinality(Missing(y, a, k, n)) <= Cardinality(y.free)
      BY <2>1 DEF Lasts
    <3>2. Cardinality(Missing(y, a, k, n)) \in Nat /\ Cardinality(y.free) \in Nat
      BY <3>1, FS_CardinalityType
    <3>3. Cardinality(y.free) >= 1
      BY <3>1, <3>2
    <3>4. y.free # {}
      BY <3>3, FS_EmptySet
    <3>5. ASSUME y.dir[PdIndex(page)] = Absent, NEW f, y.free = {f} PROVE FALSE
      <4>1. page \in a + k .. a + n - 1
        BY DEF page
      <4>2. PdIndex(page) \in Missing(y, a, k, n)
        BY <3>5, <4>1 DEF Missing
      <4>3. Cardinality(Missing(y, a, k, n)) # 0
        BY <3>1, <4>2, FS_EmptySet
      <4>4. Cardinality(y.free) = 1
        BY <3>5, FS_Singleton
      <4> QED
        BY <3>1, <3>2, <4>3, <4>4
    <3> QED
      BY <3>4, <3>5
  <2>6. PageMapped(y, s, page, x)
    <3>1. Good(y) /\ Needed(y)
      BY <2>1 DEF PagesMapped
    <3> QED
      BY <2>2, <2>4, <2>5, <3>1, MapPageDoes
  <2>7. Lasts(x, a, k + 1, n)
    BY <2>1, <2>6, LastsOn DEF page
  <2>8. \A p \in Nat : p \in a .. a + (k + 1) - 1 <=> p \in a .. a + k - 1 \/ p = page
    BY DEF page
  <2>9. ASSUME NEW p \in Pages(s), p \in a .. a + (k + 1) - 1 PROVE V(x)[<<"page", s, p>>] \in Frames
    <3>1. CASE p = page
      BY <2>6, <3>1 DEF PageMapped
    <3>2. CASE p # page
      <4>1. p \in a .. a + k - 1
        BY <2>8, <2>9, <3>2, SpaceIs, <2>3
      <4> QED
        BY <2>1, <2>3, <2>6, <3>2, <4>1 DEF PageMapped, PagesMapped
    <3> QED
      BY <3>1, <3>2
  <2>10. ASSUME NEW q \in Spaces, NEW p \in Pages(q), q # s \/ p \notin a .. a + (k + 1) - 1
         PROVE  V(x)[<<"page", q, p>>] = V(m)[<<"page", q, p>>]
    <3>1. p \in Nat
      BY SpaceIs
    <3>2. q # s \/ (p # page /\ p \notin a .. a + k - 1)
      BY <2>8, <2>10, <3>1
    <3> QED
      BY <2>1, <2>6, <3>2 DEF PageMapped, PagesMapped
  <2> QED
    BY <2>6, <2>7, <2>9, <2>10 DEF PagesMapped, PageMapped, x
<1>5. n \in S
  <2> HIDE DEF S
  <2> QED
    BY <1>3, <1>4, SetInduction
<1> QED
  BY <1>1, <1>5 DEF MapSteps

(* One page table of a range to be unmapped.                               *)
Unmaps == [m : MapSet, page : Nat, left : Nat \ {0}]

LEMMA EntriesAre ==
  ASSUME NEW u \in Unmaps
  PROVE  /\ Entries(u) \subseteq 0 .. PtEntries - 1
         /\ \A j \in 0 .. PtEntries - 1 :
              j \in Entries(u) <=> PtIndex(u.page) <= j /\ j < PtIndex(u.page) + u.left
         /\ Cardinality(Entries(u)) = IF PtIndex(u.page) + u.left <= PtEntries THEN u.left
                                      ELSE PtEntries - PtIndex(u.page)
<1> DEFINE r == PtIndex(u.page)
           e == IF r + u.left <= PtEntries THEN r + u.left ELSE PtEntries
<1>1. /\ PtEntries \in Nat \ {0} /\ r \in Nat /\ r < PtEntries
      /\ u.left \in Nat \ {0} /\ u.page \in Nat
  <2>1. PtEntries \in Nat \ {0} /\ u.left \in Nat \ {0} /\ u.page \in Nat
    BY VmmAssumption DEF Unmaps
  <2> QED
    BY <2>1, Division
<1> HIDE DEF r
<1>2. Min({PtEntries, r + u.left}) = e
  <2>1. /\ {PtEntries, r + u.left} \in SUBSET Nat /\ {PtEntries, r + u.left} # {}
        /\ PtEntries \in {PtEntries, r + u.left} /\ r + u.left \in {PtEntries, r + u.left}
    BY <1>1
  <2>2. /\ Min({PtEntries, r + u.left}) \in {PtEntries, r + u.left}
        /\ Min({PtEntries, r + u.left}) <= PtEntries /\ Min({PtEntries, r + u.left}) <= r + u.left
    BY <2>1, MinIn
  <2> QED
    BY <1>1, <2>2
<1>3. Entries(u) = r .. e - 1
  BY <1>2 DEF Entries, r
<1>4. e \in Nat /\ r < e /\ e <= PtEntries
  BY <1>1
<1> HIDE DEF e
<1>5. Cardinality(r .. e - 1) = e - r
  <2>1. r \in Int /\ e - 1 \in Int
    BY <1>1, <1>4
  <2>2. Cardinality(r .. e - 1) = IF r > e - 1 THEN 0 ELSE (e - 1) - r + 1
    BY <2>1, FS_Interval
  <2> QED
    BY <1>1, <1>4, <2>2
<1>6. Entries(u) \subseteq 0 .. PtEntries - 1
  BY <1>1, <1>3, <1>4
<1>7. \A j \in 0 .. PtEntries - 1 : j \in Entries(u) <=> r <= j /\ j < r + u.left
  BY <1>1, <1>3, <1>4 DEF e
<1>8. Cardinality(Entries(u)) = IF r + u.left <= PtEntries THEN u.left ELSE PtEntries - r
  BY <1>1, <1>3, <1>5 DEF e
<1> QED
  BY <1>6, <1>7, <1>8 DEF r

LEMMA ClearedIs ==
  ASSUME NEW u \in Unmaps, u.m.dir[PdIndex(u.page)] \in Frames
  PROVE  /\ Cleared(u) \in Entered
         /\ \A j \in Entries(u) : Cleared(u)[j] = Absent
         /\ \A j \in (0 .. PtEntries - 1) \ Entries(u) :
              Cleared(u)[j] = u.m.tables[u.m.dir[PdIndex(u.page)]][j]
<1>1. Entries(u) \subseteq 0 .. PtEntries - 1
  BY EntriesAre
<1>2. u.m.tables[u.m.dir[PdIndex(u.page)]] \in Entered
  BY DEF Unmaps, MapSet
<1> QED
  BY <1>1, <1>2 DEF Cleared, Entered

(* The pages of one table are unmapped from page on, left of them; the     *)
(* table too, if nothing is left in it.                                    *)
TableUnmapped(u, s, x) ==
  /\ Good(x) /\ Needed(x)
  /\ \A j \in Entries(u) : V(x)[<<"page", s, Start(PdIndex(u.page)) + j>>] = Absent
  /\ \A q \in Spaces : \A p \in Pages(q) :
       V(x)[<<"page", q, p>>] = V(u.m)[<<"page", q, p>>]
         \/ (q = s /\ \E j \in Entries(u) : p = Start(PdIndex(u.page)) + j)
  /\ \A j \in Tables : x.dir[j] \in {u.m.dir[j], Absent}

Updated(A, given, i, g, f, t) ==
  [A EXCEPT !.m.free = @ \cup given, !.m.tables[f] = t, !.m.dir[i] = g]

LEMMA UpdatedIs ==
  ASSUME NEW F, NEW D, NEW T, NEW P, NEW L, NEW given, NEW i, NEW g, NEW f, NEW t, NEW A, NEW U,
         A = [m |-> [free |-> F, dir |-> D, tables |-> T], page |-> P, left |-> L],
         U = Updated(A, given, i, g, f, t)
  PROVE  U = [m |-> [free |-> F \cup given, dir |-> [D EXCEPT ![i] = g], tables |-> [T EXCEPT ![f] = t]],
              page |-> P, left |-> L]
BY DEF Updated

TableGone(u, drops, given) ==
  LET i == PdIndex(u.page)
      f == u.m.dir[i]
  IN  [m |-> [free |-> u.m.free \cup (given \cup (IF drops THEN {f} ELSE {})),
              dir |-> [u.m.dir EXCEPT ![i] = IF drops THEN Absent ELSE f],
              tables |-> [u.m.tables EXCEPT ![f] = IF drops THEN EmptyTable ELSE Cleared(u)]],
       page |-> Start(i + 1), left |-> u.left - Cardinality(Entries(u))]

LEMMA TableTaken ==
  ASSUME NEW u \in Unmaps, u.m.dir[PdIndex(u.page)] # Absent
  PROVE  UnmapTable(u) = TableGone(u, Removable(Cleared(u), u),
           {u.m.tables[u.m.dir[PdIndex(u.page)]][j] : j \in Entries(u)} \ {Absent})
<1> DEFINE i     == PdIndex(u.page)
           f     == u.m.dir[i]
           drops == Removable(Cleared(u), u)
           given == {u.m.tables[f][j] : j \in Entries(u)} \ {Absent}
           also  == IF drops THEN {f} ELSE {}
           g     == IF drops THEN Absent ELSE f
           t     == IF drops THEN EmptyTable ELSE Cleared(u)
           A     == Advance(u)
<1>1. UnmapTable(u) = Updated(A, given \cup also, i, g, f, t)
  BY DEF UnmapTable, Updated
<1>2. A = [m |-> [free |-> u.m.free, dir |-> u.m.dir, tables |-> u.m.tables],
           page |-> Start(i + 1), left |-> u.left - Cardinality(Entries(u))]
  <2> DEFINE P == (i + 1) * PtEntries
             L == u.left - Cardinality(Entries(u))
  <2>1. A = [u EXCEPT !.page = P, !.left = L]
    BY DEF Advance
  <2>2. u = [m |-> u.m, page |-> u.page, left |-> u.left]
    BY DEF Unmaps
  <2> HIDE DEF i, A, P, L
  <2>3. A = [m |-> u.m, page |-> P, left |-> L]
    BY ONLY <2>1, <2>2
  <2>4. u.m = [free |-> u.m.free, dir |-> u.m.dir, tables |-> u.m.tables]
    BY DEF Unmaps, MapSet
  <2>5. P = Start(i + 1)
    BY DEF P, Start
  <2> QED
    BY <2>3, <2>4, <2>5 DEF L
<1> HIDE DEF i, f, drops, given, also, g, t, A
<1>3. UnmapTable(u) =
       [m |-> [free |-> u.m.free \cup (given \cup also), dir |-> [u.m.dir EXCEPT ![i] = g],
               tables |-> [u.m.tables EXCEPT ![f] = t]],
        page |-> Start(i + 1), left |-> u.left - Cardinality(Entries(u))]
  BY ONLY <1>1, <1>2, UpdatedIs
<1> QED
  BY <1>3 DEF TableGone, i, f, drops, given, also, g, t

LEMMA UnmapTableDoes ==
  ASSUME Owners, NEW u \in Unmaps, Good(u.m), Needed(u.m), NEW s \in Here, u.page \in Pages(s),
         u.m.dir[PdIndex(u.page)] # Absent
  PROVE  TableUnmapped(u, s, UnmapTable(u).m)
<1> DEFINE m     == u.m
           i     == PdIndex(u.page)
           f     == m.dir[i]
           T     == m.tables[f]
           E     == Entries(u)
           drops == Removable(Cleared(u), u)
           given == {T[j] : j \in E} \ {Absent}
           also  == IF drops THEN {f} ELSE {}
           x     == UnmapTable(u).m
           K(j)  == <<"page", s, Start(i) + j>>
<1>1. s \in Spaces /\ i \in Own(s) /\ i \in Tables /\ i \in Nat
  <2>1. s \in Spaces
    BY DEF Here, Owners, Spaces
  <2> QED
    BY <2>1, SpaceIs
<1>2. /\ m \in MapSet /\ m.free \subseteq Frames /\ f # Absent /\ Dir(m, s) = m.dir
      /\ Absent \notin Frames
  BY VmmAssumption DEF Unmaps, MapSet, Dir
<1>3. /\ f \in Frames \ m.free
      /\ \A q \in Spaces : \A j \in Own(q) : Dir(m, q)[j] = f => q = s /\ j = i
  <2>1. Dir(m, s)[i] = f
    BY <1>2
  <2> HIDE DEF f, i
  <2> QED
    BY <1>1, <1>2, <2>1, EntryIs
<1>4. /\ Cleared(u) \in Entered /\ T \in Entered /\ E \subseteq 0 .. PtEntries - 1
      /\ \A j \in E : Cleared(u)[j] = Absent
      /\ \A j \in (0 .. PtEntries - 1) \ E : Cleared(u)[j] = T[j]
  <2>1. u.m.dir[PdIndex(u.page)] \in Frames
    BY <1>3
  <2>2. T \in Entered
    BY <1>2, <2>1 DEF MapSet
  <2> QED
    BY <2>1, <2>2, ClearedIs, EntriesAre
<1>5. /\ given \subseteq Frames /\ \A g \in Frames : g \in given <=> \E j \in E : T[j] = g
  BY <1>2, <1>4 DEF Entered
<1>6. drops <=> \A j \in 0 .. PtEntries - 1 : Cleared(u)[j] = Absent
  BY <1>4 DEF Removable, Entered
<1>7. EmptyTable \in Entered
  BY DEF EmptyTable, Entered
<1>8. x = [free |-> m.free \cup (given \cup also),
           dir |-> [m.dir EXCEPT ![i] = IF drops THEN Absent ELSE f],
           tables |-> [m.tables EXCEPT ![f] = IF drops THEN EmptyTable ELSE Cleared(u)]]
  <2>1. UnmapTable(u) = TableGone(u, drops, given)
    BY TableTaken
  <2> HIDE DEF drops, given
  <2>2. TableGone(u, drops, given) =
          [m |-> [free |-> m.free \cup (given \cup also),
                  dir |-> [m.dir EXCEPT ![i] = IF drops THEN Absent ELSE f],
                  tables |-> [m.tables EXCEPT ![f] = IF drops THEN EmptyTable ELSE Cleared(u)]],
           page |-> Start(i + 1), left |-> u.left - Cardinality(Entries(u))]
    BY DEF TableGone
  <2> HIDE DEF also, m, i, f, T, E
  <2> QED
    BY ONLY <2>1, <2>2
<1> HIDE DEF m, i, f, T, E, drops, given, x
<1>9. /\ x \in MapSet /\ x.free = m.free \cup (given \cup also)
      /\ x.dir[i] = IF drops THEN Absent ELSE f
      /\ \A j \in Tables \ {i} : x.dir[j] = m.dir[j]
      /\ ~drops => x.tables[f] = Cleared(u)
      /\ \A g \in Frames \ {f} : x.tables[g] = m.tables[g]
  BY <1>1, <1>2, <1>3, <1>4, <1>5, <1>7, <1>8 DEF MapSet
<1>10. Dir(x, s)[i] = IF drops THEN Absent ELSE f
  BY <1>9 DEF Dir
<1>11. ASSUME NEW q \in Spaces, NEW j \in Own(q), j # i \/ q # s PROVE Dir(x, q)[j] = Dir(m, q)[j]
  <2>1. j \in Tables
    BY SpaceIs
  <2>2. q \in Here => j # i
    BY <1>1, <1>11, OneSpace
  <2> QED
    BY <1>9, <2>1, <2>2 DEF Dir
<1>12. ASSUME NEW j \in 0 .. PtEntries - 1
       PROVE  Start(i) + j \in Pages(s) /\ PdIndex(Start(i) + j) = i /\ PtIndex(Start(i) + j) = j
  BY <1>1, Starts, SpaceIs
<1>13. ASSUME NEW j \in E PROVE V(x)[K(j)] = Absent
  <2>1. V(x)[K(j)] = Through(Dir(x, s)[i], x.tables, j)
    <3>1. Start(i) + j \in Pages(s) /\ PdIndex(Start(i) + j) = i /\ PtIndex(Start(i) + j) = j
      BY <1>4, <1>12
    <3> QED
      BY <1>1, <3>1, PageVal
  <2> QED
    BY <1>2, <1>4, <1>9, <1>10, <2>1 DEF Through
<1>14. ASSUME NEW q \in Spaces, NEW p \in Pages(q), q # s \/ ~\E j \in E : p = Start(i) + j
       PROVE  V(x)[<<"page", q, p>>] = V(m)[<<"page", q, p>>]
  <2> DEFINE j == PdIndex(p)
             r == PtIndex(p)
             h == Dir(m, q)[j]
  <2>1. j \in Own(q) /\ r \in 0 .. PtEntries - 1 /\ p = Start(j) + r
    BY SpaceIs, Division
  <2>2. /\ V(x)[<<"page", q, p>>] = Through(Dir(x, q)[j], x.tables, r)
        /\ V(m)[<<"page", q, p>>] = Through(h, m.tables, r)
    BY PageVal
  <2> HIDE DEF j, r
  <2>3. CASE q = s /\ j = i
    <3>1. r \notin E /\ h = f
      BY <1>2, <1>14, <2>1, <2>3 DEF f
    <3>2. Cleared(u)[r] = T[r] /\ V(m)[<<"page", q, p>>] = T[r]
      BY <1>2, <1>4, <2>1, <2>2, <3>1 DEF Through, T
    <3>3. CASE drops
      BY <1>6, <1>10, <2>1, <2>2, <2>3, <3>2, <3>3 DEF Through
    <3>4. CASE ~drops
      BY <1>2, <1>9, <1>10, <2>2, <2>3, <3>2, <3>4 DEF Through
    <3> QED
      BY <3>3, <3>4
  <2>4. CASE q # s \/ j # i
    <3>1. Dir(x, q)[j] = h
      BY <1>11, <2>1, <2>4
    <3>2. h # f
      BY <1>3, <2>1, <2>4
    <3>3. h # Absent => h \in Frames
      <4>1. Good(m)
        BY DEF m
      <4> QED
        BY <2>1, <4>1, EntryIs
    <3> HIDE DEF h
    <3> QED
      BY <1>9, <2>2, <3>1, <3>2, <3>3 DEF Through
  <2> QED
    BY <2>3, <2>4
<1>15. /\ V(m)[<<"table", s, i>>] = f /\ V(x)[<<"table", s, i>>] = IF drops THEN Absent ELSE f
       /\ <<"table", s, i>> \in Keys
  <2>1. /\ V(m)[<<"table", s, i>>] = Dir(m, s)[i] /\ V(x)[<<"table", s, i>>] = Dir(x, s)[i]
        /\ <<"table", s, i>> \in Keys
    BY <1>1, TableVal
  <2> QED
    BY <1>2, <1>10, <2>1 DEF f
<1>16. ASSUME NEW j \in E PROVE K(j) \in Keys /\ V(m)[K(j)] = T[j]
  <2>1. Start(i) + j \in Pages(s) /\ PdIndex(Start(i) + j) = i /\ PtIndex(Start(i) + j) = j
    BY <1>4, <1>12
  <2>2. K(j) \in Keys /\ V(m)[K(j)] = Through(Dir(m, s)[i], m.tables, j)
    BY <1>1, <2>1, PageVal
  <2>3. Dir(m, s)[i] = f
    BY <1>2 DEF f
  <2> QED
    BY <1>2, <2>2, <2>3 DEF Through, T
<1> DEFINE X == {K(j) : j \in E} \cup (IF drops THEN {<<"table", s, i>>} ELSE {})
<1>17. Once(x.free, V(x))
  <2>1. X \in SUBSET Keys
    BY <1>15, <1>16
  <2>2. \A k \in X : V(x)[k] \notin Frames
    BY <1>2, <1>13, <1>15
  <2>3. ASSUME NEW k \in Keys \ X PROVE V(x)[k] = V(m)[k]
    <3>1. PICK q \in Spaces : \/ k = <<"directory", q, 0>>
                              \/ \E j \in Own(q) : k = <<"table", q, j>>
                              \/ \E p \in Pages(q) : k = <<"page", q, p>>
      BY KeyKinds
    <3>2. CASE k = <<"directory", q, 0>>
      BY <3>2, DirectoryVal
    <3>3. CASE \E j \in Own(q) : k = <<"table", q, j>>
      <4>1. PICK j \in Own(q) : k = <<"table", q, j>>
        BY <3>3
      <4>2. CASE q = s /\ j = i
        BY <1>15, <2>3, <4>1, <4>2
      <4>3. CASE q # s \/ j # i
        BY <1>11, <4>1, <4>3, TableVal
      <4> QED
        BY <4>2, <4>3
    <3>4. CASE \E p \in Pages(q) : k = <<"page", q, p>>
      <4>1. PICK p \in Pages(q) : k = <<"page", q, p>>
        BY <3>4
      <4>2. q # s \/ ~\E j \in E : p = Start(i) + j
        BY <2>3, <4>1
      <4> QED
        BY <1>14, <4>1, <4>2
    <3> QED
      BY <3>1, <3>2, <3>3, <3>4
  <2>4. {V(m)[k] : k \in X} \cap Frames = given \cup also
    <3>1. ASSUME NEW g \in Frames PROVE g \in given \cup also <=> \E k \in X : V(m)[k] = g
      <4>1. g \in given <=> \E j \in E : V(m)[K(j)] = g
        BY <1>5, <1>16
      <4>2. g \in also <=> drops /\ V(m)[<<"table", s, i>>] = g
        BY <1>15
      <4> QED
        BY <4>1, <4>2
    <3>2. given \cup also \subseteq Frames
      BY <1>3, <1>5
    <3> HIDE DEF X, also
    <3> QED
      BY <3>1, <3>2
  <2>5. Once(m.free, V(m))
    BY DEF Good, m
  <2> HIDE DEF X, also, K
  <2>6. Once(m.free \cup ({V(m)[k] : k \in X} \cap Frames), V(x))
    BY <2>1, <2>2, <2>3, <2>5, OnceGive
  <2> QED
    BY <1>9, <2>4, <2>6
<1>18. Needed(x)
  <2> SUFFICES ASSUME NEW q \in Spaces, NEW j \in Own(q), V(x)[<<"table", q, j>>] # Absent
               PROVE  \E p \in Pages(q) : PdIndex(p) = j /\ V(x)[<<"page", q, p>>] # Absent
    BY DEF Needed
  <2>1. CASE q = s /\ j = i
    <3>1. ~drops
      BY <1>15, <2>1
    <3>2. PICK r \in 0 .. PtEntries - 1 : Cleared(u)[r] # Absent
      BY <1>6, <3>1
    <3>3. Start(i) + r \in Pages(s) /\ PdIndex(Start(i) + r) = i /\ PtIndex(Start(i) + r) = r
      BY <1>12
    <3>4. V(x)[<<"page", s, Start(i) + r>>] = Through(Dir(x, s)[i], x.tables, r)
      BY <1>1, <3>3, PageVal
    <3>5. V(x)[<<"page", s, Start(i) + r>>] = Cleared(u)[r]
      BY <1>2, <1>9, <1>10, <3>1, <3>4 DEF Through
    <3> QED
      BY <2>1, <3>2, <3>3, <3>5
  <2>2. CASE q # s \/ j # i
    <3>1. V(m)[<<"table", q, j>>] # Absent
      BY <1>11, <2>2, TableVal
    <3>2. PICK p \in Pages(q) : PdIndex(p) = j /\ V(m)[<<"page", q, p>>] # Absent
      <4>1. Needed(m)
        BY DEF m
      <4> QED
        BY <3>1, <4>1 DEF Needed
    <3>3. q # s \/ ~\E r \in E : p = Start(i) + r
      <4>1. ASSUME q = s, NEW r \in E, p = Start(i) + r PROVE FALSE
        <5>1. PdIndex(p) = i
          BY <1>4, <1>12, <4>1
        <5> QED
          BY <2>2, <3>2, <4>1, <5>1
      <4> QED
        BY <4>1
    <3> QED
      BY <1>14, <3>2, <3>3
  <2> QED
    BY <2>1, <2>2
<1>19. \A j \in Tables : x.dir[j] \in {m.dir[j], Absent}
  BY <1>9 DEF f
<1>20. Good(x)
  BY <1>9, <1>17 DEF Good
<1>21. /\ \A j \in E : V(x)[<<"page", s, Start(i) + j>>] = Absent
       /\ \A q \in Spaces : \A p \in Pages(q) :
            V(x)[<<"page", q, p>>] = V(m)[<<"page", q, p>>] \/ (q = s /\ \E j \in E : p = Start(i) + j)
  BY <1>13, <1>14
<1> QED
  BY <1>18, <1>19, <1>20, <1>21 DEF TableUnmapped, m, i, E, x

(* Where the range goes on after one table.                                *)
NextTable(u) == Start(PdIndex(u.page) + 1)
NextLeft(u)  == u.left - Cardinality(Entries(u))
NextDone(u)  == IF NextLeft(u) = 0 THEN u.page + u.left ELSE NextTable(u)

LEMMA NextIs ==
  ASSUME NEW u \in Unmaps
  PROVE  /\ NextLeft(u) \in Nat /\ NextTable(u) \in Nat /\ NextDone(u) \in Nat
         /\ u.page < NextTable(u) /\ u.page < NextDone(u)
         /\ NextLeft(u) # 0 => NextTable(u) + NextLeft(u) = u.page + u.left
         /\ PtIndex(NextTable(u)) = 0 /\ PdIndex(NextTable(u)) = PdIndex(u.page) + 1
         /\ \A p \in Nat : p \in u.page .. NextDone(u) - 1
                             <=> \E j \in Entries(u) : p = Start(PdIndex(u.page)) + j
<1> DEFINE i == PdIndex(u.page)
           r == PtIndex(u.page)
           E == Entries(u)
           S == Start(i)
           l == u.left
<1>1. /\ PtEntries \in Nat \ {0} /\ l \in Nat \ {0} /\ u.page \in Nat
  BY VmmAssumption DEF Unmaps
<1>2. i \in Nat /\ r \in 0 .. PtEntries - 1 /\ u.page = S + r
  BY <1>1, Division
<1>3. /\ E \subseteq 0 .. PtEntries - 1
      /\ \A j \in 0 .. PtEntries - 1 : j \in E <=> r <= j /\ j < r + l
      /\ Cardinality(E) = IF r + l <= PtEntries THEN l ELSE PtEntries - r
  BY EntriesAre
<1> HIDE DEF i, r, E, l
<1>4. S \in Nat /\ Start(i + 1) = S + PtEntries
  BY <1>2, Starts
<1>5. PtIndex(Start(i + 1)) = 0 /\ PdIndex(Start(i + 1)) = i + 1
  <2>1. i + 1 \in Nat /\ 0 \in 0 .. PtEntries - 1
    BY <1>1, <1>2
  <2>2. PdIndex(Start(i + 1) + 0) = i + 1 /\ PtIndex(Start(i + 1) + 0) = 0
    BY <2>1, Starts
  <2>3. Start(i + 1) + 0 = Start(i + 1)
    BY <1>1, <1>4
  <2> QED
    BY <2>2, <2>3
<1> HIDE DEF S
<1>6. NextTable(u) = S + PtEntries /\ NextLeft(u) = l - Cardinality(E)
  BY <1>4 DEF NextTable, NextLeft, i, E, l
<1>7. CASE r + l <= PtEntries
  <2>1. NextLeft(u) = 0 /\ NextDone(u) = S + r + l
    BY <1>1, <1>2, <1>3, <1>4, <1>6, <1>7 DEF NextDone, l
  <2>2. ASSUME NEW p \in Nat PROVE p \in u.page .. NextDone(u) - 1 <=> \E j \in E : p = S + j
    <3>1. ASSUME p \in u.page .. NextDone(u) - 1 PROVE \E j \in E : p = S + j
      <4>1. p - S \in 0 .. PtEntries - 1 /\ r <= p - S /\ p - S < r + l /\ p = S + (p - S)
        BY <1>1, <1>2, <1>4, <1>7, <2>1, <3>1
      <4>2. p - S \in E
        BY <1>3, <4>1
      <4> QED
        BY <4>1, <4>2
    <3>2. ASSUME NEW j \in E, p = S + j PROVE p \in u.page .. NextDone(u) - 1
      <4>1. j \in 0 .. PtEntries - 1 /\ r <= j /\ j < r + l
        BY <1>3
      <4> QED
        BY <1>1, <1>2, <1>4, <2>1, <3>2, <4>1
    <3> QED
      BY <3>1, <3>2
  <2> QED
    BY <1>1, <1>2, <1>4, <1>5, <1>6, <2>1, <2>2 DEF NextTable, i, E, S
<1>8. CASE r + l > PtEntries
  <2>1. NextLeft(u) = l - (PtEntries - r) /\ NextLeft(u) # 0 /\ NextDone(u) = S + PtEntries
    <3>1. NextLeft(u) = l - (PtEntries - r)
      BY <1>1, <1>2, <1>3, <1>6, <1>8
    <3>2. NextLeft(u) # 0
      BY <1>1, <1>2, <1>8, <3>1
    <3> QED
      BY <1>6, <3>1, <3>2 DEF NextDone
  <2>2. ASSUME NEW p \in Nat PROVE p \in u.page .. NextDone(u) - 1 <=> \E j \in E : p = S + j
    <3>1. ASSUME p \in u.page .. NextDone(u) - 1 PROVE \E j \in E : p = S + j
      <4>1. p - S \in 0 .. PtEntries - 1 /\ r <= p - S /\ p - S < r + l /\ p = S + (p - S)
        BY <1>1, <1>2, <1>4, <1>8, <2>1, <3>1
      <4>2. p - S \in E
        BY <1>3, <4>1
      <4> QED
        BY <4>1, <4>2
    <3>2. ASSUME NEW j \in E, p = S + j PROVE p \in u.page .. NextDone(u) - 1
      <4>1. j \in 0 .. PtEntries - 1 /\ r <= j /\ j < r + l
        BY <1>3
      <4> QED
        BY <1>1, <1>2, <1>4, <2>1, <3>2, <4>1
    <3> QED
      BY <3>1, <3>2
  <2>3. /\ NextLeft(u) \in Nat /\ NextTable(u) \in Nat /\ NextDone(u) \in Nat
        /\ u.page < NextTable(u) /\ u.page < NextDone(u)
        /\ NextTable(u) + NextLeft(u) = u.page + l
    BY <1>1, <1>2, <1>4, <1>6, <1>8, <2>1
  <2> QED
    BY <1>5, <2>2, <2>3 DEF NextTable, i, E, S, l
<1> QED
  BY <1>1, <1>2, <1>7, <1>8

LEMMA TableStep ==
  ASSUME Owners, NEW u \in Unmaps, Good(u.m), Needed(u.m), NEW s \in Here, u.page \in Pages(s),
         PtIndex(u.page) = 0 \/ u.m.dir[PdIndex(u.page)] # Absent
  PROVE  /\ TableUnmapped(u, s, UnmapTable(u).m)
         /\ UnmapTable(u) = [m |-> UnmapTable(u).m, page |-> NextTable(u), left |-> NextLeft(u)]
<1> DEFINE i == PdIndex(u.page)
           v == UnmapTable(u)
<1>1. s \in Spaces /\ i \in Own(s) /\ i \in Tables /\ i \in Nat
  <2>1. s \in Spaces
    BY DEF Here, Owners, Spaces
  <2> QED
    BY <2>1, SpaceIs
<1>2. CASE u.m.dir[i] = Absent
  <2>1. v = [u EXCEPT !.page = (i + 1) * PtEntries,
                      !.left = IF u.left <= PtEntries THEN 0 ELSE u.left - PtEntries]
    BY <1>2 DEF UnmapTable
  <2>2. /\ (i + 1) * PtEntries = NextTable(u)
        /\ (IF u.left <= PtEntries THEN 0 ELSE u.left - PtEntries) = NextLeft(u)
    <3>1. PtIndex(u.page) = 0
      BY <1>2
    <3>2. Cardinality(Entries(u)) = IF PtIndex(u.page) + u.left <= PtEntries THEN u.left
                                    ELSE PtEntries - PtIndex(u.page)
      BY EntriesAre
    <3>3. u.left \in Nat /\ PtEntries \in Nat
      BY VmmAssumption DEF Unmaps
    <3>4. (IF u.left <= PtEntries THEN 0 ELSE u.left - PtEntries) = NextLeft(u)
      BY <3>1, <3>2, <3>3 DEF NextLeft
    <3> QED
      BY <3>4 DEF NextTable, Start
  <2>3. v = [m |-> u.m, page |-> NextTable(u), left |-> NextLeft(u)]
    <3>1. u = [m |-> u.m, page |-> u.page, left |-> u.left]
      BY DEF Unmaps
    <3>2. v = [u EXCEPT !.page = NextTable(u), !.left = NextLeft(u)]
      BY <2>1, <2>2
    <3> HIDE DEF v
    <3> QED
      BY ONLY <3>1, <3>2
  <2>4. ASSUME NEW j \in Entries(u) PROVE V(u.m)[<<"page", s, Start(i) + j>>] = Absent
    <3>1. j \in 0 .. PtEntries - 1
      BY EntriesAre
    <3>2. Start(i) + j \in Pages(s) /\ PdIndex(Start(i) + j) = i
      BY <1>1, <3>1, Starts, SpaceIs
    <3>3. V(u.m)[<<"page", s, Start(i) + j>>]
            = Through(Dir(u.m, s)[i], u.m.tables, PtIndex(Start(i) + j))
      BY <1>1, <3>2, PageVal
    <3>4. Dir(u.m, s)[i] = Absent
      BY <1>2 DEF Dir
    <3> QED
      BY <3>3, <3>4 DEF Through
  <2>5. TableUnmapped(u, s, u.m)
    BY <2>4 DEF TableUnmapped
  <2> HIDE DEF v
  <2> QED
    BY <2>3, <2>5 DEF v
<1>3. CASE u.m.dir[i] # Absent
  <2>1. TableUnmapped(u, s, v.m)
    BY <1>3, UnmapTableDoes
  <2>2. v = TableGone(u, Removable(Cleared(u), u),
           {u.m.tables[u.m.dir[PdIndex(u.page)]][j] : j \in Entries(u)} \ {Absent})
    BY <1>3, TableTaken
  <2>3. v = [m |-> v.m, page |-> NextTable(u), left |-> NextLeft(u)]
    <3> HIDE DEF v
    <3> QED
      BY <2>2 DEF TableGone, NextTable, NextLeft
  <2> QED
    BY <2>1, <2>3
<1> QED
  BY <1>2, <1>3

(* vmmUnmapPages goes from table to table.                                 *)
UnmapSteps(m, a, n, h) ==
  /\ h[0] = [m |-> m, page |-> a, left |-> n]
  /\ UnmapPages(m, a, n) = h[Cardinality(Tables)].m
  /\ \A k \in 1 .. Cardinality(Tables) :
       h[k] = IF h[k - 1].left = 0 THEN h[k - 1] ELSE UnmapTable(h[k - 1])

LEMMA UnmapPagesSteps ==
  ASSUME NEW m, NEW a, NEW n
  PROVE  \E h : UnmapSteps(m, a, n, h)
<1> DEFINE start == [m |-> m, page |-> a, left |-> n]
           On(u) == IF u.left = 0 THEN u ELSE UnmapTable(u)
           Run(k, h) == h = [j \in 0 .. k |-> IF j = 0 THEN start ELSE On(h[j - 1])]
           S == {k \in Nat : \E h : Run(k, h)}
           N == Cardinality(Tables)
<1>1. 0 \in S
  <2> DEFINE h == [j \in 0 .. 0 |-> start]
  <2> HIDE DEF start, On
  <2>1. h = [j \in 0 .. 0 |-> IF j = 0 THEN start ELSE On(h[j - 1])]
    OBVIOUS
  <2> QED
    BY <2>1
<1>2. ASSUME NEW k \in Nat, k \in S PROVE k + 1 \in S
  <2>1. PICK h : Run(k, h)
    BY <1>2
  <2> DEFINE g == [j \in 0 .. k + 1 |-> IF j = k + 1 THEN On(h[k]) ELSE h[j]]
  <2> HIDE DEF start, On
  <2>2. \A j \in 0 .. k : g[j] = h[j]
    OBVIOUS
  <2>3. g[0] = start
    BY <2>1
  <2>4. \A j \in 1 .. k + 1 : g[j] = On(g[j - 1])
    <3> SUFFICES ASSUME NEW j \in 1 .. k + 1 PROVE g[j] = On(g[j - 1])
      OBVIOUS
    <3>1. CASE j = k + 1
      <4>1. g[j] = On(h[k]) /\ j - 1 = k
        BY <3>1
      <4> QED
        BY <2>2, <4>1
    <3>2. CASE j # k + 1
      <4>1. j \in 1 .. k /\ j - 1 \in 0 .. k
        BY <3>2
      <4>2. h[j] = On(h[j - 1])
        BY <2>1, <4>1
      <4> QED
        BY <2>2, <4>1, <4>2
    <3> QED
      BY <3>1, <3>2
  <2>5. g = [j \in 0 .. k + 1 |-> g[j]]
    OBVIOUS
  <2> HIDE DEF g
  <2>6. \A j \in 0 .. k + 1 : g[j] = IF j = 0 THEN start ELSE On(g[j - 1])
    BY <2>3, <2>4
  <2>7. [j \in 0 .. k + 1 |-> g[j]] = [j \in 0 .. k + 1 |-> IF j = 0 THEN start ELSE On(g[j - 1])]
    BY ONLY <2>6
  <2>8. Run(k + 1, g)
    BY ONLY <2>5, <2>7 DEF Run
  <2> QED
    BY <2>8
<1>3. N \in Nat
  BY TablesFinite, FS_CardinalityType
<1>4. N \in S
  <2> HIDE DEF S, N
  <2> QED
    BY <1>1, <1>2, <1>3, SetInduction
<1>5. PICK h : Run(N, h)
  BY <1>4
<1> DEFINE after == CHOOSE h_1 : Run(N, h_1)
<1>6. Run(N, after)
  <2> HIDE DEF Run
  <2> QED
    BY <1>5
<1>7. UnmapPages(m, a, n) = after[N].m
  <2>1. after = CHOOSE h_1 : h_1 = [k \in 0 .. N |->
          IF k = 0 THEN [m |-> m, page |-> a, left |-> n]
          ELSE IF h_1[k - 1].left = 0 THEN h_1[k - 1] ELSE UnmapTable(h_1[k - 1])]
    OBVIOUS
  <2> QED
    BY ONLY <2>1 DEF UnmapPages
<1> HIDE DEF after, N
<1>8. after[0] = start /\ \A k \in 1 .. N : after[k] = On(after[k - 1])
  <2> HIDE DEF start, On
  <2> QED
    BY <1>3, <1>6
<1> QED
  BY <1>7, <1>8 DEF UnmapSteps, N

(* The pages that have been unmapped are those in front of Done.           *)
Done(a, n, u) == IF u.left = 0 THEN a + n ELSE u.page

PagesUnmapped(m, s, a, d, x) ==
  /\ Good(x) /\ Needed(x)
  /\ \A p \in Pages(s) : p \in a .. d - 1 => V(x)[<<"page", s, p>>] = Absent
  /\ \A q \in Spaces : \A p \in Pages(q) : q # s \/ p \notin a .. d - 1 =>
       V(x)[<<"page", q, p>>] = V(m)[<<"page", q, p>>]

Underway(m, s, a, n, k, u) ==
  /\ u \in [m : MapSet, page : Nat, left : Nat]
  /\ PagesUnmapped(m, s, a, Done(a, n, u), u.m)
  /\ u.left # 0 => /\ a <= u.page /\ u.page + u.left = a + n
                   /\ u.page = a \/ PtIndex(u.page) = 0
                   /\ k <= PdIndex(u.page)

Reached(m, s, a, n) ==
  PtIndex(a) = 0 \/ \A p \in a .. a + n - 1 : V(m)[<<"page", s, p>>] # Absent

LEMMA UnderwayOn ==
  ASSUME Owners, NEW m, NEW s \in Here, NEW a \in Nat, NEW n \in Nat, NEW k \in Nat,
         a .. a + n - 1 \subseteq Pages(s), Reached(m, s, a, n),
         NEW u, Underway(m, s, a, n, k, u), u.left # 0
  PROVE  Underway(m, s, a, n, k + 1, UnmapTable(u))
<1> DEFINE v == UnmapTable(u)
           i == PdIndex(u.page)
<1>1. u \in Unmaps /\ u.page \in Nat /\ u.left \in Nat \ {0}
  BY DEF Underway, Unmaps
<1>2. /\ a <= u.page /\ u.page + u.left = a + n
      /\ u.page = a \/ PtIndex(u.page) = 0
      /\ k <= i /\ Done(a, n, u) = u.page
  BY DEF Underway, Done
<1>3. u.page \in a .. a + n - 1 /\ u.page \in Pages(s)
  BY <1>1, <1>2
<1>4. PagesUnmapped(m, s, a, u.page, u.m)
  BY <1>2 DEF Underway
<1>5. s \in Spaces
  BY DEF Here, Owners, Spaces
<1>6. PtIndex(u.page) = 0 \/ u.m.dir[i] # Absent
  <2> SUFFICES ASSUME PtIndex(u.page) # 0 PROVE u.m.dir[i] # Absent
    OBVIOUS
  <2>1. u.page = a /\ V(m)[<<"page", s, u.page>>] # Absent
    BY <1>2, <1>3 DEF Reached
  <2>2. u.page \notin a .. u.page - 1
    BY <1>1, <2>1
  <2>3. V(u.m)[<<"page", s, u.page>>] # Absent
    BY <1>3, <1>4, <1>5, <2>1, <2>2 DEF PagesUnmapped
  <2>4. V(u.m)[<<"page", s, u.page>>] = Through(Dir(u.m, s)[i], u.m.tables, PtIndex(u.page))
    BY <1>3, <1>5, PageVal
  <2> QED
    BY <2>3, <2>4 DEF Through, Dir
<1>7. /\ TableUnmapped(u, s, v.m)
      /\ v = [m |-> v.m, page |-> NextTable(u), left |-> NextLeft(u)]
  <2>1. Good(u.m) /\ Needed(u.m)
    BY <1>4 DEF PagesUnmapped
  <2> QED
    BY <1>1, <1>3, <1>6, <2>1, TableStep
<1>8. /\ NextLeft(u) \in Nat /\ NextTable(u) \in Nat /\ NextDone(u) \in Nat
      /\ u.page < NextTable(u) /\ u.page < NextDone(u)
      /\ NextLeft(u) # 0 => NextTable(u) + NextLeft(u) = u.page + u.left
      /\ PtIndex(NextTable(u)) = 0 /\ PdIndex(NextTable(u)) = i + 1
      /\ \A p \in Nat : p \in u.page .. NextDone(u) - 1 <=> \E j \in Entries(u) : p = Start(i) + j
  BY <1>1, NextIs
<1> HIDE DEF v, i
<1>9. v.page = NextTable(u) /\ v.left = NextLeft(u)
  BY <1>7
<1>10. v \in [m : MapSet, page : Nat, left : Nat]
  <2>1. v.m \in MapSet
    BY <1>7 DEF TableUnmapped, Good
  <2> DEFINE y == v.m
  <2> HIDE DEF y
  <2>2. v = [m |-> y, page |-> NextTable(u), left |-> NextLeft(u)]
    BY <1>7 DEF y
  <2> QED
    BY <1>8, <2>1, <2>2 DEF y
<1>11. Done(a, n, v) = NextDone(u)
  BY <1>2, <1>9 DEF Done, NextDone
<1>12. \A p \in Nat : p \in a .. NextDone(u) - 1
                        <=> p \in a .. u.page - 1 \/ p \in u.page .. NextDone(u) - 1
  BY <1>1, <1>2, <1>8
<1>13. ASSUME NEW p \in Pages(s), p \in a .. NextDone(u) - 1
       PROVE  V(v.m)[<<"page", s, p>>] = Absent
  <2>1. p \in Nat
    BY <1>5, SpaceIs
  <2>2. CASE p \in u.page .. NextDone(u) - 1
    <3>1. PICK j \in Entries(u) : p = Start(i) + j
      BY <1>8, <2>1, <2>2
    <3> QED
      BY <1>7, <3>1 DEF TableUnmapped, i
  <2>3. CASE p \in a .. u.page - 1 /\ p \notin u.page .. NextDone(u) - 1
    <3>1. V(u.m)[<<"page", s, p>>] = Absent
      BY <1>4, <2>3 DEF PagesUnmapped
    <3>2. ~\E j \in Entries(u) : p = Start(i) + j
      BY <1>8, <2>1, <2>3
    <3> QED
      BY <1>5, <1>7, <3>1, <3>2 DEF TableUnmapped, i
  <2> QED
    BY <1>12, <1>13, <2>1, <2>2, <2>3
<1>14. ASSUME NEW q \in Spaces, NEW p \in Pages(q), q # s \/ p \notin a .. NextDone(u) - 1
       PROVE  V(v.m)[<<"page", q, p>>] = V(m)[<<"page", q, p>>]
  <2>1. p \in Nat
    BY SpaceIs
  <2>2. q # s \/ (p \notin a .. u.page - 1 /\ ~\E j \in Entries(u) : p = Start(i) + j)
    BY <1>8, <1>12, <1>14, <2>1
  <2>3. V(v.m)[<<"page", q, p>>] = V(u.m)[<<"page", q, p>>]
    BY <1>7, <2>2 DEF TableUnmapped, i
  <2>4. V(u.m)[<<"page", q, p>>] = V(m)[<<"page", q, p>>]
    BY <1>4, <2>2 DEF PagesUnmapped
  <2> QED
    BY <2>3, <2>4
<1>15. PagesUnmapped(m, s, a, Done(a, n, v), v.m)
  BY <1>7, <1>11, <1>13, <1>14 DEF PagesUnmapped, TableUnmapped
<1>16. v.left # 0 => /\ a <= v.page /\ v.page + v.left = a + n
                     /\ v.page = a \/ PtIndex(v.page) = 0
                     /\ k + 1 <= PdIndex(v.page)
  <2>1. i \in Nat
    BY <1>1, Division DEF i
  <2> QED
    BY <1>1, <1>2, <1>8, <1>9, <2>1
<1>17. Underway(m, s, a, n, k + 1, v)
  BY <1>10, <1>15, <1>16 DEF Underway
<1> QED
  BY <1>17 DEF v

(* The pages of a range are unmapped, which all are mapped or of which the *)
(* first is the first of a table; nothing else is.                         *)
LEMMA UnmapPagesDoes ==
  ASSUME Owners, NEW m, Good(m), Needed(m), NEW s \in Here, NEW a \in Nat, NEW n \in Nat,
         a .. a + n - 1 \subseteq Pages(s), Reached(m, s, a, n)
  PROVE  PagesUnmapped(m, s, a, a + n, UnmapPages(m, a, n))
<1>0. s \in Spaces
  BY DEF Here, Owners, Spaces
<1> DEFINE N == Cardinality(Tables)
<1>1. PICK h : UnmapSteps(m, a, n, h)
  BY UnmapPagesSteps
<1>2. /\ h[0] = [m |-> m, page |-> a, left |-> n] /\ UnmapPages(m, a, n) = h[N].m
      /\ \A k \in 1 .. N : h[k] = IF h[k - 1].left = 0 THEN h[k - 1] ELSE UnmapTable(h[k - 1])
  BY <1>1 DEF UnmapSteps
<1>3. N \in Nat /\ N = ProcTables + KernelTables
  BY TablesFinite, FS_CardinalityType
<1> HIDE DEF N
<1> DEFINE S == {k \in Nat : k <= N => Underway(m, s, a, n, k, h[k])}
<1>4. 0 \in S
  <2> DEFINE u == h[0]
  <2>1. u.m = m /\ u.page = a /\ u.left = n /\ u \in [m : MapSet, page : Nat, left : Nat]
    BY <1>2 DEF Good
  <2> HIDE DEF u
  <2>2. a .. Done(a, n, u) - 1 = {}
    BY <2>1 DEF Done
  <2>3. PagesUnmapped(m, s, a, Done(a, n, u), u.m)
    BY <2>1, <2>2 DEF PagesUnmapped
  <2>4. PdIndex(a) \in Nat
    BY Division
  <2>5. Underway(m, s, a, n, 0, u)
    BY <2>1, <2>3, <2>4 DEF Underway
  <2> QED
    BY <2>5 DEF u
<1>5. ASSUME NEW k \in Nat, k \in S PROVE k + 1 \in S
  <2> SUFFICES ASSUME k + 1 <= N PROVE Underway(m, s, a, n, k + 1, h[k + 1])
    OBVIOUS
  <2> DEFINE u == h[k]
  <2>1. Underway(m, s, a, n, k, u)
    BY <1>3, <1>5
  <2>2. h[k + 1] = IF u.left = 0 THEN u ELSE UnmapTable(u)
    <3>1. k + 1 \in 1 .. N /\ (k + 1) - 1 = k
      BY <1>3
    <3> QED
      BY <1>2, <3>1
  <2> HIDE DEF u
  <2>3. CASE u.left = 0
    BY <2>1, <2>2, <2>3 DEF Underway
  <2>4. CASE u.left # 0
    <3>1. Underway(m, s, a, n, k + 1, UnmapTable(u))
      BY <2>1, <2>4, UnderwayOn
    <3> QED
      BY <2>2, <2>4, <3>1
  <2> QED
    BY <2>3, <2>4
<1>6. Underway(m, s, a, n, N, h[N])
  <2> HIDE DEF S
  <2>1. N \in S
    BY <1>3, <1>4, <1>5, SetInduction
  <2> QED
    BY <1>3, <2>1 DEF S
<1> DEFINE u == h[N]
<1> HIDE DEF u
<1>7. u.left = 0
  <2> SUFFICES ASSUME u.left # 0 PROVE FALSE
    OBVIOUS
  <2>1. /\ u.page \in Nat /\ u.left \in Nat /\ a <= u.page /\ u.page + u.left = a + n
        /\ N <= PdIndex(u.page)
    BY <1>6 DEF Underway, u
  <2>2. u.page \in a .. a + n - 1
    BY <2>1
  <2>3. PdIndex(u.page) \in Tables
    BY <1>0, <2>2, SpaceIs
  <2> QED
    BY <1>3, <2>1, <2>3, VmmAssumption DEF Tables
<1>8. Done(a, n, u) = a + n
  BY <1>7 DEF Done
<1> QED
  BY <1>2, <1>6, <1>8 DEF Underway, u

-----------------------------------------------------------------------------
(* What the list of free ranges covers after pages are taken from it and   *)
(* after pages are given back.                                             *)
LEMMA CoveredIs ==
  ASSUME NEW N, N \subseteq Node, NEW p \in Nat
  PROVE  p \in Covered(N) <=> \E r \in N : r.addr <= p /\ p < r.addr + r.size
BY DEF Covered, PagesOf, Node

LEMMA RestCovered ==
  ASSUME NEW N, NEW lo \in Nat, NEW hi \in Nat, Ranges(N, lo, hi),
         NEW r \in N, NEW n \in Nat \ {0}, n <= r.size, NEW p \in Nat
  PROVE  p \in Covered((N \ {r}) \cup Rest(r, n))
           <=> p \in Covered(N) /\ p \notin r.addr .. r.addr + n - 1
<1> DEFINE M    == (N \ {r}) \cup Rest(r, n)
           tail == Extent(r.addr + n, r.size - n)
<1>1. r \in Node /\ r.addr \in Nat /\ r.size \in Nat
  BY DEF Ranges, Node
<1>2. N \subseteq Node /\ M \subseteq Node
  BY RestRanges DEF Ranges
<1>3. \A x \in N \ {r} : /\ x.addr \in Nat /\ x.size \in Nat
                         /\ x.addr + x.size < r.addr \/ r.addr + r.size < x.addr
  BY DEF Ranges, Apart, Node
<1>4. \A x : x \in M <=> x \in N \ {r} \/ (n < r.size /\ x = tail)
  BY <1>1 DEF Rest
<1>5. tail.addr = r.addr + n /\ tail.size = r.size - n
  BY DEF Extent
<1> HIDE DEF M, tail
<1>6. p \in Covered(M) <=> \E x \in M : x.addr <= p /\ p < x.addr + x.size
  BY <1>2, CoveredIs
<1>7. p \in Covered(N) <=> \E x \in N : x.addr <= p /\ p < x.addr + x.size
  BY <1>2, CoveredIs
<1>8. ASSUME p \in Covered(M) PROVE p \in Covered(N) /\ p \notin r.addr .. r.addr + n - 1
  <2>1. PICK x \in M : x.addr <= p /\ p < x.addr + x.size
    BY <1>6, <1>8
  <2>2. CASE x \in N \ {r}
    BY <1>1, <1>3, <1>7, <2>1, <2>2
  <2>3. CASE n < r.size /\ x = tail
    BY <1>1, <1>5, <1>7, <2>1, <2>3
  <2> QED
    BY <1>4, <2>1, <2>2, <2>3
<1>9. ASSUME p \in Covered(N), p \notin r.addr .. r.addr + n - 1 PROVE p \in Covered(M)
  <2>1. PICK x \in N : x.addr <= p /\ p < x.addr + x.size
    BY <1>7, <1>9
  <2>2. CASE x # r
    BY <1>4, <1>6, <2>1, <2>2
  <2>3. CASE x = r
    <3>1. r.addr + n <= p /\ p < r.addr + r.size /\ n < r.size
      BY <1>1, <1>9, <2>1, <2>3
    <3>2. tail \in M /\ tail.addr <= p /\ p < tail.addr + tail.size
      BY <1>1, <1>4, <1>5, <3>1
    <3> QED
      BY <1>6, <3>2
  <2> QED
    BY <2>2, <2>3
<1> QED
  BY <1>8, <1>9 DEF M

LEMMA SplitCovered ==
  ASSUME NEW N, NEW lo \in Nat, NEW hi \in Nat, Ranges(N, lo, hi),
         NEW r \in N, NEW n \in Nat \ {0}, NEW a \in Nat,
         r.addr <= a, a + n <= r.addr + r.size, NEW p \in Nat
  PROVE  p \in Covered((N \ {r}) \cup Split(r, a, n))
           <=> p \in Covered(N) /\ p \notin a .. a + n - 1
<1>1. r \in Node /\ r.addr \in Nat /\ r.size \in Nat
  BY DEF Ranges, Node
<1>2. CASE a = r.addr
  <2>1. n <= r.size
    BY <1>1, <1>2
  <2> QED
    BY <1>2, <2>1, RestCovered DEF Split
<1>3. CASE a # r.addr
  <2> DEFINE M    == (N \ {r}) \cup Split(r, a, n)
             head == Extent(r.addr, a - r.addr)
             tail == Extent(a + n, r.addr + r.size - (a + n))
  <2>1. \A x : x \in M <=> x \in N \ {r} \/ x = head \/ (x = tail /\ a + n # r.addr + r.size)
    BY <1>3 DEF Split
  <2>2. N \subseteq Node /\ M \subseteq Node
    BY SplitRanges DEF Ranges
  <2>3. \A x \in N \ {r} : /\ x.addr \in Nat /\ x.size \in Nat
                           /\ x.addr + x.size < r.addr \/ r.addr + r.size < x.addr
    BY DEF Ranges, Apart, Node
  <2>4. head.addr = r.addr /\ head.size = a - r.addr
    BY DEF Extent
  <2>5. tail.addr = a + n /\ tail.size = r.addr + r.size - (a + n)
    BY DEF Extent
  <2> HIDE DEF M, head, tail
  <2>6. p \in Covered(M) <=> \E x \in M : x.addr <= p /\ p < x.addr + x.size
    BY <2>2, CoveredIs
  <2>7. p \in Covered(N) <=> \E x \in N : x.addr <= p /\ p < x.addr + x.size
    BY <2>2, CoveredIs
  <2>8. ASSUME p \in Covered(M) PROVE p \in Covered(N) /\ p \notin a .. a + n - 1
    <3>1. PICK x \in M : x.addr <= p /\ p < x.addr + x.size
      BY <2>6, <2>8
    <3>2. CASE x \in N \ {r}
      BY <1>1, <2>3, <2>7, <3>1, <3>2
    <3>3. CASE x = head
      BY <1>1, <2>4, <2>7, <3>1, <3>3
    <3>4. CASE x = tail /\ a + n # r.addr + r.size
      BY <1>1, <2>5, <2>7, <3>1, <3>4
    <3> QED
      BY <2>1, <3>1, <3>2, <3>3, <3>4
  <2>9. ASSUME p \in Covered(N), p \notin a .. a + n - 1 PROVE p \in Covered(M)
    <3>1. PICK x \in N : x.addr <= p /\ p < x.addr + x.size
      BY <2>7, <2>9
    <3>2. CASE x # r
      BY <2>1, <2>6, <3>1, <3>2
    <3>3. CASE x = r /\ p < a
      <4>1. head \in M /\ head.addr <= p /\ p < head.addr + head.size
        BY <1>1, <2>1, <2>4, <3>1, <3>3
      <4> QED
        BY <2>6, <4>1
    <3>4. CASE x = r /\ a + n <= p
      <4>1. tail \in M /\ tail.addr <= p /\ p < tail.addr + tail.size
        BY <1>1, <2>1, <2>5, <3>1, <3>4
      <4> QED
        BY <2>6, <4>1
    <3> QED
      BY <2>9, <3>2, <3>3, <3>4
  <2> QED
    BY <2>8, <2>9 DEF M
<1> QED
  BY <1>2, <1>3

LEMMA SupplyNodes ==
  ASSUME NEW N, N \subseteq Node, NEW r \in Node
  PROVE  /\ Supply(N, r) \subseteq Node
         /\ \A p \in Nat : p \in Covered(Supply(N, r)) <=> p \in Covered(N) \/ p \in PagesOf(r)
<1> DEFINE F == OrElse(FrontNode(N, r), r)
           B == OrElse(BackNode(N, r), r)
           P == N \ (FrontNode(N, r) \cup BackNode(N, r))
           M == Supply(N, r)
<1>1. r.addr \in Nat /\ r.size \in Nat \ {0} /\ \A x \in N : x.addr \in Nat /\ x.size \in Nat \ {0}
  BY DEF Node
<1>2. F # {} /\ \A f \in F : f = r \/ (f \in N /\ f.addr + f.size = r.addr)
  BY DEF OrElse, FrontNode
<1>3. B # {} /\ \A b \in B : b = r \/ (b \in N /\ b.addr = r.addr + r.size)
  BY DEF OrElse, BackNode
<1>4. /\ \A f \in N : f.addr + f.size = r.addr => f \in F
      /\ \A b \in N : b.addr = r.addr + r.size => b \in B
      /\ \A x \in N : x \in P \/ x.addr + x.size = r.addr \/ x.addr = r.addr + r.size
  BY DEF OrElse, FrontNode, BackNode
<1>5. /\ \A x \in M : x \in P \/ \E f \in F, b \in B : x = Join(f, b)
      /\ P \subseteq M /\ \A f \in F, b \in B : Join(f, b) \in M
  BY DEF Supply
<1>6. P \subseteq N
  OBVIOUS
<1> HIDE DEF F, B, P, M
<1>7. \A f \in F : f.addr \in Nat /\ f.size \in Nat /\ f.addr <= r.addr /\ f.addr + f.size >= r.addr
  BY <1>1, <1>2
<1>8. \A b \in B : /\ b.addr \in Nat /\ b.size \in Nat /\ b.addr <= r.addr + r.size
                   /\ b.addr + b.size >= r.addr + r.size
  BY <1>1, <1>3
<1>9. ASSUME NEW f \in F, NEW b \in B
      PROVE  /\ Join(f, b) \in Node /\ Join(f, b).addr = f.addr
             /\ Join(f, b).addr + Join(f, b).size = b.addr + b.size
  BY <1>1, <1>7, <1>8 DEF Join, Extent, Node
<1>10. M \subseteq Node
  BY <1>5, <1>6, <1>9
<1>11. ASSUME NEW p \in Nat PROVE p \in Covered(M) <=> p \in Covered(N) \/ p \in PagesOf(r)
  <2>1. p \in Covered(M) <=> \E x \in M : x.addr <= p /\ p < x.addr + x.size
    BY <1>10, CoveredIs
  <2>2. p \in Covered(N) <=> \E x \in N : x.addr <= p /\ p < x.addr + x.size
    BY CoveredIs
  <2>3. p \in PagesOf(r) <=> r.addr <= p /\ p < r.addr + r.size
    BY <1>1 DEF PagesOf
  <2>4. ASSUME p \in Covered(M) PROVE p \in Covered(N) \/ p \in PagesOf(r)
    <3>1. PICK x \in M : x.addr <= p /\ p < x.addr + x.size
      BY <2>1, <2>4
    <3>2. CASE x \in P
      BY <1>6, <2>2, <3>1, <3>2
    <3>3. CASE \E f \in F, b \in B : x = Join(f, b)
      <4>1. PICK f \in F, b \in B : x = Join(f, b)
        BY <3>3
      <4>2. f.addr <= p /\ p < b.addr + b.size
        BY <1>9, <3>1, <4>1
      <4>3. CASE p < r.addr
        BY <1>2, <2>2, <4>2, <4>3, <1>1
      <4>4. CASE r.addr + r.size <= p
        BY <1>3, <2>2, <4>2, <4>4, <1>1
      <4> QED
        BY <1>1, <2>3, <4>3, <4>4
    <3> QED
      BY <1>5, <3>1, <3>2, <3>3
  <2>5. ASSUME p \in Covered(N) \/ p \in PagesOf(r) PROVE p \in Covered(M)
    <3>1. PICK f \in F : TRUE
      BY <1>2
    <3>2. PICK b \in B : TRUE
      BY <1>3
    <3>3. CASE p \in PagesOf(r)
      <4>1. Join(f, b).addr <= p /\ p < Join(f, b).addr + Join(f, b).size
        BY <1>1, <1>7, <1>8, <1>9, <2>3, <3>3
      <4> QED
        BY <1>5, <2>1, <4>1
    <3>4. CASE p \in Covered(N)
      <4>1. PICK x \in N : x.addr <= p /\ p < x.addr + x.size
        BY <2>2, <3>4
      <4>2. CASE x \in P
        BY <1>5, <2>1, <4>1, <4>2
      <4>3. CASE x.addr + x.size = r.addr
        <5>1. x \in F
          BY <1>4, <4>3
        <5>2. Join(x, b).addr <= p /\ p < Join(x, b).addr + Join(x, b).size
          BY <1>1, <1>8, <1>9, <4>1, <4>3, <5>1
        <5> QED
          BY <1>5, <2>1, <5>1, <5>2
      <4>4. CASE x.addr = r.addr + r.size
        <5>1. x \in B
          BY <1>4, <4>4
        <5>2. Join(f, x).addr <= p /\ p < Join(f, x).addr + Join(f, x).size
          BY <1>1, <1>7, <1>9, <4>1, <4>4, <5>1
        <5> QED
          BY <1>5, <2>1, <5>1, <5>2
      <4> QED
        BY <1>4, <4>2, <4>3, <4>4
    <3> QED
      BY <2>5, <3>3, <3>4
  <2> QED
    BY <2>4, <2>5
<1> QED
  BY <1>10, <1>11 DEF M

-----------------------------------------------------------------------------
(* The inductive invariant.  What a directory that is not loaded says of   *)
(* kernel space is not part of it: no value depends on it.  A process that *)
(* is not in service has no page mapped, one in service all but those on   *)
(* its list.                                                               *)
Typed ==
  /\ free \subseteq Frames /\ tables \in [Frames \cup {0} -> Entered]
  /\ directory \in [Spaces -> [Tables -> Frames \cup {Absent}]]
  /\ pdFrame \in [Spaces -> Frames \cup {0}]
  /\ stage \in [Procs -> Stages] /\ loaded \in Loadable
  /\ \A s \in Spaces : nodes[s] \subseteq Node
  /\ \A p \in Procs : stage[p] = "none" <=> pdFrame[p] = 0

NeededNow ==
  \A s \in Spaces : \A i \in Own(s) :
    Now[<<"table", s, i>>] # Absent =>
      \E page \in Pages(s) : PdIndex(page) = i /\ Now[<<"page", s, page>>] # Absent

Exact ==
  \A s \in Spaces : \A page \in Pages(s) :
    Now[<<"page", s, page>>] = Absent <=> s \notin InService \/ page \in Covered(nodes[s])

IInv == Inv /\ Typed /\ Once(free, Now) /\ NeededNow /\ Exact

LEMMA SpacesAre ==
  ASSUME Typed
  PROVE  /\ Loadable \subseteq Spaces /\ InService \subseteq Spaces /\ loaded \in Spaces
         /\ Usable \subseteq Here /\ Usable \subseteq InService /\ Owners
         /\ \A s \in Usable : s \in Spaces
BY DEF Typed, Loadable, InService, Spaces, Usable, Here, Owners

LEMMA NowIsV ==
  ASSUME Typed
  PROVE  Now = V(Mapping(loaded)) /\ Mapping(loaded) \in MapSet
<1>1. loaded \in Spaces
  BY SpacesAre
<1>2. [directory EXCEPT ![loaded] = directory[loaded]] = directory
  BY <1>1 DEF Typed
<1>3. /\ Mapping(loaded).dir = directory[loaded] /\ Mapping(loaded).tables = tables
      /\ Mapping(loaded).free = free
  BY DEF Mapping
<1>4. V(Mapping(loaded)) = Val([directory EXCEPT ![loaded] = directory[loaded]], tables, pdFrame, loaded)
  BY <1>3 DEF V
<1>5. V(Mapping(loaded)) = Now
  BY <1>2, <1>4 DEF Now
<1> QED
  BY <1>1, <1>5 DEF Mapping, MapSet, Typed

LEMMA MappingGood ==
  ASSUME Typed, Once(free, Now), NeededNow
  PROVE  Good(Mapping(loaded)) /\ Needed(Mapping(loaded))
<1>1. Mapping(loaded).free = free
  BY DEF Mapping
<1>2. Now = V(Mapping(loaded)) /\ Mapping(loaded) \in MapSet
  BY NowIsV
<1>3. Good(Mapping(loaded))
  BY <1>1, <1>2 DEF Good
<1>4. Needed(Mapping(loaded))
  BY <1>2 DEF Needed, NeededNow
<1> QED
  BY <1>3, <1>4

(* What holds once a mapping is installed.                                 *)
LEMMA Installed ==
  ASSUME Typed, NEW x, Good(x), Needed(x), Installs(x), UNCHANGED <<pdFrame, loaded>>
  PROVE  /\ Now' = V(x) /\ Once(free', Now') /\ NeededNow'
         /\ free' \subseteq Frames /\ tables' \in [Frames \cup {0} -> Entered]
         /\ directory' \in [Spaces -> [Tables -> Frames \cup {Absent}]]
<1>1. /\ free' = x.free /\ tables' = x.tables
      /\ directory' = [directory EXCEPT ![loaded] = x.dir]
  BY DEF Installs
<1>2. Now' = V(x)
  BY <1>1 DEF Now, V
<1>3. NeededNow'
  BY <1>2 DEF NeededNow, Needed
<1>4. Once(free', Now')
  BY <1>1, <1>2 DEF Good
<1> QED
  BY <1>1, <1>2, <1>3, <1>4 DEF Good, MapSet, Typed

LEMMA CoveredIn ==
  ASSUME Inv, NEW s \in InService, s \in Spaces
  PROVE  Covered(nodes[s]) \subseteq Pages(s) /\ Ranges(nodes[s], First(s), First(s) + Length(s))
<1>1. Ranges(nodes[s], First(s), First(s) + Length(s))
  BY DEF Inv, FreeRanges, Ranges
<1>2. First(s) \in Nat /\ Length(s) \in Nat
  BY SpaceBounds
<1>3. ASSUME NEW r \in nodes[s] PROVE PagesOf(r) \subseteq Pages(s)
  <2>1. /\ r.addr \in Nat /\ r.size \in Nat
        /\ First(s) <= r.addr /\ r.addr + r.size <= First(s) + Length(s)
    BY <1>1 DEF Ranges, Node, Inside
  <2> QED
    BY <1>2, <2>1 DEF PagesOf, Pages
<1> QED
  BY <1>1, <1>3 DEF Covered

(* What a step does to the pages: those of one space get frames, or lose   *)
(* them.                                                                   *)
Grants(s) ==
  \A q \in Spaces : \A p \in Pages(q) :
    \/ Now'[<<"page", q, p>>] = Now[<<"page", q, p>>]
    \/ q = s /\ Now[<<"page", q, p>>] = Absent /\ Now'[<<"page", q, p>>] \in Frames

Releases(s) ==
  \A q \in Spaces : \A p \in Pages(q) :
    \/ Now'[<<"page", q, p>>] = Now[<<"page", q, p>>]
    \/ q = s /\ Now'[<<"page", q, p>>] = Absent

(* A call that takes pages from the list and maps them ...                 *)
LEMMA TakesPages ==
  ASSUME IInv, Inv', NEW s \in Usable, NEW a \in Nat, NEW n \in Nat \ {0}, NEW M,
         a .. a + n - 1 \subseteq Covered(nodes[s]),
         Enough(Mapping(loaded), a, n), Installs(MapPages(Mapping(loaded), a, n)),
         nodes' = [nodes EXCEPT ![s] = M], M \subseteq Node,
         \A p \in Nat : p \in Covered(M) <=> p \in Covered(nodes[s]) /\ p \notin a .. a + n - 1,
         UNCHANGED <<pdFrame, stage, loaded>>
  PROVE  IInv' /\ Grants(s)
<1> DEFINE m == Mapping(loaded)
           x == MapPages(m, a, n)
<1>1. /\ Typed /\ Owners /\ s \in Spaces /\ s \in Here /\ s \in InService
      /\ Good(m) /\ Needed(m) /\ Now = V(m)
  BY SpacesAre, NowIsV, MappingGood DEF IInv
<1>2. Covered(nodes[s]) \subseteq Pages(s)
  BY <1>1, CoveredIn DEF IInv
<1>3. \A page \in a .. a + n - 1 : V(m)[<<"page", s, page>>] = Absent
  BY <1>1, <1>2 DEF IInv, Exact
<1> HIDE DEF m, x
<1>4. PagesMapped(m, s, a, n, x)
  <2>1. Enough(m, a, n) /\ a .. a + n - 1 \subseteq Pages(s) /\ n \in Nat
    BY <1>2 DEF m
  <2> QED
    BY <1>1, <1>3, <2>1, MapPagesDoes DEF x
<1>5. /\ Now' = V(x) /\ Once(free', Now') /\ NeededNow'
      /\ free' \subseteq Frames /\ tables' \in [Frames \cup {0} -> Entered]
      /\ directory' \in [Spaces -> [Tables -> Frames \cup {Absent}]]
  <2>1. Good(x) /\ Needed(x)
    BY <1>4 DEF PagesMapped
  <2>2. Installs(x)
    BY DEF x, m
  <2> QED
    BY <1>1, <2>1, <2>2, Installed
<1>6. nodes'[s] = M /\ \A q \in Spaces \ {s} : nodes'[q] = nodes[q]
  BY <1>1 DEF IInv, Inv, Fields
<1>7. Typed'
  <2>1. \A q \in Spaces : nodes'[q] \subseteq Node
    BY <1>1, <1>6 DEF Typed
  <2>2. Loadable' = Loadable
    BY DEF Loadable
  <2> QED
    BY <1>1, <1>5, <2>1, <2>2 DEF Typed
<1>8. Exact'
  <2>1. InService' = InService
    BY DEF InService
  <2> SUFFICES ASSUME NEW q \in Spaces, NEW p \in Pages(q)
               PROVE  V(x)[<<"page", q, p>>] = Absent <=> q \notin InService \/ p \in Covered(nodes'[q])
    BY <1>5, <2>1 DEF Exact, Pages, First, Length
  <2>2. p \in Nat
    BY SpaceIs
  <2>3. V(m)[<<"page", q, p>>] = Absent <=> q \notin InService \/ p \in Covered(nodes[q])
    BY <1>1 DEF IInv, Exact
  <2>4. CASE q = s /\ p \in a .. a + n - 1
    <3>1. V(x)[<<"page", q, p>>] \in Frames
      BY <1>4, <2>4 DEF PagesMapped
    <3> QED
      BY <1>1, <1>6, <2>2, <2>4, <3>1, VmmAssumption
  <2>5. CASE q # s \/ p \notin a .. a + n - 1
    <3>1. V(x)[<<"page", q, p>>] = V(m)[<<"page", q, p>>]
      BY <1>4, <2>5 DEF PagesMapped
    <3>2. p \in Covered(nodes'[q]) <=> p \in Covered(nodes[q])
      BY <1>6, <2>2, <2>5
    <3> QED
      BY <2>3, <3>1, <3>2
  <2> QED
    BY <2>4, <2>5
<1>9. Grants(s)
  BY <1>1, <1>3, <1>4, <1>5 DEF Grants, PagesMapped
<1> QED
  BY <1>5, <1>7, <1>8, <1>9 DEF IInv

(* ... and one that unmaps pages and gives them back.                      *)
LEMMA GivesPages ==
  ASSUME IInv, Inv', NEW s \in Usable, NEW a \in Nat, NEW n \in Nat \ {0}, NEW M,
         a .. a + n - 1 \subseteq Allocated(s),
         Installs(UnmapPages(Mapping(loaded), a, n)),
         nodes' = [nodes EXCEPT ![s] = M], M \subseteq Node,
         \A p \in Nat : p \in Covered(M) <=> p \in Covered(nodes[s]) \/ p \in a .. a + n - 1,
         UNCHANGED <<pdFrame, stage, loaded>>
  PROVE  IInv' /\ Releases(s)
<1> DEFINE m == Mapping(loaded)
           x == UnmapPages(m, a, n)
<1>1. /\ Typed /\ Owners /\ s \in Spaces /\ s \in Here /\ s \in InService
      /\ Good(m) /\ Needed(m) /\ Now = V(m)
  BY SpacesAre, NowIsV, MappingGood DEF IInv
<1>2. a .. a + n - 1 \subseteq Pages(s)
  BY DEF Allocated
<1>3. Reached(m, s, a, n)
  <2>1. \A page \in a .. a + n - 1 : V(m)[<<"page", s, page>>] # Absent
    BY <1>1, <1>2 DEF IInv, Exact, Allocated
  <2> QED
    BY <2>1 DEF Reached
<1> HIDE DEF m, x
<1>4. PagesUnmapped(m, s, a, a + n, x)
  BY <1>1, <1>2, <1>3, UnmapPagesDoes DEF x
<1>5. /\ Now' = V(x) /\ Once(free', Now') /\ NeededNow'
      /\ free' \subseteq Frames /\ tables' \in [Frames \cup {0} -> Entered]
      /\ directory' \in [Spaces -> [Tables -> Frames \cup {Absent}]]
  <2>1. Good(x) /\ Needed(x)
    BY <1>4 DEF PagesUnmapped
  <2>2. Installs(x)
    BY DEF x, m
  <2> QED
    BY <1>1, <2>1, <2>2, Installed
<1>6. nodes'[s] = M /\ \A q \in Spaces \ {s} : nodes'[q] = nodes[q]
  BY <1>1 DEF IInv, Inv, Fields
<1>7. Typed'
  <2>1. \A q \in Spaces : nodes'[q] \subseteq Node
    BY <1>1, <1>6 DEF Typed
  <2>2. Loadable' = Loadable
    BY DEF Loadable
  <2> QED
    BY <1>1, <1>5, <2>1, <2>2 DEF Typed
<1>8. Exact'
  <2>1. InService' = InService
    BY DEF InService
  <2> SUFFICES ASSUME NEW q \in Spaces, NEW p \in Pages(q)
               PROVE  V(x)[<<"page", q, p>>] = Absent <=> q \notin InService \/ p \in Covered(nodes'[q])
    BY <1>5, <2>1 DEF Exact, Pages, First, Length
  <2>2. p \in Nat
    BY SpaceIs
  <2>3. V(m)[<<"page", q, p>>] = Absent <=> q \notin InService \/ p \in Covered(nodes[q])
    BY <1>1 DEF IInv, Exact
  <2>4. CASE q = s /\ p \in a .. a + n - 1
    <3>1. V(x)[<<"page", q, p>>] = Absent
      BY <1>4, <2>4 DEF PagesUnmapped
    <3> QED
      BY <1>1, <1>6, <2>2, <2>4, <3>1
  <2>5. CASE q # s \/ p \notin a .. a + n - 1
    <3>1. V(x)[<<"page", q, p>>] = V(m)[<<"page", q, p>>]
      BY <1>4, <2>5 DEF PagesUnmapped
    <3>2. p \in Covered(nodes'[q]) <=> p \in Covered(nodes[q])
      BY <1>6, <2>2, <2>5
    <3> QED
      BY <2>3, <3>1, <3>2
  <2> QED
    BY <2>4, <2>5
<1>9. Releases(s)
  BY <1>1, <1>4, <1>5 DEF Releases, PagesUnmapped
<1> QED
  BY <1>5, <1>7, <1>8, <1>9 DEF IInv

LEMMA IInvAllocPages ==
  ASSUME IInv, NEW s \in Spaces, NEW n \in Sizes, AllocPages(s, n)
  PROVE  IInv' /\ Grants(s)
<1>1. s \in Usable /\ s \in InService
  BY DEF AllocPages, Usable, InService
<1>2. PICK r \in Best(nodes[s], n) :
        /\ Enough(Mapping(loaded), r.addr, n)
        /\ Installs(MapPages(Mapping(loaded), r.addr, n))
        /\ nodes' = [nodes EXCEPT ![s] = (nodes[s] \ {r}) \cup Rest(r, n)]
  BY DEF AllocPages
<1>3. Ranges(nodes[s], First(s), First(s) + Length(s)) /\ First(s) \in Nat /\ First(s) + Length(s) \in Nat
  BY <1>1, CoveredIn, SpaceBounds DEF IInv
<1>4. r \in nodes[s] /\ n <= r.size /\ n \in Nat \ {0} /\ r.addr \in Nat /\ r.size \in Nat
  <2>1. r \in nodes[s] /\ r.size >= n
    BY DEF Best
  <2>2. r \in Node
    BY <1>3, <2>1 DEF Ranges
  <2> QED
    BY <2>1, <2>2, VmmAssumption DEF Node
<1> DEFINE M == (nodes[s] \ {r}) \cup Rest(r, n)
           a == r.addr
<1>5. M \subseteq Node
  BY <1>3, <1>4, RestRanges DEF Ranges
<1>6. \A p \in Nat : p \in Covered(M) <=> p \in Covered(nodes[s]) /\ p \notin a .. a + n - 1
  BY <1>3, <1>4, RestCovered
<1>7. a .. a + n - 1 \subseteq Covered(nodes[s])
  BY <1>4 DEF Covered, PagesOf
<1>8. Inv' /\ UNCHANGED <<pdFrame, stage, loaded>>
  BY InvAllocPages DEF IInv, AllocPages
<1> HIDE DEF M
<1>9. nodes' = [nodes EXCEPT ![s] = M]
  BY <1>2 DEF M
<1> QED
  BY <1>1, <1>2, <1>4, <1>5, <1>6, <1>7, <1>8, <1>9, TakesPages

LEMMA IInvAllocPagesAt ==
  ASSUME IInv, NEW s \in Spaces, NEW n \in Sizes, NEW a \in Pages(s), AllocPagesAt(s, n, a)
  PROVE  IInv' /\ Grants(s)
<1>1. s \in Usable /\ s \in InService
  BY DEF AllocPagesAt, Usable, InService
<1>2. PICK r \in nodes[s] :
        /\ a \in PagesOf(r) /\ a + n <= r.addr + r.size
        /\ Enough(Mapping(loaded), a, n) /\ Installs(MapPages(Mapping(loaded), a, n))
        /\ nodes' = [nodes EXCEPT ![s] = (nodes[s] \ {r}) \cup Split(r, a, n)]
  BY DEF AllocPagesAt
<1>3. Ranges(nodes[s], First(s), First(s) + Length(s)) /\ First(s) \in Nat /\ First(s) + Length(s) \in Nat
  BY <1>1, CoveredIn, SpaceBounds DEF IInv
<1>4. a \in Nat /\ n \in Nat \ {0} /\ r.addr <= a /\ r.addr \in Nat /\ r.size \in Nat
  BY <1>2, <1>3, VmmAssumption DEF Ranges, Node, PagesOf
<1> DEFINE M == (nodes[s] \ {r}) \cup Split(r, a, n)
<1>5. M \subseteq Node
  BY <1>2, <1>3, <1>4, SplitRanges DEF Ranges
<1>6. \A p \in Nat : p \in Covered(M) <=> p \in Covered(nodes[s]) /\ p \notin a .. a + n - 1
  BY <1>2, <1>3, <1>4, SplitCovered
<1>7. a .. a + n - 1 \subseteq Covered(nodes[s])
  BY <1>2, <1>4 DEF Covered, PagesOf
<1>8. Inv' /\ UNCHANGED <<pdFrame, stage, loaded>>
  BY InvAllocPagesAt DEF IInv, AllocPagesAt
<1> HIDE DEF M
<1>9. nodes' = [nodes EXCEPT ![s] = M]
  BY <1>2 DEF M
<1> QED
  BY <1>1, <1>2, <1>4, <1>5, <1>6, <1>7, <1>8, <1>9, TakesPages

LEMMA IInvFreePages ==
  ASSUME IInv, NEW s \in Spaces, NEW n \in Sizes, NEW a \in Pages(s), FreePages(s, n, a)
  PROVE  IInv' /\ Releases(s)
<1>1. s \in Usable /\ s \in InService
  BY DEF FreePages, Usable, InService
<1>2. a \in Nat /\ n \in Nat \ {0}
  BY SpaceIs, VmmAssumption
<1> DEFINE M == Supply(nodes[s], Extent(a, n))
<1>3. M \subseteq Node /\ \A p \in Nat : p \in Covered(M) <=> p \in Covered(nodes[s]) \/ p \in a .. a + n - 1
  <2>1. Extent(a, n) \in Node /\ PagesOf(Extent(a, n)) = a .. a + n - 1
    BY <1>2 DEF Extent, Node, PagesOf
  <2>2. nodes[s] \subseteq Node
    BY DEF IInv, Typed
  <2> QED
    BY <2>1, <2>2, SupplyNodes
<1>4. Inv' /\ UNCHANGED <<pdFrame, stage, loaded>>
  BY InvFreePages DEF IInv, FreePages
<1> HIDE DEF M
<1>5. /\ a .. a + n - 1 \subseteq Allocated(s) /\ Installs(UnmapPages(Mapping(loaded), a, n))
      /\ nodes' = [nodes EXCEPT ![s] = M]
  BY DEF FreePages, M
<1> QED
  BY <1>1, <1>2, <1>3, <1>4, <1>5, GivesPages

(* Of the values nothing changes when directories are: kernel space is     *)
(* copied from the one that was loaded, process space stays.               *)
LEMMA CopyKeepsNow ==
  ASSUME Typed, NEW s \in Spaces, directory' = CopyCurrentMapping(s), loaded' = s,
         UNCHANGED <<tables, pdFrame>>
  PROVE  /\ \A k \in Keys : Now'[k] = Now[k]
         /\ directory' \in [Spaces -> [Tables -> Frames \cup {Absent}]]
<1>1. directory' = [directory EXCEPT ![s] =
        [i \in Tables |-> IF i \in KernelEntries THEN directory[loaded][i] ELSE directory[s][i]]]
  BY DEF CopyCurrentMapping
<1>2. /\ directory \in [Spaces -> [Tables -> Frames \cup {Absent}]] /\ loaded \in Spaces
      /\ directory[loaded] \in [Tables -> Frames \cup {Absent}]
      /\ directory[s] \in [Tables -> Frames \cup {Absent}]
  BY SpacesAre DEF Typed
<1>3. directory' \in [Spaces -> [Tables -> Frames \cup {Absent}]]
  BY <1>1, <1>2
<1>4. ASSUME NEW q \in Spaces, NEW i \in Own(q)
      PROVE  Leading(directory', s, q)[i] = Leading(directory, loaded, q)[i]
  <2>1. i \in Tables /\ (q = Kernel <=> i \in KernelEntries)
    BY SpaceIs, OwnApart
  <2> QED
    BY <1>1, <1>2, <2>1 DEF Leading
<1>5. Now' = Val(directory', tables, pdFrame, s)
  BY DEF Now
<1>6. ASSUME NEW k \in Keys PROVE Now'[k] = Now[k]
  <2>1. PICK q \in Spaces : \/ k = <<"directory", q, 0>>
                            \/ \E i \in Own(q) : k = <<"table", q, i>>
                            \/ \E p \in Pages(q) : k = <<"page", q, p>>
    BY KeyKinds
  <2> DEFINE D == directory'
  <2> HIDE DEF D
  <2>2. CASE k = <<"directory", q, 0>>
    <3>1. Val(D, tables, pdFrame, s)[k] = pdFrame[q]
      BY <2>2, ValIs
    <3>2. Now[k] = pdFrame[q]
      BY <2>2, NowIs
    <3> QED
      BY <1>5, <3>1, <3>2 DEF D
  <2>3. CASE \E i \in Own(q) : k = <<"table", q, i>>
    <3>1. PICK i \in Own(q) : k = <<"table", q, i>>
      BY <2>3
    <3>2. Val(D, tables, pdFrame, s)[k] = Leading(D, s, q)[i]
      BY <3>1, ValOfTable
    <3>3. Val(directory, tables, pdFrame, loaded)[k] = Leading(directory, loaded, q)[i]
      BY <3>1, ValOfTable
    <3> QED
      BY <1>4, <1>5, <3>2, <3>3 DEF D, Now
  <2>4. CASE \E p \in Pages(q) : k = <<"page", q, p>>
    <3>1. PICK p \in Pages(q) : k = <<"page", q, p>>
      BY <2>4
    <3>2. Val(D, tables, pdFrame, s)[k] = Through(Leading(D, s, q)[PdIndex(p)], tables, PtIndex(p))
      BY <3>1, ValOfPage
    <3>3. Val(directory, tables, pdFrame, loaded)[k]
            = Through(Leading(directory, loaded, q)[PdIndex(p)], tables, PtIndex(p))
      BY <3>1, ValOfPage
    <3>4. PdIndex(p) \in Own(q)
      BY SpaceIs
    <3> QED
      BY <1>4, <1>5, <3>2, <3>3, <3>4 DEF D, Now
  <2> QED
    BY <2>1, <2>2, <2>3, <2>4
<1> QED
  BY <1>3, <1>6

(* The values of pages and tables stay as they are.                        *)
SameUses ==
  \A s \in Spaces : /\ \A i \in Own(s) : Now'[<<"table", s, i>>] = Now[<<"table", s, i>>]
                    /\ \A p \in Pages(s) : Now'[<<"page", s, p>>] = Now[<<"page", s, p>>]

LEMMA SameNeeded ==
  ASSUME NeededNow, SameUses
  PROVE  NeededNow' /\ \A s \in Spaces : Grants(s)
<1>1. NeededNow'
  BY DEF NeededNow, SameUses
<1> QED
  BY <1>1 DEF SameUses, Grants

LEMMA IInvSwitch ==
  ASSUME IInv, NEW s \in Spaces, Switch(s)
  PROVE  IInv' /\ Grants(s)
<1>1. Typed /\ s \in Loadable
  BY DEF IInv, Switch
<1>2. /\ directory' = CopyCurrentMapping(s) /\ loaded' = s
      /\ UNCHANGED <<free, tables, pdFrame, nodes, stage>>
  BY DEF Switch
<1>3. /\ \A k \in Keys : Now'[k] = Now[k]
      /\ directory' \in [Spaces -> [Tables -> Frames \cup {Absent}]]
  BY <1>1, <1>2, CopyKeepsNow
<1>4. SameUses
  BY <1>3, KeyKinds DEF SameUses
<1>5. NeededNow' /\ Grants(s)
  BY <1>4, SameNeeded DEF IInv
<1>6. Once(free', Now')
  <2>1. Once(free, Now')
    BY <1>3, OnceSame DEF IInv
  <2> QED
    BY <1>2, <2>1
<1>7. Typed'
  <2>1. Loadable' = Loadable
    BY <1>2 DEF Loadable
  <2> QED
    BY <1>1, <1>2, <1>3, <2>1 DEF Typed
<1>8. Exact'
  <2>1. InService' = InService
    BY <1>2 DEF InService
  <2> QED
    BY <1>2, <1>4, <2>1 DEF IInv, Exact, SameUses
<1>9. Inv'
  BY <1>2 DEF IInv, Inv, Fields, FreeRanges, InService
<1> QED
  BY <1>5, <1>6, <1>7, <1>8, <1>9 DEF IInv

LEMMA IInvLeaveSpace ==
  ASSUME IInv, NEW p \in Procs, LeaveSpace(p)
  PROVE  IInv' /\ Grants(p)
<1>1. Typed /\ Kernel \in Spaces /\ p \in Spaces /\ p # Kernel
  BY VmmAssumption DEF IInv, Spaces
<1>2. /\ directory' = CopyCurrentMapping(Kernel) /\ loaded' = Kernel
      /\ stage[p] = "freed" /\ stage' = [stage EXCEPT ![p] = "left"]
      /\ UNCHANGED <<free, tables, pdFrame, nodes>>
  BY DEF LeaveSpace
<1>3. /\ \A k \in Keys : Now'[k] = Now[k]
      /\ directory' \in [Spaces -> [Tables -> Frames \cup {Absent}]]
  BY <1>1, <1>2, CopyKeepsNow
<1>4. SameUses
  BY <1>3, KeyKinds DEF SameUses
<1>5. NeededNow' /\ Grants(p)
  BY <1>1, <1>4, SameNeeded DEF IInv
<1>6. Once(free', Now')
  <2>1. Once(free, Now')
    BY <1>3, OnceSame DEF IInv
  <2> QED
    BY <1>2, <2>1
<1>7. /\ stage' \in [Procs -> Stages] /\ stage'[p] = "left"
      /\ \A q \in Procs \ {p} : stage'[q] = stage[q]
  BY <1>1, <1>2 DEF Typed, Stages
<1>8. Typed'
  <2>1. loaded' \in Loadable'
    BY <1>2 DEF Loadable
  <2>2. \A q \in Procs : stage'[q] = "none" <=> pdFrame'[q] = 0
    BY <1>1, <1>2, <1>7 DEF Typed
  <2> QED
    BY <1>1, <1>2, <1>3, <1>7, <2>1, <2>2 DEF Typed
<1>9. Exact'
  <2>1. InService' = InService
    BY <1>2, <1>7 DEF InService
  <2> QED
    BY <1>2, <1>4, <2>1 DEF IInv, Exact, SameUses
<1>10. Inv'
  BY InvOthers DEF IInv
<1> QED
  BY <1>5, <1>6, <1>8, <1>9, <1>10 DEF IInv

LEMMA IInvSupplySpace ==
  ASSUME IInv, NEW p \in Procs, SupplySpace(p)
  PROVE  IInv' /\ Grants(p)
<1> DEFINE whole == Extent(First(p), Length(p))
<1>1. Typed /\ p \in Spaces /\ p # Kernel /\ stage[p] = "new" /\ nodes[p] = {}
  BY VmmAssumption DEF IInv, Spaces, SupplySpace, Inv, Fields
<1>2. /\ nodes' = [nodes EXCEPT ![p] = Supply({}, whole)]
      /\ stage' = [stage EXCEPT ![p] = "live"]
      /\ UNCHANGED <<free, tables, directory, pdFrame, loaded>>
  BY <1>1 DEF SupplySpace
<1>3. Now' = Now
  BY <1>2 DEF Now
<1>4. SameUses
  BY <1>3 DEF SameUses
<1>5. NeededNow' /\ Grants(p) /\ Once(free', Now')
  BY <1>1, <1>2, <1>3, <1>4, SameNeeded DEF IInv
<1>6. /\ Supply({}, whole) \subseteq Node
      /\ \A page \in Pages(p) : page \in Covered(Supply({}, whole))
  <2>1. whole \in Node /\ PagesOf(whole) = Pages(p)
    BY <1>1, SpaceBounds DEF Extent, Node, PagesOf, Pages
  <2>2. {} \subseteq Node /\ Pages(p) \subseteq Nat
    BY <1>1, SpaceIs
  <2> HIDE DEF whole
  <2> QED
    BY <2>1, <2>2, SupplyNodes
<1> DEFINE M == Supply({}, whole)
<1> HIDE DEF M
<1>7. /\ nodes'[p] = M /\ \A q \in Spaces \ {p} : nodes'[q] = nodes[q]
      /\ stage'[p] = "live" /\ \A q \in Procs \ {p} : stage'[q] = stage[q]
      /\ stage' \in [Procs -> Stages] /\ M \subseteq Node
      /\ \A page \in Pages(p) : page \in Covered(M)
  BY <1>1, <1>2, <1>6 DEF M, Typed, Stages, IInv, Inv, Fields
<1>8. Typed'
  <2>1. loaded' \in Loadable'
    BY <1>1, <1>2, <1>7 DEF Loadable, Typed
  <2>2. \A q \in Procs : stage'[q] = "none" <=> pdFrame'[q] = 0
    BY <1>1, <1>2, <1>7 DEF Typed
  <2>3. \A q \in Spaces : nodes'[q] \subseteq Node
    BY <1>1, <1>7 DEF Typed
  <2> QED
    BY <1>1, <1>2, <1>7, <2>1, <2>2, <2>3 DEF Typed
<1>9. Exact'
  <2>1. p \notin InService /\ p \in InService'
    BY <1>1, <1>7 DEF InService
  <2>2. \A q \in Spaces \ {p} : q \in InService' <=> q \in InService
    BY <1>7 DEF InService
  <2>3. ASSUME NEW q \in Spaces, NEW page \in Pages(q)
        PROVE  Now[<<"page", q, page>>] = Absent <=> q \notin InService' \/ page \in Covered(nodes'[q])
    <3>1. Now[<<"page", q, page>>] = Absent <=> q \notin InService \/ page \in Covered(nodes[q])
      BY DEF IInv, Exact
    <3> QED
      BY <1>7, <2>1, <2>2, <3>1
  <2> QED
    BY <1>3, <2>3 DEF Exact, Pages, First, Length
<1>10. Inv'
  BY InvSupplySpace DEF IInv
<1> QED
  BY <1>5, <1>8, <1>9, <1>10 DEF IInv

LEMMA IInvFreeSpace ==
  ASSUME IInv, NEW p \in Procs, FreeSpace(p)
  PROVE  IInv' /\ Releases(p)
<1> DEFINE m == Mapping(loaded)
           a == First(p)
           n == Length(p)
           x == UnmapPages(m, a, n)
           M == Supply(nodes[p], Extent(a, n))
<1>1. /\ Typed /\ p \in Spaces /\ p # Kernel /\ stage[p] = "live" /\ p = loaded
      /\ Owners /\ p \in Here /\ Good(m) /\ Needed(m) /\ Now = V(m)
  BY VmmAssumption, SpacesAre, NowIsV, MappingGood DEF IInv, Spaces, FreeSpace, Here
<1>2. /\ Installs(x) /\ nodes' = [nodes EXCEPT ![p] = M]
      /\ stage' = [stage EXCEPT ![p] = "freed"] /\ UNCHANGED <<pdFrame, loaded>>
  BY <1>1 DEF FreeSpace
<1>3. a \in Nat /\ n \in Nat \ {0} /\ a .. a + n - 1 = Pages(p) /\ a = 0
  BY <1>1, SpaceBounds DEF Pages, First
<1>4. M \subseteq Node
  <2>1. Extent(a, n) \in Node
    BY <1>3 DEF Extent, Node
  <2>2. nodes[p] \subseteq Node
    BY <1>1 DEF Typed
  <2> QED
    BY <2>1, <2>2, SupplyNodes
<1>5. Reached(m, p, a, n)
  <2>1. 0 \in Nat /\ 0 \in 0 .. PtEntries - 1 /\ Start(0) = 0
    BY VmmAssumption DEF Start
  <2>2. PtIndex(Start(0) + 0) = 0
    BY <2>1, Starts
  <2> QED
    BY <1>3, <2>1, <2>2 DEF Reached
<1> HIDE DEF m, a, n, x, M
<1>6. PagesUnmapped(m, p, a, a + n, x)
  BY <1>1, <1>3, <1>5, UnmapPagesDoes DEF x
<1>7. /\ Now' = V(x) /\ Once(free', Now') /\ NeededNow'
      /\ free' \subseteq Frames /\ tables' \in [Frames \cup {0} -> Entered]
      /\ directory' \in [Spaces -> [Tables -> Frames \cup {Absent}]]
  <2>1. Good(x) /\ Needed(x)
    BY <1>6 DEF PagesUnmapped
  <2> QED
    BY <1>1, <1>2, <2>1, Installed
<1>8. /\ \A page \in Pages(p) : Now'[<<"page", p, page>>] = Absent
      /\ \A q \in Spaces \ {p} : \A page \in Pages(q) : Now'[<<"page", q, page>>] = Now[<<"page", q, page>>]
  BY <1>1, <1>3, <1>6, <1>7 DEF PagesUnmapped
<1>9. Releases(p)
  BY <1>8 DEF Releases
<1>10. /\ nodes'[p] = M /\ \A q \in Spaces \ {p} : nodes'[q] = nodes[q]
       /\ stage'[p] = "freed" /\ \A q \in Procs \ {p} : stage'[q] = stage[q]
       /\ stage' \in [Procs -> Stages]
  BY <1>1, <1>2 DEF Typed, Stages, IInv, Inv, Fields
<1>11. Typed'
  <2>1. loaded' \in Loadable'
    BY <1>1, <1>2, <1>10 DEF Loadable
  <2>2. \A q \in Procs : stage'[q] = "none" <=> pdFrame'[q] = 0
    BY <1>1, <1>2, <1>10 DEF Typed
  <2>3. \A q \in Spaces : nodes'[q] \subseteq Node
    BY <1>1, <1>4, <1>10 DEF Typed
  <2> QED
    BY <1>1, <1>2, <1>7, <1>10, <2>1, <2>2, <2>3 DEF Typed
<1>12. Exact'
  <2>1. p \notin InService'
    BY <1>1, <1>10 DEF InService
  <2>2. \A q \in Spaces \ {p} : q \in InService' <=> q \in InService
    BY <1>10 DEF InService
  <2>3. ASSUME NEW q \in Spaces, NEW page \in Pages(q)
        PROVE  Now'[<<"page", q, page>>] = Absent <=> q \notin InService' \/ page \in Covered(nodes'[q])
    <3>1. Now[<<"page", q, page>>] = Absent <=> q \notin InService \/ page \in Covered(nodes[q])
      BY DEF IInv, Exact
    <3> QED
      BY <1>8, <1>10, <2>1, <2>2, <3>1
  <2> QED
    BY <2>3 DEF Exact, Pages, First, Length
<1>13. Inv'
  BY InvOthers DEF IInv
<1> QED
  BY <1>7, <1>9, <1>11, <1>12, <1>13 DEF IInv

(* A directory that is not loaded is set up, or given up: its frame is     *)
(* another, nothing else.                                                  *)
LEMMA OneDirectory ==
  ASSUME Typed, NEW p \in Procs, p # loaded, \A i \in Own(p) : directory[p][i] = Absent,
         directory' = [directory EXCEPT ![p] = EmptyDirectory],
         NEW f, pdFrame' = [pdFrame EXCEPT ![p] = f], UNCHANGED <<tables, loaded>>
  PROVE  /\ Now'[<<"directory", p, 0>>] = f /\ Now[<<"directory", p, 0>>] = pdFrame[p]
         /\ \A k \in Keys \ {<<"directory", p, 0>>} : Now'[k] = Now[k]
         /\ SameUses
         /\ directory' \in [Spaces -> [Tables -> Frames \cup {Absent}]]
<1>1. p \in Spaces /\ loaded \in Spaces /\ p # Kernel
  BY VmmAssumption, SpacesAre DEF Spaces
<1>2. EmptyDirectory \in [Tables -> Frames \cup {Absent}] /\ \A i \in Tables : EmptyDirectory[i] = Absent
  BY DEF EmptyDirectory
<1>3. directory' \in [Spaces -> [Tables -> Frames \cup {Absent}]]
  BY <1>1, <1>2 DEF Typed
<1>4. ASSUME NEW q \in Spaces, NEW i \in Own(q)
      PROVE  Leading(directory', loaded, q)[i] = Leading(directory, loaded, q)[i]
  <2>1. i \in Tables
    BY SpaceIs
  <2> QED
    BY <1>1, <1>2, <2>1 DEF Leading, Typed
<1>5. Now' = Val(directory', tables, pdFrame', loaded)
  BY DEF Now
<1>6. ASSUME NEW q \in Spaces PROVE Now'[<<"directory", q, 0>>] = pdFrame'[q]
  <2> DEFINE D == directory'
             d == pdFrame'
  <2> HIDE DEF D, d
  <2>1. Val(D, tables, d, loaded)[<<"directory", q, 0>>] = d[q]
    BY ValIs
  <2> QED
    BY <1>5, <2>1 DEF D, d
<1>7. ASSUME NEW q \in Spaces, NEW i \in Own(q) PROVE Now'[<<"table", q, i>>] = Now[<<"table", q, i>>]
  <2> DEFINE D == directory'
             d == pdFrame'
  <2> HIDE DEF D, d
  <2>1. Val(D, tables, d, loaded)[<<"table", q, i>>] = Leading(D, loaded, q)[i]
    BY ValOfTable
  <2>2. Val(directory, tables, pdFrame, loaded)[<<"table", q, i>>] = Leading(directory, loaded, q)[i]
    BY ValOfTable
  <2> QED
    BY <1>4, <1>5, <2>1, <2>2 DEF D, d, Now
<1>8. ASSUME NEW q \in Spaces, NEW page \in Pages(q)
      PROVE  Now'[<<"page", q, page>>] = Now[<<"page", q, page>>]
  <2> DEFINE D == directory'
             d == pdFrame'
  <2> HIDE DEF D, d
  <2>1. Val(D, tables, d, loaded)[<<"page", q, page>>]
          = Through(Leading(D, loaded, q)[PdIndex(page)], tables, PtIndex(page))
    BY ValOfPage
  <2>2. Val(directory, tables, pdFrame, loaded)[<<"page", q, page>>]
          = Through(Leading(directory, loaded, q)[PdIndex(page)], tables, PtIndex(page))
    BY ValOfPage
  <2>3. PdIndex(page) \in Own(q)
    BY SpaceIs
  <2> QED
    BY <1>4, <1>5, <2>1, <2>2, <2>3 DEF D, d, Now
<1>9. pdFrame'[p] = f /\ \A q \in Spaces \ {p} : pdFrame'[q] = pdFrame[q]
  BY <1>1 DEF Typed
<1>10. ASSUME NEW k \in Keys \ {<<"directory", p, 0>>} PROVE Now'[k] = Now[k]
  <2>1. PICK q \in Spaces : \/ k = <<"directory", q, 0>>
                            \/ \E i \in Own(q) : k = <<"table", q, i>>
                            \/ \E page \in Pages(q) : k = <<"page", q, page>>
    BY KeyKinds
  <2>2. CASE k = <<"directory", q, 0>>
    <3>1. q # p
      BY <1>10, <2>2
    <3>2. Now[k] = pdFrame[q]
      BY <2>2, NowIs
    <3> QED
      BY <1>6, <1>9, <2>2, <3>1, <3>2
  <2>3. CASE \E i \in Own(q) : k = <<"table", q, i>>
    BY <1>7, <2>3
  <2>4. CASE \E page \in Pages(q) : k = <<"page", q, page>>
    BY <1>8, <2>4
  <2> QED
    BY <2>1, <2>2, <2>3, <2>4
<1>11. Now'[<<"directory", p, 0>>] = f /\ Now[<<"directory", p, 0>>] = pdFrame[p]
  BY <1>1, <1>6, <1>9, NowIs
<1>12. SameUses
  BY <1>7, <1>8 DEF SameUses
<1> QED
  BY <1>3, <1>10, <1>11, <1>12

LEMMA NothingEntered ==
  ASSUME NeededNow, Exact, NEW p \in Procs, p # loaded, p \notin InService
  PROVE  \A i \in Own(p) : directory[p][i] = Absent
<1>1. p \in Spaces /\ p # Kernel
  BY VmmAssumption DEF Spaces
<1>2. ASSUME NEW i \in Own(p) PROVE directory[p][i] = Absent
  <2>1. Now[<<"table", p, i>>] = Absent
    BY <1>1 DEF NeededNow, Exact
  <2>2. Now[<<"table", p, i>>] = Entry(p, i)
    BY <1>1, NowIs
  <2> QED
    BY <1>1, <2>1, <2>2 DEF Entry
<1> QED
  BY <1>2

LEMMA IInvInitSpace ==
  ASSUME IInv, NEW p \in Procs, InitSpace(p)
  PROVE  IInv' /\ Grants(p)
<1> DEFINE f == AllocPageFrame(free)
           k == <<"directory", p, 0>>
<1>1. /\ Typed /\ p \in Spaces /\ p # Kernel /\ stage[p] = "none" /\ p \notin InService
      /\ p # loaded /\ f \in free /\ f \in Frames /\ k \in Keys
  <2>1. Typed /\ p \in Spaces /\ p # Kernel /\ stage[p] = "none"
    BY VmmAssumption DEF IInv, Spaces, InitSpace
  <2>2. p # loaded /\ p \notin InService
    BY <2>1 DEF Typed, Loadable, InService
  <2>3. f \in free /\ f \in Frames
    BY <2>1, AllocIs DEF InitSpace, Typed
  <2>4. k \in Keys
    BY <2>1, KeyKinds
  <2> QED
    BY <2>1, <2>2, <2>3, <2>4
<1>2. /\ pdFrame' = [pdFrame EXCEPT ![p] = f] /\ free' = free \ {f}
      /\ directory' = [directory EXCEPT ![p] = EmptyDirectory]
      /\ stage' = [stage EXCEPT ![p] = "new"] /\ UNCHANGED <<tables, nodes, loaded>>
  BY DEF InitSpace
<1> HIDE DEF f
<1>3. /\ Now'[k] = f /\ Now[k] = pdFrame[p]
      /\ \A l \in Keys \ {k} : Now'[l] = Now[l]
      /\ SameUses
      /\ directory' \in [Spaces -> [Tables -> Frames \cup {Absent}]]
  <2>1. \A i \in Own(p) : directory[p][i] = Absent
    BY <1>1, NothingEntered DEF IInv
  <2> QED
    BY <1>1, <1>2, <2>1, OneDirectory
<1>4. NeededNow' /\ Grants(p)
  BY <1>1, <1>3, SameNeeded DEF IInv
<1>5. Once(free', Now')
  <2>1. Now[k] \notin Frames
    BY <1>1, <1>3, VmmAssumption DEF Typed
  <2> HIDE DEF k
  <2>2. Once(free \ {f}, Now')
    BY <1>1, <1>3, <2>1, OnceTake DEF IInv
  <2> QED
    BY <1>2, <2>2
<1>6. /\ stage'[p] = "new" /\ \A q \in Procs \ {p} : stage'[q] = stage[q]
      /\ stage' \in [Procs -> Stages]
      /\ pdFrame'[p] = f /\ \A q \in Spaces \ {p} : pdFrame'[q] = pdFrame[q]
      /\ pdFrame' \in [Spaces -> Frames \cup {0}]
  BY <1>1, <1>2 DEF Typed, Stages
<1>7. Typed'
  <2>1. loaded' \in Loadable'
    BY <1>1, <1>2, <1>6 DEF Loadable, Typed
  <2>2. \A q \in Procs : stage'[q] = "none" <=> pdFrame'[q] = 0
    BY <1>1, <1>6, VmmAssumption DEF Typed, Spaces
  <2> QED
    BY <1>1, <1>2, <1>3, <1>6, <2>1, <2>2 DEF Typed
<1>8. Exact'
  <2>1. InService' = InService
    BY <1>1, <1>6 DEF InService
  <2> QED
    BY <1>2, <1>3, <2>1 DEF IInv, Exact, SameUses
<1>9. Inv'
  BY InvOthers DEF IInv
<1> QED
  BY <1>4, <1>5, <1>7, <1>8, <1>9 DEF IInv

LEMMA IInvTermSpace ==
  ASSUME IInv, NEW p \in Procs, TermSpace(p)
  PROVE  IInv' /\ Grants(p)
<1> DEFINE k == <<"directory", p, 0>>
           f == pdFrame[p]
<1>1. /\ Typed /\ p \in Spaces /\ p # Kernel /\ stage[p] = "left" /\ p \notin InService
      /\ p # loaded /\ f \in Frames /\ k \in Keys
  <2>1. Typed /\ p \in Spaces /\ p # Kernel /\ stage[p] = "left"
    BY VmmAssumption DEF IInv, Spaces, TermSpace
  <2>2. p # loaded /\ p \notin InService
    BY <2>1 DEF Typed, Loadable, InService
  <2>3. f \in Frames
    BY <2>1 DEF Typed
  <2>4. k \in Keys
    BY <2>1, KeyKinds
  <2> QED
    BY <2>1, <2>2, <2>3, <2>4
<1>2. /\ pdFrame' = [pdFrame EXCEPT ![p] = 0] /\ free' = free \cup {f}
      /\ directory' = [directory EXCEPT ![p] = EmptyDirectory]
      /\ nodes' = [nodes EXCEPT ![p] = {}]
      /\ stage' = [stage EXCEPT ![p] = "none"] /\ UNCHANGED <<tables, loaded>>
  BY DEF TermSpace
<1>3. /\ Now'[k] = 0 /\ Now[k] = f
      /\ \A l \in Keys \ {k} : Now'[l] = Now[l]
      /\ SameUses
      /\ directory' \in [Spaces -> [Tables -> Frames \cup {Absent}]]
  <2>1. \A i \in Own(p) : directory[p][i] = Absent
    BY <1>1, NothingEntered DEF IInv
  <2> QED
    BY <1>1, <1>2, <2>1, OneDirectory
<1>4. NeededNow' /\ Grants(p)
  BY <1>1, <1>3, SameNeeded DEF IInv
<1> HIDE DEF f
<1>5. Once(free', Now')
  <2>1. Now'[k] \notin Frames
    BY <1>3, VmmAssumption
  <2>2. {Now[l] : l \in {k}} \cap Frames = {f}
    BY <1>1, <1>3
  <2> HIDE DEF k
  <2>3. Once(free \cup ({Now[l] : l \in {k}} \cap Frames), Now')
    <3> DEFINE X == {k}
    <3>1. /\ X \in SUBSET Keys /\ \A l \in X : Now'[l] \notin Frames
          /\ \A l \in Keys \ X : Now'[l] = Now[l]
      BY <1>1, <1>3, <2>1
    <3> HIDE DEF X
    <3>2. Once(free \cup ({Now[l] : l \in X} \cap Frames), Now')
      BY <3>1, OnceGive DEF IInv
    <3> QED
      BY <3>2 DEF X
  <2> QED
    BY <1>2, <2>2, <2>3
<1>6. /\ stage'[p] = "none" /\ \A q \in Procs \ {p} : stage'[q] = stage[q]
      /\ stage' \in [Procs -> Stages]
      /\ pdFrame'[p] = 0 /\ \A q \in Spaces \ {p} : pdFrame'[q] = pdFrame[q]
      /\ pdFrame' \in [Spaces -> Frames \cup {0}]
      /\ nodes'[p] = {} /\ \A q \in Spaces \ {p} : nodes'[q] = nodes[q]
  BY <1>1, <1>2 DEF Typed, Stages, IInv, Inv, Fields
<1>7. Typed'
  <2>1. loaded' \in Loadable'
    BY <1>1, <1>2, <1>6 DEF Loadable, Typed
  <2>2. \A q \in Procs : stage'[q] = "none" <=> pdFrame'[q] = 0
    BY <1>1, <1>6 DEF Typed, Spaces
  <2>3. \A q \in Spaces : nodes'[q] \subseteq Node
    BY <1>1, <1>6 DEF Typed
  <2>4. free' \subseteq Frames
    BY <1>1, <1>2 DEF Typed
  <2> QED
    BY <1>1, <1>2, <1>3, <1>6, <2>1, <2>2, <2>3, <2>4 DEF Typed
<1>8. Exact'
  <2>1. InService' = InService
    BY <1>1, <1>6 DEF InService
  <2>2. ASSUME NEW q \in Spaces, NEW page \in Pages(q)
        PROVE  Now'[<<"page", q, page>>] = Absent <=> q \notin InService \/ page \in Covered(nodes'[q])
    <3>1. Now[<<"page", q, page>>] = Absent <=> q \notin InService \/ page \in Covered(nodes[q])
      BY DEF IInv, Exact
    <3> QED
      BY <1>1, <1>3, <1>6, <3>1 DEF SameUses
  <2> QED
    BY <2>1, <2>2 DEF Exact, Pages, First, Length
<1>9. Inv'
  BY InvOthers DEF IInv
<1> QED
  BY <1>4, <1>5, <1>7, <1>8, <1>9 DEF IInv

LEMMA IInvInit ==
  ASSUME Init PROVE IInv
<1> DEFINE f == Min(Frames)
           k == <<"directory", Kernel, 0>>
<1>1. f \in Frames /\ f # 0 /\ Absent \notin Frames /\ Absent # 0 /\ Kernel \in Spaces
  BY VmmAssumption, MinIn DEF Spaces
<1>2. /\ loaded = Kernel /\ pdFrame = [s \in Spaces |-> IF s = Kernel THEN f ELSE 0]
      /\ free = Frames \ {f} /\ tables = [g \in Frames \cup {0} |-> EmptyTable]
      /\ directory = [s \in Spaces |-> EmptyDirectory]
      /\ nodes = [s \in Spaces |-> IF s = Kernel THEN {Extent(First(s), Length(s))} ELSE {}]
      /\ stage = [p \in Procs |-> "none"]
  BY DEF Init
<1> HIDE DEF f
<1>3. EmptyTable \in Entered /\ EmptyDirectory \in [Tables -> Frames \cup {Absent}]
      /\ \A i \in Tables : EmptyDirectory[i] = Absent
  BY DEF EmptyTable, EmptyDirectory, Entered
<1>4. Extent(First(Kernel), Length(Kernel)) \in Node
  BY <1>1, SpaceBounds DEF Extent, Node
<1>5. Typed
  <2>1. loaded \in Loadable /\ stage \in [Procs -> Stages]
    BY <1>2 DEF Loadable, Stages
  <2>2. \A s \in Spaces : nodes[s] \subseteq Node
    BY <1>2, <1>4
  <2>3. \A p \in Procs : stage[p] = "none" <=> pdFrame[p] = 0
    BY <1>2, VmmAssumption DEF Spaces
  <2> QED
    BY <1>1, <1>2, <1>3, <2>1, <2>2, <2>3 DEF Typed
<1>6. ASSUME NEW s \in Spaces
      PROVE  /\ \A i \in Own(s) : Now[<<"table", s, i>>] = Absent
             /\ \A page \in Pages(s) : Now[<<"page", s, page>>] = Absent
             /\ Now[<<"directory", s, 0>>] = IF s = Kernel THEN f ELSE 0
  <2>1. \A i \in Own(s) : Entry(s, i) = Absent
    <3>1. Own(s) \subseteq Tables
      BY SpaceIs
    <3> QED
      BY <1>1, <1>2, <1>3, <3>1 DEF Entry
  <2>2. \A page \in Pages(s) : Frame(s, page) = Absent
    <3>1. \A page \in Pages(s) : PdIndex(page) \in Own(s)
      BY SpaceIs
    <3> QED
      BY <2>1, <3>1 DEF Frame
  <2> QED
    BY <1>2, <2>1, <2>2, NowIs
<1>7. ASSUME NEW l \in Keys PROVE Now[l] \in Frames <=> l = k
  <2>1. PICK q \in Spaces : \/ l = <<"directory", q, 0>>
                            \/ \E i \in Own(q) : l = <<"table", q, i>>
                            \/ \E page \in Pages(q) : l = <<"page", q, page>>
    BY KeyKinds
  <2> QED
    BY <1>1, <1>6, <2>1, VmmAssumption
<1>8. k \in Keys /\ Now[k] = f
  BY <1>1, <1>6, KeyKinds
<1>9. Once(free, Now)
  <2> HIDE DEF k
  <2> QED
    BY <1>1, <1>2, <1>7, <1>8 DEF Once
<1>10. NeededNow
  BY <1>6 DEF NeededNow
<1>11. Exact
  <2>1. InService = {Kernel}
    BY <1>2 DEF InService
  <2>2. Covered(nodes[Kernel]) = Pages(Kernel)
    BY <1>1, <1>2 DEF Covered, PagesOf, Extent, Pages
  <2> QED
    BY <1>6, <2>1, <2>2 DEF Exact
<1> QED
  BY <1>5, <1>9, <1>10, <1>11, InvInit DEF IInv

LEMMA IInvNext ==
  ASSUME IInv, [Next]_vars
  PROVE  IInv' /\ \E s \in Spaces : Grants(s) \/ Releases(s)
<1>1. CASE \E s \in Spaces, n \in Sizes : AllocPages(s, n)
  BY <1>1, IInvAllocPages
<1>2. CASE \E s \in Spaces, n \in Sizes : \E a \in Pages(s) : AllocPagesAt(s, n, a)
  BY <1>2, IInvAllocPagesAt
<1>3. CASE \E s \in Spaces, n \in Sizes : \E a \in Pages(s) : FreePages(s, n, a)
  BY <1>3, IInvFreePages
<1>4. CASE \E s \in Spaces : Switch(s)
  BY <1>4, IInvSwitch
<1>5. CASE \E p \in Procs : InitSpace(p) \/ SupplySpace(p) \/ FreeSpace(p) \/ LeaveSpace(p) \/ TermSpace(p)
  BY <1>5, IInvInitSpace, IInvSupplySpace, IInvFreeSpace, IInvLeaveSpace, IInvTermSpace DEF Spaces
<1>6. CASE UNCHANGED vars
  <2>1. /\ UNCHANGED <<free, tables, directory, pdFrame, nodes, stage, loaded>>
        /\ Now' = Now /\ InService' = InService /\ Loadable' = Loadable
    BY <1>6 DEF vars, Now, InService, Loadable
  <2>2. Inv'
    BY <2>1 DEF IInv, Inv, Fields, FreeRanges
  <2>3. Typed' /\ Once(free', Now') /\ NeededNow' /\ Exact'
    BY <2>1 DEF IInv, Typed, NeededNow, Exact
  <2>4. Grants(Kernel) /\ Kernel \in Spaces
    BY <2>1 DEF Grants, Spaces
  <2> QED
    BY <2>2, <2>3, <2>4 DEF IInv
<1> QED
  BY <1>1, <1>2, <1>3, <1>4, <1>5, <1>6 DEF Next

(* Every frame is free or has one use, as a page directory, as a page      *)
(* table or behind one page: physmem.c gives out none that is in use and   *)
(* none is lost, for every number of processes, frames and tables.         *)
THEOREM VmmFramesOnce == Spec => []FramesOnce
<1>1. IInv => FramesOnce
  <2> SUFFICES ASSUME IInv PROVE FramesOnce
    OBVIOUS
  <2>1. TypeOK
    <3>1. Entered \subseteq [0 .. PtEntries - 1 -> Frames \cup {0, Absent}]
      BY DEF Entered
    <3>2. loaded \in Spaces
      BY SpacesAre DEF IInv
    <3> QED
      BY <3>1, <3>2 DEF TypeOK, IInv, Typed
  <2> QED
    BY <2>1, OnceCounts DEF FramesOnce, IInv
<1> QED
  BY <1>1, IInvInit, IInvNext, PTL DEF Spec

(* The free ranges of a VMM are exactly the pages of its space that are    *)
(* not mapped.                                                             *)
THEOREM VmmNodesExact == Spec => []NodesExact
<1>1. IInv => NodesExact
  <2> SUFFICES ASSUME IInv PROVE NodesExact
    OBVIOUS
  <2>1. FreeRanges /\ Typed
    BY DEF IInv, Inv
  <2>2. ASSUME NEW s \in InService PROVE Covered(nodes[s]) = Pages(s) \ Mapped(s)
    <3>1. s \in Spaces /\ Covered(nodes[s]) \subseteq Pages(s)
      BY <2>1, SpacesAre, CoveredIn DEF IInv
    <3>2. \A page \in Pages(s) : Frame(s, page) = Absent <=> page \in Covered(nodes[s])
      BY <3>1, NowIs DEF IInv, Exact
    <3> QED
      BY <3>1, <3>2 DEF Mapped
  <2> QED
    BY <2>1, <2>2 DEF NodesExact
<1> QED
  BY <1>1, IInvInit, IInvNext, PTL DEF Spec

(* A page table is kept only while a page is mapped through it.            *)
THEOREM VmmTablesNeeded == Spec => []TablesNeeded
<1>1. IInv => TablesNeeded
  <2> SUFFICES ASSUME IInv, NEW s \in Spaces, NEW i \in Own(s), Entry(s, i) # Absent
               PROVE  \E page \in Mapped(s) : PdIndex(page) = i
    BY DEF TablesNeeded
  <2>1. Now[<<"table", s, i>>] # Absent
    BY NowIs
  <2>2. PICK page \in Pages(s) : PdIndex(page) = i /\ Now[<<"page", s, page>>] # Absent
    BY <2>1 DEF IInv, NeededNow
  <2>3. Frame(s, page) # Absent
    BY <2>2, NowIs
  <2> QED
    BY <2>2, <2>3 DEF Mapped
<1> QED
  BY <1>1, IInvInit, IInvNext, PTL DEF Spec

-----------------------------------------------------------------------------
(* The pages that are allocated are those with a frame.                    *)
PageKey(x) == <<"page", x[1], x[2]>>
AllPages == UNION {{s} \X Pages(s) : s \in Spaces}

MemoryNow ==
  /\ DOMAIN Memory \subseteq AllPages
  /\ \A x \in AllPages : x \in DOMAIN Memory <=> Now[PageKey(x)] # Absent
  /\ \A x \in DOMAIN Memory : Memory[x] = Now[PageKey(x)]

LEMMA MemoryIs ==
  ASSUME IInv
  PROVE  MemoryNow
<1> DEFINE D == UNION {{s} \X Allocated(s) : s \in InService}
<1>1. Memory = [x \in D |-> Frame(x[1], x[2])]
  BY DEF Memory
<1>2. D \subseteq AllPages /\ InService \subseteq Spaces
  <2>1. InService \subseteq Spaces
    BY SpacesAre DEF IInv
  <2> QED
    BY <2>1 DEF Allocated, AllPages
<1>3. ASSUME NEW x \in AllPages
      PROVE  x \in D <=> Now[PageKey(x)] # Absent
  <2>1. PICK s, p : s \in Spaces /\ p \in Pages(s) /\ x = <<s, p>>
    BY DEF AllPages
  <2>2. x \in D <=> s \in InService /\ p \in Allocated(s)
    BY <2>1
  <2>3. PageKey(x) = <<"page", s, p>>
    BY <2>1 DEF PageKey
  <2>4. Now[<<"page", s, p>>] = Absent <=> s \notin InService \/ p \in Covered(nodes[s])
    BY <2>1 DEF IInv, Exact
  <2> HIDE DEF D
  <2> QED
    BY <2>1, <2>2, <2>3, <2>4 DEF Allocated
<1>4. ASSUME NEW x \in D PROVE Memory[x] = Now[PageKey(x)]
  <2>1. PICK s, p : s \in Spaces /\ p \in Pages(s) /\ x = <<s, p>>
    BY <1>2 DEF AllPages
  <2>2. Memory[x] = Frame(s, p)
    BY <1>1, <2>1
  <2>3. PageKey(x) = <<"page", s, p>>
    BY <2>1 DEF PageKey
  <2> QED
    BY <2>1, <2>2, <2>3, NowIs
<1> HIDE DEF D
<1>5. DOMAIN Memory = D
  BY <1>1
<1> QED
  BY <1>2, <1>3, <1>4, <1>5 DEF MemoryNow

LEMMA AllPagesAre ==
  ASSUME NEW x \in AllPages
  PROVE  /\ x[1] \in Spaces /\ x[2] \in Pages(x[1]) /\ PageKey(x) \in Keys
         /\ \A y \in AllPages : PageKey(y) = PageKey(x) => y = x
<1>1. PICK s, p : s \in Spaces /\ p \in Pages(s) /\ x = <<s, p>>
  BY DEF AllPages
<1>2. PageKey(x) \in Keys
  BY <1>1, KeyKinds DEF PageKey
<1>3. ASSUME NEW y \in AllPages, PageKey(y) = PageKey(x) PROVE y = x
  <2>1. PICK q, r : q \in Spaces /\ r \in Pages(q) /\ y = <<q, r>>
    BY DEF AllPages
  <2> QED
    BY <1>1, <1>3, <2>1 DEF PageKey
<1> QED
  BY <1>1, <1>2, <1>3

LEMMA GrantsIs ==
  ASSUME MemoryNow, MemoryNow', Once(free', Now'), NEW s \in Spaces, Grants(s)
  PROVE  Backing!Grant(s)
<1>1. ASSUME NEW x \in AllPages
      PROVE  \/ Now'[PageKey(x)] = Now[PageKey(x)]
             \/ x[1] = s /\ Now[PageKey(x)] = Absent /\ Now'[PageKey(x)] \in Frames
  BY AllPagesAre DEF Grants, PageKey
<1>2. /\ DOMAIN Memory \subseteq AllPages /\ DOMAIN Memory' \subseteq AllPages
      /\ \A x \in AllPages : x \in DOMAIN Memory <=> Now[PageKey(x)] # Absent
      /\ \A x \in AllPages : x \in DOMAIN Memory' <=> Now'[PageKey(x)] # Absent
      /\ \A x \in DOMAIN Memory : Memory[x] = Now[PageKey(x)]
      /\ \A x \in DOMAIN Memory' : Memory'[x] = Now'[PageKey(x)]
  <2>1. AllPages' = AllPages /\ \A x : PageKey(x)' = PageKey(x)
    BY DEF AllPages, PageKey, Spaces, Pages, First, Length
  <2> QED
    BY <2>1 DEF MemoryNow, PageKey
<1>3. ASSUME NEW x \in DOMAIN Memory
      PROVE  x \in DOMAIN Memory' /\ Memory'[x] = Memory[x] /\ Now'[PageKey(x)] = Now[PageKey(x)]
  BY <1>1, <1>2
<1>4. ASSUME NEW x \in DOMAIN Memory' \ DOMAIN Memory
      PROVE  /\ x[1] = s /\ x[2] \in Pages(s) /\ Memory'[x] \in Frames
             /\ \A y \in DOMAIN Memory : Memory[y] # Memory'[x]
             /\ \A y \in DOMAIN Memory' : Memory'[y] = Memory'[x] => y = x
  <2>1. x[1] = s /\ Memory'[x] = Now'[PageKey(x)] /\ Memory'[x] \in Frames
    BY <1>1, <1>2
  <2>2. x[2] \in Pages(s)
    BY <1>2, <2>1, AllPagesAre
  <2>3. ASSUME NEW y \in DOMAIN Memory', Memory'[y] = Memory'[x] PROVE y = x
    <3>1. Now'[PageKey(y)] = Now'[PageKey(x)] /\ Now'[PageKey(y)] \in Frames
      BY <1>2, <2>1, <2>3
    <3>2. PageKey(x) \in Keys /\ PageKey(y) \in Keys
      BY <1>2, AllPagesAre
    <3>3. PageKey(y) = PageKey(x)
      BY <3>1, <3>2 DEF Once
    <3> QED
      BY <1>2, <3>3, AllPagesAre
  <2>4. \A y \in DOMAIN Memory : Memory[y] # Memory'[x]
    BY <1>3, <1>4, <2>3
  <2> QED
    BY <2>1, <2>2, <2>3, <2>4
<1> QED
  BY <1>3, <1>4 DEF Backing!Grant, Backing!InUse

LEMMA ReleasesIs ==
  ASSUME MemoryNow, MemoryNow', NEW s \in Spaces, Releases(s)
  PROVE  Backing!Release(s)
<1>1. ASSUME NEW x \in AllPages
      PROVE  \/ Now'[PageKey(x)] = Now[PageKey(x)]
             \/ x[1] = s /\ Now'[PageKey(x)] = Absent
  BY AllPagesAre DEF Releases, PageKey
<1>2. /\ DOMAIN Memory \subseteq AllPages /\ DOMAIN Memory' \subseteq AllPages
      /\ \A x \in AllPages : x \in DOMAIN Memory <=> Now[PageKey(x)] # Absent
      /\ \A x \in AllPages : x \in DOMAIN Memory' <=> Now'[PageKey(x)] # Absent
      /\ \A x \in DOMAIN Memory : Memory[x] = Now[PageKey(x)]
      /\ \A x \in DOMAIN Memory' : Memory'[x] = Now'[PageKey(x)]
  <2>1. AllPages' = AllPages /\ \A x : PageKey(x)' = PageKey(x)
    BY DEF AllPages, PageKey, Spaces, Pages, First, Length
  <2> QED
    BY <2>1 DEF MemoryNow, PageKey
<1>3. ASSUME NEW x \in DOMAIN Memory' PROVE x \in DOMAIN Memory /\ Memory'[x] = Memory[x]
  BY <1>1, <1>2
<1>4. ASSUME NEW x \in DOMAIN Memory \ DOMAIN Memory' PROVE x[1] = s
  BY <1>1, <1>2
<1> QED
  BY <1>3, <1>4 DEF Backing!Release, Backing!Backed

(* A page that has been allocated keeps its frame until it is freed, a     *)
(* call changes one space, and no frame is behind two pages: the VMMs      *)
(* implement the abstract address spaces.                                  *)
THEOREM VmmKeepsPages == Spec => KeepsPages
<1>1. Init => Backing!Init
  <2> SUFFICES ASSUME Init PROVE Memory = <<>>
    BY DEF Backing!Init
  <2>1. Kernel \in Spaces /\ InService = {Kernel} /\ nodes[Kernel] = {Extent(First(Kernel), Length(Kernel))}
    BY DEF Init, InService, Spaces
  <2>2. Allocated(Kernel) = {}
    BY <2>1, SpaceBounds DEF Allocated, Covered, PagesOf, Extent, Pages
  <2> DEFINE D == UNION {{s} \X Allocated(s) : s \in InService}
  <2>3. D = {}
    BY <2>1, <2>2
  <2>4. Memory = [x \in D |-> Frame(x[1], x[2])]
    BY DEF Memory
  <2> HIDE DEF D
  <2> QED
    BY <2>3, <2>4
<1>2. IInv /\ IInv' /\ MemoryNow /\ MemoryNow' /\ [Next]_vars => [Backing!Next]_Memory
  <2> SUFFICES ASSUME IInv, IInv', MemoryNow, MemoryNow', [Next]_vars PROVE Backing!Next
    OBVIOUS
  <2>1. PICK s \in Spaces : Grants(s) \/ Releases(s)
    BY IInvNext
  <2>2. Backing!Grant(s) \/ Backing!Release(s)
    BY <2>1, GrantsIs, ReleasesIs DEF IInv
  <2> QED
    BY <2>2 DEF Backing!Next
<1>3. IInv /\ [Next]_vars => IInv'
  BY IInvNext
<1>4. IInv => MemoryNow
  BY MemoryIs
<1> QED
  BY <1>1, <1>2, <1>3, <1>4, IInvInit, PTL DEF Spec, KeepsPages, Backing!Spec
=============================================================================
