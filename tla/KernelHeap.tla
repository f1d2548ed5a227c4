------------------------------ MODULE KernelHeap ------------------------------
(***************************************************************************)
(* The kernel's heap (src/src/liballoc.c) and the address ranges it is     *)
(* made of (src/src/vmm.c for kernel_vmm), which call each other:          *)
(*                                                                         *)
(*   kmalloc gets a block of pages from vmmAllocPages, which drops a range *)
(*   that is used up and gives its VMM_NODE to kfree;                      *)
(*   kfree gives an empty block of pages to vmmFreePages, which drops a    *)
(*   range that it joins to another, or gets a new VMM_NODE from kmalloc.  *)
(*                                                                         *)
(* So each of them can come back to itself while a call is under way and   *)
(* its data half changed.  A call from outside is one action, as it runs   *)
(* with interrupts off; inside it the operators below follow the code call *)
(* by call, each taking the heap h = [root, bestBet, major, node, stop] as *)
(* its callee left it.                                                     *)
(*                                                                         *)
(* Addresses count units of memory.  A block of pages (a major) starts     *)
(* with a header, as does each piece of it that is allocated (a minor).    *)
(***************************************************************************)
EXTENDS Naturals, FiniteSets, FiniteSetsExt, SequencesExt

CONSTANTS
  PageSize,    \* l_pageSize
  PageCount,   \* l_pageCount, the least number of pages asked for
  HeapPages,   \* KERNEL_HEAP_SIZE
  MajorHeader, \* sizeof(struct liballoc_major)
  MinorHeader, \* sizeof(struct liballoc_minor)
  NodeSize,    \* sizeof(VMM_NODE)
  Sizes,       \* sizes asked for by the rest of the kernel
  StackPages,  \* sizes of thread stacks, in pages
  MaxInUse,    \* a bound on the pieces and stacks in use at a time
  NULL

ASSUME HeapAssumption ==
  /\ {PageSize, PageCount, HeapPages, NodeSize} \cup Sizes \cup StackPages \subseteq Nat \ {0}
  /\ {MajorHeader, MinorHeader} \subseteq Nat
  /\ HeapPages > PageCount
  /\ PageCount * PageSize >= MajorHeader + 3 * (MinorHeader + NodeSize)
  /\ NULL \notin Nat /\ NULL \notin [at : Nat, pages : Nat]

VARIABLES
  heap,   \* the record h
  stacks  \* the ranges taken for thread stacks, without kmalloc

heapVars == <<heap, stacks>>

-----------------------------------------------------------------------------
(* A major m is [prev, next, pages, minors]; a minor is [at, size].        *)
SizeOf(m) == m.pages * PageSize
Usage(m) == MajorHeader + SumFunctionOnSet([x \in m.minors |-> x.size + MinorHeader], m.minors)
Room(m) == SizeOf(m) - Usage(m)
End(x) == x.at + MinorHeader + x.size

(* Where a piece goes in a block with room for it, cases 2 to 4: at its    *)
(* start, or behind the first minor that is followed by a large enough gap.*)
Starts(a, m) == {a + MajorHeader} \cup {End(x) : x \in m.minors}
Limit(a, m, at) == Min({a + SizeOf(m)} \cup {x.at : x \in {y \in m.minors : y.at >= at}})
Gaps(a, m, size) ==
  {at \in Starts(a, m) : at + MinorHeader + size <= Limit(a, m, at)}

(* How far the heap is followed: until it is "halted" for want of a node,  *)
(* or a kmalloc that has got another major finds that the call for it gave *)
(* the last major "back", or already put a "second" one behind it.  What   *)
(* operators compute behind that is not looked at.                         *)
Stopped(h, how) == [h EXCEPT !.stop = IF @ = "no" THEN how ELSE @]

(* maj->next = allocate_new_page(size), at the last major a.               *)
Linked(h, a, new) ==
  IF a \notin DOMAIN h.major THEN Stopped(h, "back")
  ELSE IF h.major[a].next # NULL THEN Stopped(h, "second")
  ELSE [h EXCEPT !.major[a].next = new]

NewMajor(pages) == [prev |-> NULL, next |-> NULL, pages |-> pages, minors |-> {}]

(* The range vmmAllocPages takes: the first that fits exactly, else the    *)
(* first of the smallest that are large enough.                            *)
Fitting(h, n) == {k \in DOMAIN h.node : h.node[k].pages >= n}
Exact(h, n) == {k \in DOMAIN h.node : h.node[k].pages = n}
BestNode(h, n) ==
  IF Exact(h, n) # {} THEN Min(Exact(h, n))
  ELSE CHOOSE k \in Fitting(h, n) : \A j \in Fitting(h, n) :
         \/ h.node[k].pages < h.node[j].pages
         \/ h.node[k].pages = h.node[j].pages /\ k <= j

FrontNode(h, a) == {k \in DOMAIN h.node : h.node[k].at + h.node[k].pages * PageSize = a}
BackNode(h, a, n) == {k \in DOMAIN h.node : h.node[k].at = a + n * PageSize}

MajorPages(size) ==
  LET bytes == size + MajorHeader + MinorHeader IN
  Max({PageCount, (bytes + PageSize - 1) \div PageSize})

-----------------------------------------------------------------------------
(* The loop of kmalloc over the majors.  A turn is [at, startedBet,        *)
(* bestBet, bestSize].  A major without room in all leads to the next one, *)
(* as does one without a large enough gap, and the last one to the root if *)
(* the search started at the best bet.                                     *)
Short_Equal(h, a, size) == Room(h.major[a]) <= size + MinorHeader
Short(h, a, size) == Room(h.major[a]) < size + MinorHeader
Fits(h, a, size) == ~Short(h, a, size) /\ Gaps(a, h.major[a], size) # {}

BestRoom(h) == IF h.bestBet = NULL THEN 0 ELSE Room(h.major[h.bestBet])
StartsBet(h, size) == h.bestBet # NULL /\ BestRoom(h) > size + MinorHeader
Begun(h, size) ==
  [at |-> IF StartsBet(h, size) THEN h.bestBet ELSE h.root, startedBet |-> StartsBet(h, size),
   bestBet |-> h.bestBet, bestSize |-> BestRoom(h)]

Better(h, q) ==
  LET room == Room(h.major[q.at])
  IN IF q.bestSize < room THEN [q EXCEPT !.bestBet = q.at, !.bestSize = room] ELSE q
Onward(h, q) ==
  LET next == h.major[q.at].next
  IN [Better(h, q) EXCEPT !.at = IF next # NULL THEN next ELSE h.root,
                          !.startedBet = @ /\ next # NULL]
Ends(h, q, size) == Fits(h, q.at, size) \/ (h.major[q.at].next = NULL /\ ~q.startedBet)

Looked(h, q, size) == IF Ends(h, q, size) THEN q ELSE Onward(h, q)

\* No major is looked at more than twice.
Turns(h) == 2 * Cardinality(DOMAIN h.major)
Search(h, size) ==
  LET turn[k \in 0 .. Turns(h)] ==
        IF k = 0 THEN Begun(h, size) ELSE Looked(h, turn[k - 1], size)
  IN Better(h, turn[Turns(h)])

(* kmalloc and what it consists of return [h, p]: the heap as they leave   *)
(* it and the address they found, or NULL.  Once the search has ended, a   *)
(* gap is taken, or a new major that has been got for the place behind the *)
(* last one, at once if that was short of room and else after it was seen. *)
Placed(h, a, at, size) ==
  [p |-> at, h |-> [h EXCEPT !.major[a].minors = @ \cup {[at |-> at, size |-> size]}]]
Searched(h, q) == [h EXCEPT !.bestBet = q.bestBet]
Taken(h, q, size) == Placed(Searched(h, q), q.at, Min(Gaps(q.at, h.major[q.at], size)), size)
Behind(got, q, short, size) ==
  LET h == Linked(got.h, q.at, got.p)
      linked == [h EXCEPT !.major[got.p].prev = q.at]
      seen == [linked EXCEPT !.bestBet = IF q.bestSize < Room(linked.major[got.p]) THEN got.p ELSE @]
  IN IF got.p = NULL \/ h.stop # "no" THEN [h |-> h, p |-> NULL]
     ELSE Placed(IF short THEN linked ELSE seen, got.p, got.p + MajorHeader, size)

(* The first major of all becomes the root, and is then searched.          *)
Rooted(got) == [got.h EXCEPT !.root = got.p]
First(got, size) ==
  IF got.p = NULL THEN got ELSE Taken(Rooted(got), Search(Rooted(got), size), size)

(* allocate_new_page, with the hook liballoc_alloc.                        *)
EmptyMajor(got, pages) ==
  IF got.p = NULL THEN got
  ELSE [got EXCEPT !.h.major =
         [a \in DOMAIN got.h.major \cup {got.p} |->
            IF a = got.p THEN NewMajor(pages) ELSE got.h.major[a]]]

(* vmmAllocPages but for freeing the node of a range that is used up.      *)
TakePages(h, n) ==
  IF Fitting(h, n) = {} THEN [h |-> h, p |-> NULL, unused |-> NULL]
  ELSE LET k == BestNode(h, n)
           exact == h.node[k].pages = n
       IN [p |-> h.node[k].at, unused |-> IF exact THEN h.node[k].cell ELSE NULL,
           h |-> IF exact THEN [h EXCEPT !.node = RemoveAt(@, k)]
                 ELSE [h EXCEPT !.node[k].at = @ + n * PageSize, !.node[k].pages = @ - n]]

-----------------------------------------------------------------------------
(* kfree takes the piece at p off its block.  A block that gets empty goes *)
(* off the list and back to the VMM.                                       *)
BlockOf(h, p) == CHOOSE a \in DOMAIN h.major : \E x \in h.major[a].minors : x.at = p
Without_First(h, a, p) ==
  [h EXCEPT !.major[a].minors = {x \in @ : x.at # p /\ p # Min({y.at : y \in @})}]
Without(h, a, p) == [h EXCEPT !.major[a].minors = {x \in @ : x.at # p}]
Unlisted_KeepsPrev(h, a) ==
  [h EXCEPT !.root = IF @ = a THEN h.major[a].next ELSE @,
            !.bestBet = IF @ = a THEN NULL ELSE @,
            !.major = [b \in DOMAIN h.major \ {a} |->
               [h.major[b] EXCEPT !.next = IF b = h.major[a].prev THEN h.major[a].next ELSE @]]]
Unlisted(h, a) ==
  [h EXCEPT !.root = IF @ = a THEN h.major[a].next ELSE @,
            !.bestBet = IF @ = a THEN NULL ELSE @,
            !.major = [b \in DOMAIN h.major \ {a} |->
               [h.major[b] EXCEPT !.next = IF b = h.major[a].prev THEN h.major[a].next ELSE @,
                            !.prev = IF b = h.major[a].next THEN h.major[a].prev ELSE @]]]
RoomierBet(h, a) ==
  [h EXCEPT !.bestBet = IF @ # NULL /\ Room(h.major[a]) > Room(h.major[@]) THEN a ELSE @]
Empties(h, p) == Without(h, BlockOf(h, p), p).major[BlockOf(h, p)].minors = {}

(* kmalloc for a VMM_NODE, when kfree or vmmFreePages has called it, and   *)
(* the kfree it may come to in its turn: that of the node of a range that  *)
(* the new major uses up.  It never empties a block ("deep"), as no block  *)
(* has room for a node then and one with a single node has.                *)
KfreeInner(h, p) ==
  IF Empties(h, p) THEN Stopped(h, "deep")
  ELSE RoomierBet(Without(h, BlockOf(h, p), p), BlockOf(h, p))
WithMajorInner(h) ==
  LET t == TakePages(h, MajorPages(NodeSize))
      got == [p |-> t.p, h |-> IF t.unused = NULL THEN t.h ELSE KfreeInner(t.h, t.unused)]
  IN EmptyMajor(got, MajorPages(NodeSize))
KmallocInner(h) ==
  LET q == Search(h, NodeSize)
  IN IF h.root = NULL THEN First(WithMajorInner(h), NodeSize)
     ELSE IF Fits(h, q.at, NodeSize) THEN Taken(h, q, NodeSize)
     ELSE Behind(WithMajorInner(Searched(h, q)), q, Short(h, q.at, NodeSize), NodeSize)

(* kfree and vmmFreePages call each other until no piece is left to be     *)
(* freed.  A moment of this is [h, free, lone]: the heap, the piece to be  *)
(* freed next or NULL, and the pages that touch no other free ones and get *)
(* a node of their own in the end, or NULL.                                *)
(*                                                                         *)
(* vmmSupply: the pages are joined to the range before them, to the one    *)
(* behind them, or to both, which drops the second.                        *)
Joined(h, a, n) ==
  LET front == FrontNode(h, a)
      back  == BackNode(h, a, n)
      f     == Min(front)
      b     == Min(back)
  IN
  IF front # {} /\ back # {}
  THEN [h |-> [h EXCEPT !.node = RemoveAt([h.node EXCEPT ![f].pages = @ + (n + h.node[b].pages)], b)],
        free |-> h.node[b].cell, lone |-> NULL]
  ELSE IF front # {} THEN [h |-> [h EXCEPT !.node[f].pages = @ + n], free |-> NULL, lone |-> NULL]
  ELSE IF back # {}
  THEN [h |-> [h EXCEPT !.node[b].pages = @ + n, !.node[b].at = a], free |-> NULL, lone |-> NULL]
  ELSE [h |-> h, free |-> NULL, lone |-> [at |-> a, pages |-> n]]

FreePiece(h, p) ==
  LET a == BlockOf(h, p)
      g == Without(h, a, p)
  IN IF Empties(h, p) THEN Joined(Unlisted(g, a), a, h.major[a].pages)
     ELSE [h |-> RoomierBet(g, a), free |-> NULL, lone |-> NULL]

FreeNext(r) == IF r.free = NULL THEN r ELSE FreePiece(r.h, r.free)

\* Every turn after the first drops a node.
FreeAll(r) ==
  LET turn[k \in 0 .. Len(r.h.node) + 1] ==
        IF k = 0 THEN r ELSE FreeNext(turn[k - 1])
  IN turn[Len(r.h.node) + 1]

WithNode(got, lone) ==
  IF got.p = NULL THEN Stopped(got.h, "halted")
  ELSE [got.h EXCEPT !.node = Append(@, [at |-> lone.at, pages |-> lone.pages, cell |-> got.p])]
Settled(r) == IF r.lone = NULL THEN r.h ELSE WithNode(KmallocInner(r.h), r.lone)

Kfree(h, p) == Settled(FreeAll([h |-> h, free |-> p, lone |-> NULL]))
Supply(h, a, n) == Settled(FreeAll(Joined(h, a, n)))

(* vmmAllocPages and kmalloc, called from outside.                         *)
AllocPages(h, n) ==
  LET t == TakePages(h, n)
  IN [p |-> t.p, h |-> IF t.unused = NULL THEN t.h ELSE Kfree(t.h, t.unused)]
WithMajor(h, size) == EmptyMajor(AllocPages(h, MajorPages(size)), MajorPages(size))
Kmalloc(h, size) ==
  LET q == Search(h, size)
  IN IF h.root = NULL THEN First(WithMajor(h, size), size)
     ELSE IF Fits(h, q.at, size) THEN Taken(h, q, size)
     ELSE Behind(WithMajor(Searched(h, q), size), q, Short(h, q.at, size), size)

-----------------------------------------------------------------------------
(* vmmBootstrap: a node that lies elsewhere (NULL) has all the memory,     *)
(* until one is allocated from it.                                         *)
Unused == [root |-> NULL, bestBet |-> NULL, major |-> <<>>,
           node |-> <<[at |-> 0, pages |-> HeapPages, cell |-> NULL]>>,
           stop |-> "no"]

HeapInit ==
  /\ heap = LET got == Kmalloc(Unused, NodeSize) IN [got.h EXCEPT !.node[1].cell = got.p]
  /\ stacks = {}

Cells == {heap.node[k].cell : k \in DOMAIN heap.node}
Minors == UNION {heap.major[a].minors : a \in DOMAIN heap.major}

(* What the rest of the kernel asks for.                                   *)
InUse == {x \in Minors : x.at \notin Cells}
Allocate(size) ==
  /\ Cardinality(InUse) + Cardinality(stacks) < MaxInUse
  /\ heap' = Kmalloc(heap, size).h
  /\ UNCHANGED stacks

Free(x) ==
  /\ heap' = Kfree(heap, x.at)
  /\ UNCHANGED stacks

(* vmmAlloc in createThread and vmmFree in the cleaner, with interrupts off*)
NewStack(n) ==
  /\ Cardinality(InUse) + Cardinality(stacks) < MaxInUse
  /\ \E got \in {AllocPages(heap, n)} :
       /\ got.p # NULL
       /\ heap' = got.h
       /\ stacks' = stacks \cup {[at |-> got.p, pages |-> n]}

FreeStack(s) ==
  /\ heap' = Supply(heap, s.at, s.pages)
  /\ stacks' = stacks \ {s}

HeapNext ==
  /\ heap.stop = "no"
  /\ \/ \E size \in Sizes : Allocate(size)
     \/ \E x \in InUse : Free(x)
     \/ \E n \in StackPages : NewStack(n)
     \/ \E s \in stacks : FreeStack(s)

HeapSpec == HeapInit /\ [][HeapNext]_heapVars

-----------------------------------------------------------------------------
Followed == heap.stop = "no"
Majors == DOMAIN heap.major
PagesOf(r) == {r.at \div PageSize + i : i \in 0 .. r.pages - 1}
FreeRanges == {[at |-> n.at, pages |-> n.pages] : n \in ToSet(heap.node)}
Blocks == {[at |-> a, pages |-> heap.major[a].pages] : a \in Majors}
ReachFrom(a, S) ==
  /\ a # NULL => a \in S
  /\ \A b \in S : heap.major[b].next # NULL => heap.major[b].next \in S

(* The blocks of pages that liballoc.c holds are those on its list, linked *)
(* in both directions; none of them is empty, and the best bet is one of   *)
(* them: whatever a call for pages did to the list in the meantime.        *)
MajorsListed ==
  /\ \A S \in SUBSET Majors : ReachFrom(heap.root, S) => S = Majors
  /\ \A a \in Majors :
       LET m == heap.major[a] IN
       /\ IF m.prev = NULL THEN heap.root = a
          ELSE m.prev \in Majors /\ heap.major[m.prev].next = a
       /\ m.next # NULL => m.next \in Majors
       /\ m.minors # {}
  /\ heap.bestBet \in Majors \cup {NULL}

(* Memory has one use each.  Pieces that are allocated lie inside their    *)
(* block behind its header and do not overlap; every page of the heap is   *)
(* in one block, one stack or one free range of vmm.c; free ranges that    *)
(* touch have been joined, and each has an allocated piece of its own for  *)
(* its VMM_NODE, though that is allocated before the range is on the list. *)
PiecesApart ==
  \A a \in Majors : \A x \in heap.major[a].minors :
    /\ a + MajorHeader <= x.at /\ End(x) <= a + SizeOf(heap.major[a])
    /\ \A y \in heap.major[a].minors : x # y => End(x) <= y.at \/ End(y) <= x.at
PagesApart ==
  /\ UNION {PagesOf(r) : r \in Blocks \cup stacks \cup FreeRanges} = 0 .. HeapPages - 1
  /\ \A r, q \in Blocks \cup stacks \cup FreeRanges : r # q => PagesOf(r) \cap PagesOf(q) = {}
  /\ \A r, q \in FreeRanges : r.at + r.pages * PageSize # q.at
NodesHeld ==
  /\ Cells \subseteq {x.at : x \in Minors}
  /\ Cardinality(Cells) = Len(heap.node)
MemoryShared ==
  /\ heap.stop # "deep"
  /\ Followed => MajorsListed /\ PiecesApart /\ PagesApart /\ NodesHeld

(* However often kmalloc and kfree call each other, one call from the rest *)
(* of the kernel takes or gives one piece, and moves or frees no other.    *)
OthersStay ==
  [][heap'.stop = "no" => Cardinality(SymDiff(InUse, InUse')) <= 1]_heapVars

(* kmalloc refuses only what no block has a gap for and no range enough    *)
(* pages for, although it starts at the best bet.                          *)
RefusedHonestly ==
  Followed => \A size \in Sizes : \A got \in {Kmalloc(heap, size)} :
    got.p = NULL /\ got.h.stop = "no" =>
       /\ \A a \in Majors : Gaps(a, heap.major[a], size) = {}
       /\ Fitting(heap, MajorPages(size)) = {}
=============================================================================
