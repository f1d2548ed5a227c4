------------------------------- MODULE MemMgr -------------------------------
(***************************************************************************)
(* The memory manager of PDOS (src/src/memmgr.c): the allocator behind the *)
(* DOS memory calls, the loader's program areas and, in a copy, the C      *)
(* library's malloc.                                                       *)
(*                                                                         *)
(* Every block, allocated or free, starts with a control block (MEMMGRN).  *)
(* All blocks are on one doubly linked list in address order (next/prev,   *)
(* from memmgr->start) and the free ones on a second list in no particular *)
(* order (nextf/prevf, from memmgr->startf).  The handlers below do the    *)
(* same pointer updates as the code, in two conventions that shorten them: *)
(*                                                                         *)
(*  - the list heads are the successors of NULL: memmgr->start is          *)
(*    next[NULL] and memmgr->startf is nextf[NULL], so that "if prev is    *)
(*    NULL then update the head, otherwise prev->next" is one update.      *)
(*    prev[NULL] and prevf[NULL] (the tails) have no counterpart; nothing  *)
(*    reads them;                                                          *)
(*  - the fields of an address that holds no control block, and the id and *)
(*    the caller's size of a free block, are reset to their defaults, where*)
(*    the code leaves the old bytes behind: no operation reads them.       *)
(*                                                                         *)
(* One call runs at a time (nothing in memmgr.c locks, and its callers are *)
(* single threaded), so a call is one action, except memmgrFreeId, whose   *)
(* loop keeps pointers to blocks across calls of memmgrFree: it is one     *)
(* action per iteration, with its cursor in the state.                     *)
(***************************************************************************)
EXTENDS Integers

CONSTANTS
  Align,        \* MEMMGR_ALIGN
  HeaderSize,   \* MEMMGRN_SZ, the room a control block takes
  WordLimit,    \* 2^w, where w is the width of size_t
  LastAddr,     \* the highest address of memory
  Buffers,      \* the buffers callers hand to memmgrSupply: [base, size]
  Requests,     \* the sizes callers ask for
  Ids,          \* the ids callers group blocks by
  Owners        \* the process ids callers pass to memmgrSetOwner

NULL == 0
Addr == 1 .. LastAddr
Ptr  == Addr \cup {NULL}

(* MEMMGR_MINFRTOT: the smallest block worth splitting off; block sizes    *)
(* are multiples of it, but for the last block of a buffer.                *)
Gran == 2 * HeaderSize

(* What memmgrSupply makes of a buffer: its start rounded up to Align and  *)
(* its size rounded down to a multiple of it.                              *)
Skip(b)  == IF b.base % Align = 0 THEN 0 ELSE Align - (b.base % Align)
Base(b)  == b.base + Skip(b)
Usable(b) == (b.size - Skip(b)) - ((b.size - Skip(b)) % Align)
Limit(b) == Base(b) + Usable(b)

ASSUME GeometryAssumption ==
  /\ Align \in Nat \ {0} /\ HeaderSize \in Nat \ {0}
  /\ LastAddr \in Nat /\ WordLimit \in Nat
  /\ LastAddr + 2 * Gran < WordLimit

(* Callers supply real, disjoint memory with room for a control block.     *)
ASSUME BufferAssumption ==
  /\ \A b \in Buffers : /\ b.base \in Nat /\ b.size \in Nat
                        /\ Base(b) \in Addr /\ Usable(b) \in Nat
                        /\ Usable(b) >= HeaderSize
                        /\ Limit(b) <= LastAddr + 1
  /\ \A b, c \in Buffers : b # c => Limit(b) <= Base(c) \/ Limit(c) <= Base(b)

ASSUME RequestAssumption ==
  /\ Requests \subseteq 0 .. WordLimit - 1
  /\ Ids \subseteq Nat /\ Owners \subseteq Nat

VARIABLES
  nodes,        \* the addresses that hold a control block
  next, prev,   \* all blocks, in address order
  nextf, prevf, \* the free blocks
  size,         \* p->size, control block included
  fixed,        \* the blocks that start a supplied buffer (p->fixed)
  allocated,    \* the blocks whose p->allocated is 0x5a5a
  id, owner,    \* p->id and p->owner, 0 when no block says otherwise
  req,          \* the caller's size, kept in the word before its data
  supplied,     \* the buffers supplied so far
  refused,      \* the request the last memmgrAllocate refused, or -1
  walk,         \* memmgrFreeId's id and its pointers p and l
  crashed       \* the manager found its lists corrupt and stopped

chains  == <<nodes, next, prev, nextf, prevf>>
fields  == <<size, fixed, allocated, id, owner, req>>
vars == <<chains, fields, supplied, refused, walk, crashed>>

NoWalk == [id |-> -1, p |-> NULL, l |-> NULL]

Init ==                                                   \* memmgrInit
  /\ nodes = {}
  /\ next = [p \in Ptr |-> NULL] /\ prev = [p \in Ptr |-> NULL]
  /\ nextf = [p \in Ptr |-> NULL] /\ prevf = [p \in Ptr |-> NULL]
  /\ size = [p \in Addr |-> 0] /\ req = [p \in Addr |-> 0]
  /\ id = [p \in Addr |-> 0] /\ owner = [p \in Addr |-> 0]
  /\ fixed = {} /\ allocated = {}
  /\ supplied = {} /\ refused = -1 /\ walk = NoWalk /\ crashed = FALSE

Ready == ~crashed /\ walk = NoWalk
Free  == nodes \ allocated

-----------------------------------------------------------------------------
(* List surgery.  The two directions of a list mirror each other, so each  *)
(* operator gives the new f from f and its inverse g.                      *)

(* Take q out. *)
Unlinked(f, g, q) == [f EXCEPT ![g[q]] = f[q], ![q] = NULL]
(* Put new where old was. *)
Replaced(f, g, old, new) ==
  [f EXCEPT ![g[old]] = new, ![new] = f[old], ![old] = NULL]
(* Put q behind p in f, whatever followed p now following q. *)
Inserted(f, p, q) == [f EXCEPT ![p] = q, ![q] = f[p]]

(* A free block with no predecessor must be the head; the code stops the   *)
(* program when it is not.                                                 *)
HeadIsWrong(q) == prevf[q] = NULL /\ nextf[NULL] # q

Crash == crashed' = TRUE /\ walk' = NoWalk /\ refused' = -1
         /\ UNCHANGED <<chains, fields, supplied>>

UnlinkFree_NoBackLink(q) == /\ nextf' = Unlinked(nextf, prevf, q)
                            /\ prevf' = [prevf EXCEPT ![q] = NULL]
UnlinkFree(q) == /\ nextf' = Unlinked(nextf, prevf, q)
                 /\ prevf' = Unlinked(prevf, nextf, q)
ReplaceFree(old, new) == /\ nextf' = Replaced(nextf, prevf, old, new)
                         /\ prevf' = Replaced(prevf, nextf, old, new)
PushFree_NoBackLink(q) == /\ nextf' = Inserted(nextf, NULL, q)
                          /\ prevf' = [prevf EXCEPT ![q] = NULL]
PushFree(q) == /\ nextf' = Inserted(nextf, NULL, q)
               /\ prevf' = Inserted(prevf, nextf[NULL], q)

InsertBlock(p, q) == /\ nodes' = nodes \cup {q}
                     /\ next' = Inserted(next, p, q)
                     /\ prev' = Inserted(prev, next[p], q)
RemoveBlock(q) == /\ nodes' = nodes \ {q}
                  /\ next' = Unlinked(next, prev, q)
                  /\ prev' = Unlinked(prev, next, q)
RemoveTwo(p, q) ==
  /\ nodes' = nodes \ {p, q}
  /\ next' = Unlinked(Unlinked(next, prev, p), Unlinked(prev, next, p), q)
  /\ prev' = Unlinked(Unlinked(prev, next, p), Unlinked(next, prev, p), q)
ReplaceBlock(old, new) == /\ nodes' = (nodes \ {old}) \cup {new}
                          /\ next' = Replaced(next, prev, old, new)
                          /\ prev' = Replaced(prev, next, old, new)

(* q is a free block that may be joined to the one before it. *)
Joinable(q) == q # NULL /\ q \notin allocated /\ q \notin fixed

(* A block being freed is joined to a free one before it in its buffer. *)
JoinsPrev_Always(p) == p \notin fixed /\ prev[p] # NULL
JoinsPrev(p) == p \notin fixed /\ prev[p] # NULL /\ prev[p] \notin allocated

-----------------------------------------------------------------------------
(* memmgrSupply.  The walk from start stops behind l, the last block at or *)
(* below the buffer.                                                       *)
GoesBehind(l, q) == l <= q /\ (next[l] = NULL \/ next[l] > q)

Supply(b) ==
  LET q == Base(b) IN
  /\ Ready /\ b \in Buffers \ supplied
  /\ \E l \in nodes \cup {NULL} : GoesBehind(l, q) /\ InsertBlock(l, q)
  /\ PushFree(q)
  /\ fixed' = fixed \cup {q}
  /\ size' = [size EXCEPT ![q] = Usable(b)]
  /\ supplied' = supplied \cup {b} /\ refused' = -1
  /\ UNCHANGED <<allocated, id, owner, req, walk, crashed>>

(* The block size for a request: control block added, rounded up to Gran,  *)
(* in size_t arithmetic.                                                   *)
Rounded(bytes) ==
  LET b == (bytes + HeaderSize) % WordLimit IN
  IF b % Gran = 0 THEN b ELSE (((b \div Gran) + 1) * Gran) % WordLimit
Overflows_Unchecked(bytes) == FALSE
Overflows(bytes) == Rounded(bytes) < bytes

(* The walk along the free list stops at the first block of n bytes or     *)
(* more.  p is that block: it is large enough, and it is in every set that *)
(* holds startf and, with a block that is too small, the next free one.    *)
FirstFit_HeadOnly(p, n) == p = nextf[NULL] /\ size[p] >= n
FirstFit(p, n) ==
  /\ size[p] >= n
  /\ \A T \in SUBSET nodes :
       ( /\ nextf[NULL] \in T \cup {NULL}
         /\ \A q \in T : size[q] < n => nextf[q] \in T \cup {NULL} )
       => p \in T

Take(p, bytes, i) ==
  /\ allocated' = allocated \cup {p}
  /\ id' = [id EXCEPT ![p] = i]
  /\ req' = [req EXCEPT ![p] = bytes]
  /\ refused' = -1
  /\ UNCHANGED <<fixed, owner, supplied, walk, crashed>>

(* memmgrAllocate: refused, from a block with room for another behind it,  *)
(* or a whole block.                                                       *)
AllocateNull(bytes) ==
  /\ Ready
  /\ Overflows(bytes) \/ ~ \E p \in nodes : FirstFit(p, Rounded(bytes))
  /\ refused' = bytes
  /\ UNCHANGED <<chains, fields, supplied, walk, crashed>>

AllocateSplit(p, bytes, i) ==
  LET n == Rounded(bytes)
      q == p + n IN
  /\ size[p] - n >= Gran
  /\ InsertBlock(p, q)
  /\ ReplaceFree(p, q)
  /\ size' = [size EXCEPT ![p] = n, ![q] = size[p] - n]
  /\ Take(p, bytes, i)

AllocateWhole(p, bytes, i) ==
  /\ size[p] - Rounded(bytes) < Gran
  /\ UnlinkFree(p)
  /\ Take(p, bytes, i)
  /\ UNCHANGED <<nodes, next, prev, size>>

Allocate(bytes, i) ==
  /\ Ready /\ ~ Overflows(bytes)
  /\ \E p \in nodes :
       /\ FirstFit(p, Rounded(bytes))
       /\ IF p \in allocated \/ HeadIsWrong(p)
          THEN Crash
          ELSE AllocateSplit(p, bytes, i) \/ AllocateWhole(p, bytes, i)

(* memmgrFree, p being the control block of the pointer passed.  A block   *)
(* that joins a free one before it lets that one, already on the free      *)
(* list, grow; one that joins only the next takes that one's place on the  *)
(* free list; one between two free blocks takes the second off it; one     *)
(* with no free neighbour goes to the front.                               *)
JoinBoth(l, p, n) ==
  /\ UnlinkFree(n) /\ RemoveTwo(p, n)
  /\ size' = [size EXCEPT ![l] = size[l] + size[p] + size[n], ![p] = 0, ![n] = 0]

JoinPrev(l, p) ==
  /\ RemoveBlock(p)
  /\ size' = [size EXCEPT ![l] = size[l] + size[p], ![p] = 0]
  /\ UNCHANGED <<nextf, prevf>>

JoinNext(p, n) ==
  /\ ReplaceFree(n, p) /\ RemoveBlock(n)
  /\ size' = [size EXCEPT ![p] = size[p] + size[n], ![n] = 0]

JoinNone(p) == PushFree(p) /\ UNCHANGED <<nodes, next, prev, size>>

Disowned(p) == [owner EXCEPT ![p] = 0]

FreeBlock(p) ==
  LET l == prev[p]
      n == next[p] IN
  /\ \/ JoinsPrev(p) /\ Joinable(n) /\ JoinBoth(l, p, n)
     \/ JoinsPrev(p) /\ ~Joinable(n) /\ JoinPrev(l, p)
     \/ ~JoinsPrev(p) /\ Joinable(n) /\ JoinNext(p, n)
     \/ ~JoinsPrev(p) /\ ~Joinable(n) /\ JoinNone(p)
  /\ allocated' = allocated \ {p}
  /\ owner' = Disowned(p)
  /\ id' = [id EXCEPT ![p] = 0]
  /\ req' = [req EXCEPT ![p] = 0]
  /\ UNCHANGED <<fixed, supplied, crashed>>

MemFree(p) ==
  /\ Ready /\ p \in allocated
  /\ IF Joinable(next[p]) /\ HeadIsWrong(next[p])
     THEN Crash
     ELSE FreeBlock(p) /\ refused' = -1 /\ UNCHANGED walk

(* memmgrFreeId: its loop, one iteration at a time.  A freed block may     *)
(* have been joined to the one before it, so the walk then goes on from l. *)
FreeIdCall(i) ==
  /\ Ready
  /\ walk' = [id |-> i, p |-> next[NULL], l |-> NULL]
  /\ refused' = -1
  /\ UNCHANGED <<chains, fields, supplied, crashed>>

Resume_Here == walk.p
Resume == IF walk.l # NULL THEN walk.l ELSE walk.p

FreeIdStep ==
  /\ ~crashed /\ walk.p # NULL
  /\ IF walk.p \in allocated /\ id[walk.p] = walk.id
     THEN IF Joinable(next[walk.p]) /\ HeadIsWrong(next[walk.p])
          THEN Crash
          ELSE /\ FreeBlock(walk.p)
               /\ walk' = [walk EXCEPT !.l = Resume, !.p = next'[Resume]]
               /\ UNCHANGED refused
     ELSE /\ walk' = [walk EXCEPT !.l = walk.p, !.p = next[walk.p]]
          /\ UNCHANGED <<chains, fields, supplied, refused, crashed>>

FreeIdReturn ==
  /\ ~crashed /\ walk # NoWalk /\ walk.p = NULL
  /\ walk' = NoWalk
  /\ UNCHANGED <<chains, fields, supplied, refused, crashed>>

(* memmgrRealloc of block p in place.  The four ways it changes the heap:  *)
(* the next free block is swallowed; the boundary to the next free block   *)
(* moves, up when the block grows and down when it shrinks; a block is cut *)
(* off the end; nothing but the recorded size changes.                     *)
Swallow(p, z) ==
  /\ UnlinkFree(z) /\ RemoveBlock(z)
  /\ size' = [size EXCEPT ![p] = size[p] + size[z], ![z] = 0]

MoveBoundary(p, z, n) ==
  LET q == p + n IN
  /\ ReplaceFree(z, q) /\ ReplaceBlock(z, q)
  /\ size' = [a \in Addr |-> CASE a = p -> n
                              [] a = q -> size[p] + size[z] - n
                              [] a = z -> 0
                              [] OTHER -> size[a]]

CutOff(p, n) ==
  LET q == p + n IN
  /\ PushFree(q) /\ InsertBlock(p, q)
  /\ size' = [size EXCEPT ![p] = n, ![q] = size[p] - n]

Grow(p, n) ==
  LET z == next[p] IN
  IF size[p] + size[z] < (n + Gran) % WordLimit
  THEN Swallow(p, z) ELSE MoveBoundary(p, z, n)

Shrink_NeverJoins(p, n) == CutOff(p, n)
Shrink(p, n) ==
  LET z == next[p] IN
  IF Joinable(z) THEN MoveBoundary(p, z, n) ELSE CutOff(p, n)

Realloc(p, bytes) ==
  LET n == Rounded(bytes)
      z == next[p]
      grows   == size[p] < n
      shrinks == ~grows /\ (n + Gran) % WordLimit <= size[p]
  IN
  /\ Ready /\ p \in allocated /\ ~ Overflows(bytes)
  /\ grows => Joinable(z) /\ size[z] + size[p] >= n
  /\ IF (grows \/ (shrinks /\ Joinable(z))) /\ HeadIsWrong(z)
     THEN Crash
     ELSE /\ \/ grows /\ Grow(p, n)
             \/ shrinks /\ Shrink(p, n)
             \/ ~grows /\ ~shrinks /\ UNCHANGED <<chains, size>>
          /\ req' = [req EXCEPT ![p] = bytes]
          /\ refused' = -1
          /\ UNCHANGED <<fixed, allocated, id, owner, supplied, walk, crashed>>

SetOwner(p, o) ==                                         \* memmgrSetOwner
  /\ Ready /\ p \in allocated
  /\ owner' = [owner EXCEPT ![p] = o]
  /\ refused' = -1
  /\ UNCHANGED <<chains, size, fixed, allocated, id, req, supplied, walk, crashed>>

Next ==
  \/ \E b \in Buffers : Supply(b)
  \/ \E bytes \in Requests : AllocateNull(bytes)
  \/ \E bytes \in Requests, i \in Ids : Allocate(bytes, i)
  \/ \E p \in allocated : MemFree(p)
  \/ \E i \in Ids : FreeIdCall(i)
  \/ FreeIdStep
  \/ FreeIdReturn
  \/ \E p \in allocated, bytes \in Requests : Realloc(p, bytes)
  \/ \E p \in allocated, o \in Owners : SetOwner(p, o)

Spec == Init /\ [][Next]_vars

-----------------------------------------------------------------------------
TypeOK ==
  /\ nodes \subseteq Addr /\ fixed \subseteq nodes /\ allocated \subseteq nodes
  /\ next \in [Ptr -> Ptr] /\ prev \in [Ptr -> Ptr]
  /\ nextf \in [Ptr -> Ptr] /\ prevf \in [Ptr -> Ptr]
  /\ size \in [Addr -> 0 .. LastAddr]
  /\ id \in [Addr -> Ids \cup {0}] /\ owner \in [Addr -> Owners \cup {0}]
  /\ req \in [Addr -> Requests \cup {0}]
  /\ supplied \subseteq Buffers /\ refused \in Requests \cup {-1}
  /\ walk \in [id : Ids \cup {-1}, p : Ptr, l : Ptr]
  /\ crashed \in BOOLEAN

(* memmgr.c stops the program when a list contradicts itself; the calls    *)
(* above never bring it there, whatever their order.                       *)
NeverCrashes == ~crashed

(* f and g are the two directions of one list over S and its head.         *)
Ring(f, g, S) ==
  \A p \in S \cup {NULL} : /\ f[p] \in S \cup {NULL} /\ g[f[p]] = p
                           /\ g[p] \in S \cup {NULL} /\ f[g[p]] = p

(* memmgrIntegrity's checks: both lists are consistent in both directions. *)
BlockRing == Ring(next, prev, nodes)
FreeRing  == Ring(nextf, prevf, Free)

(* Following f from the head meets every member of S.                      *)
Reach(f, S) ==
  \A T \in SUBSET S :
    f[NULL] \in T \cup {NULL} /\ (\A q \in T : f[q] \in T \cup {NULL}) => T = S

(* Following nextf from startf meets every free block (and, by FreeRing,   *)
(* nothing else): no block is leaked to a loop of its own or to nowhere.   *)
FreeReachable == Reach(nextf, Free)

(* Both lists are whole, whatever was spliced where.                       *)
Lists == BlockRing /\ FreeRing /\ FreeReachable

(* The block list is in address order and skips no block.                  *)
Ordered ==
  \A p, q \in nodes \cup {NULL} :
    /\ q > p => next[p] # NULL /\ next[p] <= q
    /\ next[p] # NULL => next[p] > p

(* Every byte of a supplied buffer is in exactly one block, no block       *)
(* reaches outside, and free neighbours of one buffer are always joined:   *)
(* nothing is lost or handed out twice, and no history of splitting leaves *)
(* memory in smaller pieces than the allocated blocks make of it.          *)
Extent(p) == p .. (p + size[p] - 1)
Disjoint  == \A p, q \in nodes : p < q => p + size[p] <= q
Covered   == UNION {Extent(p) : p \in nodes}
               = UNION {Base(b) .. (Limit(b) - 1) : b \in supplied}
Coalesced == \A p \in Free : ~ Joinable(next[p])
Tiling    == Covered /\ Disjoint /\ Coalesced

(* A block is as large as its owner was told, after any rounding and any   *)
(* overflow of size_t.                                                     *)
RoomEnough == \A p \in allocated : req[p] + HeaderSize <= size[p]

(* The pointers memmgrFreeId keeps across memmgrFree point at live control *)
(* blocks, next to each other, and no block behind them still has the id.  *)
CursorValid ==
  walk # NoWalk =>
    /\ walk.p \in nodes \cup {NULL} /\ walk.l \in nodes \cup {NULL}
    /\ walk.l = NULL => walk.p = next[NULL]
    /\ walk.l # NULL => walk.p \in {walk.l, next[walk.l]}
    /\ \A q \in allocated : id[q] = walk.id => walk.p # NULL /\ walk.p <= q

(* memmgrAllocate returns NULL only when no free block can hold the        *)
(* request: the order of the free list and old splits never hide one.      *)
RefusedHonestly ==
  refused # -1 => \/ Overflows(refused)
                  \/ \A p \in Free : size[p] < Rounded(refused)

(* Blocks without an owner stay so: a freed or newly split block does not  *)
(* keep the process id of an earlier life.                                 *)
FreeIsUnowned == \A p \in Addr : owner[p] # 0 => p \in allocated

(* A call changes at most one allocated block, and moves none: memory that *)
(* a caller holds stays where it is while others allocate, free, resize.   *)
(* A new control block is written only clear of the control blocks that    *)
(* were there before: the code goes on reading those after writing it.     *)
Keeps(p) == p \in allocated' /\ size[p]' = size[p] /\ req[p]' = req[p] /\ id[p]' = id[p]
OneDisturbed == \A p, q \in allocated : p # q => Keeps(p) \/ Keeps(q)
HeadersApart == \A q \in nodes' \ nodes, z \in nodes : q + HeaderSize <= z \/ z + HeaderSize <= q
HoldersUndisturbed == [][OneDisturbed /\ HeadersApart]_vars

-----------------------------------------------------------------------------
(* The heap is sound, which is inductive: the fields are in range, the     *)
(* lists whole and in order, and each block lies in one buffer, has room   *)
(* for its control block, and touches the next one unless that starts a    *)
(* buffer, whatever was split, joined and spliced in whatever order.       *)
Adjacent == \A p \in nodes :
              next[p] # NULL /\ next[p] \notin fixed => next[p] = p + size[p]
Housed   == \A p \in nodes : \E b \in supplied :
              Base(b) <= p /\ p + size[p] <= Limit(b)
Heads    == fixed = {Base(b) : b \in supplied}
Sized    == \A p \in nodes : size[p] >= HeaderSize
Geometry == Ordered /\ Disjoint /\ Adjacent /\ Housed /\ Heads /\ Sized

HeapInv == TypeOK /\ Lists /\ Geometry
=============================================================================
