---------------------------- MODULE MemMgrStats ----------------------------
(***************************************************************************)
(* What memmgr.c tells about the heap: memmgrMaxSize,                      *)
(* which walks from the head of the free list, and memmgrGetStats and      *)
(* memmgrGetOwnerStats, which walk the list of all blocks.                 *)
(***************************************************************************)
EXTENDS MemMgr, FiniteSetsExt

(* An owner is an unsigned long.                                           *)
ASSUME OwnersAssumption == IsFiniteSet(Owners)

(* The blocks a loop "for p = s; p; p = f(p)" visits: those in every set   *)
(* that holds s and, with a block, the next one.                           *)
Visited(f, s) ==
  {p \in nodes :
     \A T \in SUBSET nodes :
       s \in T \cup {NULL} /\ (\A q \in T : f[q] \in T \cup {NULL}) => p \in T}

Total(S)   == SumFunctionOnSet(size, S)
Largest(S) == Max({size[p] : p \in S} \cup {0})

MaxSize_Head == Largest({nextf[NULL]} \ {NULL}) - HeaderSize
MaxSize ==
  LET max == Largest(Visited(nextf, nextf[NULL]))
  IN IF max # 0 THEN max - HeaderSize ELSE max

(* memmgrGetStats and memmgrGetOwnerStats *)
Stats(S) == [count |-> Cardinality(S), total |-> Total(S), max |-> Largest(S)]
AllocatedStats == Stats(Visited(next, next[NULL]) \cap allocated)
FreeStats      == Stats(Visited(next, next[NULL]) \ allocated)
OwnerStats ==
  LET all == Visited(next, next[NULL]) \cap allocated
  IN [o \in Owners \cup {0} |-> Stats({p \in all : owner[p] = o})]

-----------------------------------------------------------------------------
(* The statistics agree: memmgrMaxSize, which walks the free list, and     *)
(* memmgrGetStats, which walks all blocks, tell the same largest free      *)
(* block; memmgrGetStats accounts for every byte supplied; the statistics  *)
(* of the owners (0 for none) add up to those of all allocated blocks, and *)
(* no owner's are kept by a block that is free (memmgrFree).               *)
StatsAgree ==
  LET used     == AllocatedStats
      free     == FreeStats
      accounts == OwnerStats
      totals   == [o \in Owners \cup {0} |-> accounts[o].total]
      counts   == [o \in Owners \cup {0} |-> accounts[o].count]
  IN /\ MaxSize = IF free.max = 0 THEN 0 ELSE free.max - HeaderSize
     /\ used.total + free.total
          = SumFunctionOnSet([b \in supplied |-> Usable(b)], supplied)
     /\ used.total = SumFunctionOnSet(totals, Owners \cup {0})
     /\ used.count = SumFunctionOnSet(counts, Owners \cup {0})
     /\ FreeIsUnowned

=============================================================================
