--------------------------------- MODULE Vmm ---------------------------------
(***************************************************************************)
(* Virtual memory of PDOS/386 (src/src/vmm.c) over its page frames         *)
(* (src/src/physmem.c), as pdos.c uses them: one VMM for the kernel and    *)
(* one for each process, each with a page directory.                       *)
(*                                                                         *)
(* The page tables of kernel space are entered in every directory, but     *)
(* vmm.c changes only the directory that is loaded.  The entries of the    *)
(* others go stale, until schedule() copies the current ones into the      *)
(* directory it is about to load.                                          *)
(*                                                                         *)
(* Pages are numbered, process space from 0 and kernel space behind it.    *)
(* A call is one action.  The kernel makes its own calls with interrupts   *)
(* off; a process that is switched away in the middle of a call finds its  *)
(* directory loaded when it goes on, and shares with others only the       *)
(* frames, which physmem.c takes and gives with interrupts off.            *)
(***************************************************************************)
EXTENDS Naturals, FiniteSets, FiniteSetsExt

CONSTANTS
  Procs,        \* processes
  Kernel,       \* the space of kernel_vmm
  Frames,       \* the frames supplied to physmem; frame 0 is not among them
  PtEntries,    \* PT_NUM_ENTRIES
  ProcTables,   \* page tables that process space spans
  KernelTables, \* page tables that kernel space spans
  Absent,       \* an entry that is not present
  Sizes         \* numbers of pages asked for

ASSUME VmmAssumption ==
  /\ Kernel \notin Procs /\ Absent \notin Frames \cup {0}
  /\ Frames \subseteq Nat \ {0} /\ Frames # {} /\ IsFiniteSet(Frames)
  /\ {PtEntries, ProcTables, KernelTables} \subseteq Nat \ {0}
  /\ Sizes \subseteq Nat \ {0}

VARIABLES
  free,      \* the bitmap of physmem.c: frames whose bit is set
  tables,    \* what is in the frames that are page tables
  directory, \* the entries of each space's page directory
  pdFrame,   \* vmm->pd_physaddr
  nodes,     \* the list of free ranges of each VMM
  stage,     \* how far a process is between vmmInit and vmmTerm
  loaded     \* the space whose directory CR3 holds

vars == <<free, tables, directory, pdFrame, nodes, stage, loaded>>

Spaces == Procs \cup {Kernel}
Stages == {"none", "new", "live", "freed", "left"}

First(s) == IF s = Kernel THEN ProcTables * PtEntries ELSE 0
Length(s) == (IF s = Kernel THEN KernelTables ELSE ProcTables) * PtEntries
Pages(s) == First(s) .. First(s) + Length(s) - 1
Node == [addr : Nat, size : Nat \ {0}]
Extent(a, n) == [addr |-> a, size |-> n]
PagesOf(r) == r.addr .. r.addr + r.size - 1
Covered(N) == UNION {PagesOf(r) : r \in N}

PdIndex(page) == page \div PtEntries                          \* GET_PD_INDEX
PtIndex(page) == page % PtEntries                             \* GET_PT_INDEX
Tables == 0 .. ProcTables + KernelTables - 1
KernelEntries == ProcTables .. ProcTables + KernelTables - 1
EmptyTable == [j \in 0 .. PtEntries - 1 |-> Absent]
EmptyDirectory == [i \in Tables |-> Absent]

-----------------------------------------------------------------------------
(* physmem.c.  The lowest free frame, or 0, which callers take for one.    *)
AllocPageFrame(F) == IF F = {} THEN 0 ELSE Min(F)

(* vmmMapPages and vmmUnmapPages work on what the loaded directory leads   *)
(* to: m = [free, dir, tables].  Frame 0 is entered like any other when    *)
(* frames run out; Enough keeps to calls for which they last.              *)
Mapping(s) == [free |-> free, dir |-> directory[s], tables |-> tables]

TakeFrame(m) == [m EXCEPT !.free = @ \ {AllocPageFrame(@)}]

(* A page table for page, if there is none.                                *)
WithTable(m, page) ==
  IF m.dir[PdIndex(page)] # Absent THEN m
  ELSE LET f == AllocPageFrame(m.free) IN
       [TakeFrame(m) EXCEPT !.dir[PdIndex(page)] = f, !.tables[f] = EmptyTable]

Enter(m, page) ==
  [TakeFrame(m) EXCEPT
     !.tables[m.dir[PdIndex(page)]][PtIndex(page)] = AllocPageFrame(m.free)]

MapPage(m, page) == Enter(WithTable(m, page), page)
Enough(m, a, n) ==
  n + Cardinality({i \in {PdIndex(page) : page \in a .. a + n - 1} : m.dir[i] = Absent})
    <= Cardinality(m.free)

MapPages(m, a, n) ==
  LET after[k \in 0 .. n] == IF k = 0 THEN m ELSE MapPage(after[k - 1], a + k - 1)
  IN after[n]

(* One page table of a range to be unmapped, and the table itself if       *)
(* nothing is left in it.  u = [m, page, left]: so many pages are left to  *)
(* unmap, the next one being page.                                         *)
Entries(u) == PtIndex(u.page) .. Min({PtEntries, PtIndex(u.page) + u.left}) - 1

Cleared(u) ==
  [j \in 0 .. PtEntries - 1 |->
     IF j \in Entries(u) THEN Absent ELSE u.m.tables[u.m.dir[PdIndex(u.page)]][j]]

Removable_Suffix(t, u) == \A j \in PtIndex(u.page) .. PtEntries - 1 : t[j] = Absent
Removable_Never(t, u) == FALSE
Removable(t, u) == \A j \in DOMAIN t : t[j] = Absent

Advance(u) == [u EXCEPT !.page = (PdIndex(@) + 1) * PtEntries,
                        !.left = @ - Cardinality(Entries(u))]

UnmapTable(u) ==
  LET i     == PdIndex(u.page)
      f     == u.m.dir[i]
      drops == Removable(Cleared(u), u)
      given == {u.m.tables[f][j] : j \in Entries(u)} \ {Absent}
  IN
  IF f = Absent
  THEN [u EXCEPT !.page = (i + 1) * PtEntries,
                 !.left = IF @ <= PtEntries THEN 0 ELSE @ - PtEntries]
  ELSE [Advance(u) EXCEPT
          !.m.free = @ \cup given \cup IF drops THEN {f} ELSE {},
          !.m.tables[f] = IF drops THEN EmptyTable ELSE Cleared(u),
          !.m.dir[i] = IF drops THEN Absent ELSE f]

UnmapPages(m, a, n) ==
  LET after[k \in 0 .. Cardinality(Tables)] ==
        IF k = 0 THEN [m |-> m, page |-> a, left |-> n]
        ELSE IF after[k - 1].left = 0 THEN after[k - 1] ELSE UnmapTable(after[k - 1])
  IN after[Cardinality(Tables)].m

-----------------------------------------------------------------------------
(* The list of free ranges.  Its order decides only which of two ranges of *)
(* the same size is taken, so that it is a set here.                       *)

(* vmmSupply *)
FrontNode(N, r) == {f \in N : f.addr + f.size = r.addr}
BackNode(N, r)  == {b \in N : b.addr = r.addr + r.size}

OrElse(S, r) == IF S = {} THEN {r} ELSE S
Join(f, b) == Extent(f.addr, b.addr + b.size - f.addr)

Supply_NoBack(N, r) ==
  (N \ FrontNode(N, r)) \cup {Join(f, r) : f \in OrElse(FrontNode(N, r), r)}
Supply(N, r) ==
  (N \ (FrontNode(N, r) \cup BackNode(N, r)))
    \cup {Join(f, b) : f \in OrElse(FrontNode(N, r), r), b \in OrElse(BackNode(N, r), r)}

(* What is left of a range from whose start n pages are taken.             *)
Rest(r, n) == IF r.size = n THEN {} ELSE {Extent(r.addr + n, r.size - n)}

(* The smallest ranges that are large enough: vmmAllocPages.               *)
Best(N, n) == {r \in N : r.size >= n /\ \A x \in N : x.size >= n => r.size <= x.size}

(* A range taken at a chosen place splits the one that holds it:           *)
(* vmmAllocPagesAt.                                                        *)
Split(r, a, n) ==
  IF a = r.addr THEN Rest(r, n)
  ELSE {Extent(r.addr, a - r.addr)}
         \cup IF a + n = r.addr + r.size THEN {}
              ELSE {Extent(a + n, r.addr + r.size - (a + n))}

-----------------------------------------------------------------------------
(* After the kernel has set itself up: its directory is loaded, all of its *)
(* space is one free range.                                                *)
Init ==
  /\ loaded = Kernel
  /\ pdFrame = [s \in Spaces |-> IF s = Kernel THEN Min(Frames) ELSE 0]
  /\ free = Frames \ {Min(Frames)}
  /\ tables = [f \in Frames \cup {0} |-> EmptyTable]
  /\ directory = [s \in Spaces |-> EmptyDirectory]
  /\ nodes = [s \in Spaces |-> IF s = Kernel THEN {Extent(First(s), Length(s))} ELSE {}]
  /\ stage = [p \in Procs |-> "none"]

(* The spaces in which the code that runs may make calls: the kernel's,    *)
(* and that of the process whose thread runs.                              *)
Usable == {Kernel} \cup {p \in Procs : p = loaded /\ stage[p] = "live"}

Installs(m) ==
  /\ free' = m.free /\ tables' = m.tables
  /\ directory' = [directory EXCEPT ![loaded] = m.dir]

(* The pages of a space that have been given to callers.                   *)
Allocated(s) == Pages(s) \ Covered(nodes[s])

(* vmmAllocPages: stacks of threads, the heap's blocks, memory of programs *)
AllocPages(s, n) ==
  /\ s \in Usable
  /\ \E r \in Best(nodes[s], n) :
       /\ Enough(Mapping(loaded), r.addr, n)
       /\ Installs(MapPages(Mapping(loaded), r.addr, n))
       /\ nodes' = [nodes EXCEPT ![s] = (@ \ {r}) \cup Rest(r, n)]
  /\ UNCHANGED <<pdFrame, stage, loaded>>

(* vmmAllocPagesAt *)
AllocPagesAt(s, n, a) ==
  /\ s \in Usable \ {Kernel}
  /\ \E r \in nodes[s] :
       /\ a \in PagesOf(r) /\ a + n <= r.addr + r.size
       /\ Enough(Mapping(loaded), a, n)
       /\ Installs(MapPages(Mapping(loaded), a, n))
       /\ nodes' = [nodes EXCEPT ![s] = (@ \ {r}) \cup Split(r, a, n)]
  /\ UNCHANGED <<pdFrame, stage, loaded>>

(* vmmFreePages, of pages that the caller has got and not yet given back   *)
FreePages(s, n, a) ==
  /\ s \in Usable
  /\ a .. a + n - 1 \subseteq Allocated(s)
  /\ Installs(UnmapPages(Mapping(loaded), a, n))
  /\ nodes' = [nodes EXCEPT ![s] = Supply(@, Extent(a, n))]
  /\ UNCHANGED <<pdFrame, stage, loaded>>

(* loadExe32: vmmInit, with nothing of kernel space in the new directory   *)
InitSpace(p) ==
  /\ stage[p] = "none" /\ free # {}
  /\ pdFrame' = [pdFrame EXCEPT ![p] = AllocPageFrame(free)]
  /\ free' = free \ {AllocPageFrame(free)}
  /\ directory' = [directory EXCEPT ![p] = EmptyDirectory]
  /\ stage' = [stage EXCEPT ![p] = "new"]
  /\ UNCHANGED <<tables, nodes, loaded>>

(* schedule(), to a thread of another process: vmmCopyCurrentMapping of    *)
(* kernel space and loadPageDirectory.                                     *)
CopyCurrentMapping_Once(s) ==
  [directory EXCEPT ![s] =
     [i \in Tables |-> IF i \in KernelEntries /\ @[i] = Absent THEN directory[loaded][i] ELSE @[i]]]
CopyCurrentMapping(s) ==
  [directory EXCEPT ![s] =
     [i \in Tables |-> IF i \in KernelEntries THEN directory[loaded][i] ELSE @[i]]]

Loadable == {Kernel} \cup {p \in Procs : stage[p] \in {"new", "live", "freed"}}

Switch(s) ==
  /\ s \in Loadable \ {loaded}
  /\ directory' = CopyCurrentMapping(s)
  /\ loaded' = s
  /\ UNCHANGED <<free, tables, pdFrame, nodes, stage>>

(* startExe32: vmmSupply of process space                                  *)
SupplySpace(p) ==
  /\ p = loaded /\ stage[p] = "new"
  /\ nodes' = [nodes EXCEPT ![p] = Supply(@, Extent(First(p), Length(p)))]
  /\ stage' = [stage EXCEPT ![p] = "live"]
  /\ UNCHANGED <<free, tables, directory, pdFrame, loaded>>

(* terminateExe32: vmmFree of process space, whatever is mapped in it ...  *)
FreeSpace(p) ==
  /\ p = loaded /\ stage[p] = "live"
  /\ Installs(UnmapPages(Mapping(p), First(p), Length(p)))
  /\ nodes' = [nodes EXCEPT ![p] = Supply(@, Extent(First(p), Length(p)))]
  /\ stage' = [stage EXCEPT ![p] = "freed"]
  /\ UNCHANGED <<pdFrame, loaded>>

(* ... the change to the kernel's directory ...                            *)
LeaveSpace(p) ==
  /\ p = loaded /\ stage[p] = "freed"
  /\ directory' = CopyCurrentMapping(Kernel)
  /\ loaded' = Kernel
  /\ stage' = [stage EXCEPT ![p] = "left"]
  /\ UNCHANGED <<free, tables, pdFrame, nodes>>

(* ... and vmmTerm.                                                        *)
TermSpace(p) ==
  /\ stage[p] = "left"
  /\ free' = free \cup {pdFrame[p]}
  /\ pdFrame' = [pdFrame EXCEPT ![p] = 0]
  /\ directory' = [directory EXCEPT ![p] = EmptyDirectory]
  /\ nodes' = [nodes EXCEPT ![p] = {}]
  /\ stage' = [stage EXCEPT ![p] = "none"]
  /\ UNCHANGED <<tables, loaded>>

Next ==
  \/ \E s \in Spaces, n \in Sizes :
       \/ AllocPages(s, n)
       \/ \E a \in Pages(s) : AllocPagesAt(s, n, a) \/ FreePages(s, n, a)
  \/ \E s \in Spaces : Switch(s)
  \/ \E p \in Procs :
       InitSpace(p) \/ SupplySpace(p) \/ FreeSpace(p) \/ LeaveSpace(p) \/ TermSpace(p)

Spec == Init /\ [][Next]_vars

-----------------------------------------------------------------------------
TypeOK ==
  /\ free \subseteq Frames
  /\ tables \in [Frames \cup {0} -> [0 .. PtEntries - 1 -> Frames \cup {0, Absent}]]
  /\ directory \in [Spaces -> [Tables -> Frames \cup {0, Absent}]]
  /\ pdFrame \in [Spaces -> Frames \cup {0}]
  /\ stage \in [Procs -> Stages] /\ loaded \in Spaces
  /\ \A s \in Spaces : nodes[s] \subseteq Node

(* The entry that counts for a page of s: for kernel space the one in the  *)
(* directory that is loaded.                                               *)
Entry(s, i) == directory[IF s = Kernel THEN loaded ELSE s][i]
Own(s) == {PdIndex(page) : page \in Pages(s)}

(* The frame behind a page.                                                *)
Frame(s, page) ==
  LET f == Entry(s, PdIndex(page)) IN
  IF f = Absent THEN Absent ELSE tables[f][PtIndex(page)]
Mapped(s) == {page \in Pages(s) : Frame(s, page) # Absent}

(* Every frame is free or has one use: as a directory, as a page table or  *)
(* behind one page.  None is lost when a process ends or a page table      *)
(* empties, and no stale entry of a directory that was not loaded at the   *)
(* time leads to one that has been given away.                             *)
UsesOf(s) == {<<"directory", s, 0, pdFrame[s]>>}
               \cup {<<"table", s, i, Entry(s, i)>> : i \in Own(s)}
               \cup {<<"page", s, page, Frame(s, page)>> : page \in Pages(s)}
Uses == UNION {UsesOf(s) : s \in Spaces}

FramesOnce ==
  /\ TypeOK
  /\ \A f \in Frames :
       Cardinality({u \in Uses : u[4] = f}) = IF f \in free THEN 0 ELSE 1

(* The free ranges of a space lie in it and neither overlap nor touch ...  *)
InService == {Kernel} \cup {p \in Procs : stage[p] = "live"}

Apart(N) == \A r, x \in N : r = x \/ r.addr + r.size < x.addr \/ x.addr + x.size < r.addr
Inside(N, lo, hi) == \A r \in N : lo <= r.addr /\ r.addr + r.size <= hi

FreeRanges ==
  \A s \in InService :
    /\ nodes[s] \subseteq Node
    /\ Apart(nodes[s]) /\ Inside(nodes[s], First(s), First(s) + Length(s))

(* ... and are exactly the longest runs of pages that are not mapped, so   *)
(* that a request is refused only if no run of pages is long enough.       *)
NodesExact ==
  FreeRanges /\ \A s \in InService : Covered(nodes[s]) = Pages(s) \ Mapped(s)

(* A page table is kept only while a page is mapped through it.            *)
TablesNeeded ==
  \A s \in Spaces : \A i \in Own(s) :
    Entry(s, i) # Absent => \E page \in Mapped(s) : PdIndex(page) = i

(* What a page leads to stays the same until it is freed, whatever other   *)
(* spaces do and however often directories are changed, and no two pages   *)
(* share a frame.                                                          *)
Memory ==
  [x \in UNION {{s} \X Allocated(s) : s \in InService} |-> Frame(x[1], x[2])]
Backing == INSTANCE AddressSpaces WITH memory <- Memory, Contains <- Pages
KeepsPages == Backing!Spec
=============================================================================
