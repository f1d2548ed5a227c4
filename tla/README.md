# A formal model of PDOS

TLA+ modules for the core of PDOS (the public domain operating system in `src/`), checked with TLC on
small instances and, for the memory manager, the threads, the programs, the files, the directories, virtual
memory, the kernel's heap, the streams' buffer and the receive ring of the network card, proved with TLAPS for
all sizes.

## The system

PDOS is a DOS-like operating system. `src/src` holds the PC kernel, which builds as PDOS/86 (16 bits) and
PDOS/386 (protected mode, virtual memory, preemptive threads). `pdos.c` is its centre: system call
handlers, the loader, processes, threads and file handles; the other files are its services.

| part | files | state | operations | hard behaviour |
|---|---|---|---|---|
| memory manager | `memmgr.c` | blocks on two linked lists inside the managed memory | supply, allocate, free, free by id, resize, owners, statistics | list surgery after arbitrary call orders, size_t wrap, pointers kept across frees |
| threads | `pdos.c:553-875`, `pdoss.s`, `protintp.c` | control blocks, ready list, list of the dead, `curTCB`, interrupt flag | create, create and wait, schedule, block, unblock, terminate, clean; mutex | preemption at any step with interrupts on, blocks reused, wake-ups, one link field for two lists |
| processes | `process.c`, `pdos.c:4888-5411` | process chain, `curPCB`, status, loader globals | load, start, terminate, find | threads of two processes in the loader at once, parents that die first |
| page frames, virtual memory | `physmem.c`, `vmm.c` | frame bitmap; free address ranges, page tables | supply, allocate, free, map, unmap | rounding at table boundaries, exhaustion |
| kernel heap | `liballoc.c`, `pdos.c:877-909` | pages and blocks | kmalloc, kfree, krealloc | re-entered through the page hooks; one global for the saved interrupt flag |
| file system | `fat.c` | cluster chains, directory, open file positions | create, open, read, write, seek, delete, rename | chains and directory in step, end-of-cluster positions, failure in the middle |
| file handles | `pdos.c:5454-6000` | `fhandle` table, `fatMutex` | open, create, close, read, write, duplicate | table entries claimed outside the mutex |
| interrupts and system calls | `protint*.c/.s`, `int21.c`, `int80.c` | handler table, saved registers | dispatch | gates turn interrupts off; the timer switches threads |
| serial port | `uart.c`, `pdos.c:3000-3140` | device registers | send and receive with `hlt` | interrupt before the wait |
| network card | `src/net/pcnetii.c` | rings of descriptors shared with the card, RINT | receive, send | the card works at any moment; several frames, one RINT |
| network layers | `src/net/arp.c` ... `udp.c` | ARP cache | resolve, send, receive | sequential, on top of the ring |
| C library | `src/pdpclib/stdio.c` | per stream a buffer, where it lies in the file, the mode it is in | open, read, get a line, push back, write, move, tell, flush, close | one buffer for reading and writing, short cuts around it, lines across its end |
| mainframe PDOS | `src/s370` | its own | its own | a second system, not modelled |
| tool chain, Windows layer, loaders, utilities | the rest | | | not modelled: batch programs, thin translations, third-party code |

How they interact: system calls reach `pdos.c` through interrupt gates that turn interrupts off. PDOS/86
takes all its memory from one `memmgr`; programs' memory carries an id per nesting level, and the loader
frees by id when a program ends. In PDOS/386 a process is a thread with an address space; starting one
creates a thread (and blocks the caller when it waits for it), a dying thread hands its block to the
cleaner thread. `fat.c` is called under `fatMutex`. `kmalloc` gets pages from the kernel's `VMM`, which
gets frames from `physmem` and its own nodes from `kmalloc`. Programs, the command processor among them, reach
files through the streams of `pdpclib`, whose `iread`, `iwrite` and `__seek` are system calls.

## What is modelled

### MemMgr (all of memmgr.c)

Variables correspond to the code's fields: `next/prev/nextf/prevf/size/id/owner` are those of `MEMMGRN`,
`fixed` and `allocated` the sets of blocks with that flag, `req` the size kept in the word before the
caller's data, `nodes` the addresses that hold a control block. Memory is an interval of addresses; a
control block occupies `HeaderSize` of them, so a block that is too small, a control block written over
another, and a size that wraps (`WordLimit`) can all be expressed. The two list heads are the successors of
`NULL`. A call is one action, as nothing in the code lets two calls overlap; only `memmgrFreeId` is a call
plus one action per iteration, because it keeps pointers across `memmgrFree`. The stops of the code for a
corrupt list (`exit`) are the variable `crashed`. The internals of the loops that search a list are
abstracted to what they find: `FirstFit` says "the first large enough block on the path from `startf`" as
membership in every set closed under the walk, so that it needs no recursion and can be reasoned about.

`memmgrDefaults`, `memmgrTerm`, the debug switch and the integrity walk itself change no state; the
integrity walk's conditions are the parts `BlockRing` and `FreeRing` of `Lists` in the property `HeapInv`.

`MemMgrStats` adds `memmgrMaxSize`, which walks the free list, and `memmgrGetStats` and `memmgrGetOwnerStats`,
which walk all blocks. A walk is the smallest set that holds its start and, with a block, the next one (`Visited`).
`memmgrTotSize` is left out: it mixes the two lists (see By reading).

Assumptions: buffers are disjoint and large enough for a control block after alignment, and memory ends
more than two minimal blocks below the wrap of `size_t` (`BufferAssumption`, `GeometryAssumption`). Both
are what `pdos.c` does when it supplies memory.

### Threads and RoundRobin

`Threads` has the thread control blocks with their fields, the ready list as the code links it
(`ready.first`, `ready.last`, `next`), the list of dead threads through the same field, the cleaner's local
variable, `curPCB` and the page directory loaded (`space`), `fatMutex`, the interrupt flag `irq`, and per
thread the flag it gets back with the processor (`eflags`, on its stack) and the place it has reached
(`pc`). Code that runs with interrupts off is one action; the cleaner's `blockThread` is two, since it is
called with interrupts on; `Timer` can come between any two actions while they are on. A process's thread
is reduced to what the scheduler sees of it: interrupts on or off, waiting for a key, FAT calls under the
mutex, starting other programs with or without waiting, ending. `kmalloc` and `kfree` may return with
interrupts off (the global `liballocSavedEFLAGS`), which the model allows.

`RoundRobin` is what the scheduler promises: a running thread and a queue. `Threads` implements it under
the mapping that reads the queue off the links (`RoundRobinTurns`).

The process chain, status and the loader's globals are not in this module; a process is named by its thread.

The makefiles define `NOVM` for PDOS/386, which leaves the scheduler, `vmm.c`, `physmem.c` and `liballoc.c`
out: one `memmgr` is the heap and programs run one at a time. `Threads` describes the kernel as it is built
without `NOVM`; `Programs386` describes the build with it, and everything about `memmgr.c` applies to both.

### Processes, Programs86, Programs386

`Processes` is `process.c`: the chain from `initProc` in both directions, `parent`, `status`, `curPCB`,
reparenting. What is allocated for processes is a set of blocks `[kind, process]` with the id each was
allocated under; `memmgrFreeId` is "all blocks of an id", which `MemMgr` justifies. `frames` is the stack of
loader calls, one per program that runs, and is what the invariants compare the rest with.

`Programs86` is `loadExe` of PDOS/86 with the calls that touch what it cleans up: memory, environment,
staying resident. `loadExe` is two actions, before and after the program. `room` is what is left of a
process's own block, in units, to say what a resident program keeps. `crashed` is memmgr's stop for a block
that is not allocated.

`Programs386` is `loadExe32`, `startExe32` and `terminateExe32` under `NOVM`. Once a running program has
lost its control block it is not followed further (`Intact`).

### FatFiles

A FAT disk with files in its root directory, as `fat.c` keeps them: the table (`next`), the sector of it that
`fatReadLogicalCached` keeps, directory entries, and per handle the `FATFILE` whose position (`currentCluster`,
`sectorStart`, `sectorUpto`, `currpos`) reading, writing and seeking share. Each of them leaves the position
in its own convention when it stands on a sector or cluster boundary, which is where the difficulty of
`fat.c` lies. A call is one action, since `pdos.c` makes it under `fatMutex`, and its loops are recursive
functions over records that follow the code's loops turn by turn (`ReadStep`) or block by block (`Put`,
`Expanded`).

Contents are not kept between calls. A write works on symbolic sectors, every byte of which is at first "what
was there", so that `CallsRight` and `OthersKept` say for every reachable position which bytes a write puts
where and which it loses, and where the bytes of a read came from. A history of correct calls is then a
history of correct contents.

Five ways to use a handle go wrong in this code (`Patterns`). `did` records which of them the next call would
complete; the calls that would are taken only if the pattern is in `Slips`. With `Slips = {}` all other call
sequences are checked; with a pattern in `Slips` TLC finds `CallsRight` violated:

| slip | where | what happens |
|---|---|---|
| `past_end` | 1144, 1503, 1574 | sought past the end of a file whose last sector is full, `fatSeek` leaves a sector that is one too far or in a cluster the chain does not have, or stays in the last sector; `fatWriteFile` fills the gap relying on "fatSeek set everything up", and overwrites the file's last sector or writes outside the file |
| `filled` | 1234, 1352 | a write that exactly fills a sector inside the file does not move on: the next write goes over the same sector, and with clusters of one sector a seek forward counts from the wrong cluster |
| `at_end` | 1017, 1229 | a read to the end of a file whose last sector is full has moved to the next sector, where the following write goes, behind a sector that stays empty |
| `before` | 1503 | from a negative position, a seek to the end takes the position for one behind the end and moves nothing |
| `created` | 391-433 | `fatCreatFile` leaves `currentCluster` as it was in the handle; a read of the new file goes there |

A disk that fills up in the middle of a write ends in `PosMonitor`; nothing is followed after that
(`monitor`). Deleting or re-creating a file that a handle has open is not refused by the code and is left out
(`Opened`). Left out as well: directories and long names (see FatDir), FAT-32's count of free clusters, the
date of last access (off by default), tables of more than one sector (only the cache could tell), and a root
directory longer than two clusters: `num_clusters` (`fat.c:228`) does not subtract it, and with it `ChainsSound`
fails, as clusters behind the end of the disk are given out. `EOC` stands for all the marks for the end of a chain,
and `DiskAssumption` says that no cluster has the number of one (see By reading for FAT-12).

### FatDir and Directory

`FatDir` is one directory as the disk holds it: `slots`, a row of ends, deleted slots, pieces of long names and
8.3 entries, in a root of fixed size or in clusters that are chained on (`chain`). Looking up is stated on the
slots before an entry: `fatDirSectorSearch` keeps one buffer, one length and one checksum for the long name read
last, which outlive the entries they were read for, so that what a name finds can depend on pieces far away
(`HasLongName`, `TakenText`). Making room (`RunAt`), the numeric tail (`Tails`) and growth (`Growth`) are the scans
of `findFreeSpaceForLFN` and `checkNumericTail` as what they find; `createLFNs` and `deleteLFNs` are the slots they
leave. A long name is a text with a number of pieces and a stem, an 8.3 name a stem and a tail, its checksum is any
function (`Checksum`), so that two of them may collide. Of what a name leads to only the first cluster is kept,
and for a directory whether it is empty. A call is one action under `fatMutex`; `fileDelete` and `dirDelete` of
`pdos.c` look first and delete under a second lock, and are two (`looked`).

`Directory` is what is promised: a set of entries, none of slots. `KeepsDirectory` says `FatDir` implements it: a
call changes the entry it names and no other, a refused call none, and its answer is true.

Six things go wrong in this code (`Patterns`) and are taken only if they are in `Slips`, as in `FatFiles`:

| slip | where | what happens |
|---|---|---|
| `collision` | 2163, 2183 | only the search for a long name forgets a long name at the next entry; when an 8.3 entry has the checksum of a long name read before, it is taken to have that name, and a delete or rename marks as deleted the slots from there on, perhaps not the entry's own, and frees its clusters |
| `restore` | 2780, 2801 | a rename deletes the old entry first; if the new long name finds no room, the old one is put back from one character too early on (`corrected_path` has no second terminator where 2781 counts one), and perhaps with another 8.3 name |
| `full disk` | 2795 | the directory must grow for the new name and the disk is full: `fatChain` stops in the monitor, with the old entry deleted on the disk |
| `orphan` | 513, 529 | the pieces of a long name that fill sectors are on the disk before it is known that there is no cluster for the new directory |
| `between` | `pdos.c:5869`, 5958 | what the name finds has changed between the look and the delete: a directory goes by `fileDelete`, or one that is not empty |
| `attributes` | 2876 | a program's attributes are stored as given, the directory bit included |

A name that is not found in a full root of fixed size goes on at the entry looked at last (`Astray`, see Findings);
nothing is followed after that, nor after `PosMonitor`. Left out: paths (one whose middle component is missing
leaves `ONEMPTY` in the wrong directory, where a create puts the entry), the dot entries, labels, FSInfo, times, FAT
sectors, and a power loss between two writes.

### Vmm and AddressSpaces

`Vmm` is `vmm.c` with the page frames of `physmem.c` under it and the places where `pdos.c` loads another
page directory. `nodes` are the lists of free ranges, `directory` and `tables` the page directories and page
tables, `free` the bitmap. The code changes only the directory that is loaded, also for pages of the kernel;
`Switch` is the change of directory in `schedule`, which copies the kernel's entries (`vmmCopyCurrentMapping`).
So a directory that is not loaded has stale entries most of the time, and what the kernel's pages lead to is
read off the loaded one (`Entry`). A process goes through `InitSpace`, `SupplySpace`, `FreeSpace`, `LeaveSpace`
and `TermSpace`, which are the steps of `loadExe32`, `startExe32` and `terminateExe32`; anything may happen
between them.

`vmmUnmapPages` is followed table by table (`UnmapTable`), with its arithmetic for tables that are absent.
A process calls it with interrupts on; it can be switched away there, but its directory is loaded again before
it goes on, and all it shares is the bitmap, which is taken from and given to with interrupts off. A call is
therefore one action. The order of a list of ranges decides only which of two equal ranges is taken, so the
list is a set.

`AddressSpaces` is what virtual memory promises, with nothing of tables or directories: an allocated page
keeps its frame until it is freed, no frame is behind two pages, and a call changes one space. `KeepsPages`
says that `Vmm` implements it.

Left out: the table of the low 4 MB, the slots for changing another directory, memory that runs out (frame 0
would be entered like any other, see below), and `physmemmgrSupply`.

### KernelHeap

`KernelHeap` is `kmalloc` and `kfree` of `liballoc.c` and the ranges of `kernel_vmm` that they take pages
from. The two call each other: pages come from `vmmAllocPages`, which gives the `VMM_NODE` of a range that is
used up to `kfree`; an empty major goes to `vmmFreePages`, which gets a node for it from `kmalloc` or gives
one back. One call from outside can so come back to the same function with its lists half changed. The
operators therefore follow the code call by call, each taking the heap as its callee left it; a call from
outside is an action, as interrupts are off. What one call reads before, and uses after, another is
what `MemoryShared` (with `MajorsListed` in it) and `OthersStay` are about.

The code's recursion is bounded, and the operators say how. `kfree` and `vmmFreePages` call each other as the last
thing they do: that is a loop whose turns, after the first, each drop a node (`FreeAll`). The node that may be needed
in the end comes from `kmalloc`, which may need a new major for it, which may use up a range, whose node goes to
`kfree` (`KmallocInner`, `KfreeInner`). There it ends: that piece does not empty its block. Were it to, `stop` would
be `deep`, and the property `MemoryShared` says that it never is. `kmalloc`'s own loop over the majors is `Search`.

`stop` says why a heap is not followed further: `halted` when the kernel has no memory for a node (it stops
the machine, `vmm.c:179`), `back` and `second` for a call for pages that changes the list of majors behind
`kmalloc`'s back (see By reading). `krealloc` and `kcalloc` are not
called by the kernel; the bytes of alignment, the magic numbers and the interrupt flag are left out.

### Nic and RxQueue

`Nic` is `nicReceive` and the PCnet-PCI II it shares the receive ring with. Each access of the driver to the
ring or the card is an action, and so is each step of the card: to fill a descriptor it owns (`Arrive`), then
to raise RINT (`Raise`). RINT is cleared after it is read, several frames raise it once, and the driver
searches the ring from its own position: the question is whether a frame can be passed over, handed on twice
or never. `RxQueue` is a bounded first-in first-out queue; `InOrder` says that driver and card together
implement it. A frame that finds the ring full is missed by the card, which changes nothing.

### Stream and CFile

`Stream` is one stream of `stdio.c` as it is built for PDOS/386 (`__MSDOS__`), over a file of the system with a
position of its own. Each field of `s` is one of the FILE: `buf`, `start` (`bufStartR`), `upto` and `endbuf` as
distances from `fbuf`, `mode`, `update`, `quickBin`, `quickText`, `justseeked`, `eofInd`, `ungetCh`; `bytes` and
`pos` are the file's. A call is one action. Its operators, named for the functions, take the record from before
to after. The loops of the code are functions on their turns: of `freadSlowT` a turn is a look for the next line feed
(`Turned`), of `fgets` a filling of the buffer (`Continued`, and `EndLine` for what follows the last), of
`fwriteSlowT` a character (`PutNext`), and of `fseek` to the end a read (`ReadNext`). A turn that has nothing left to do
changes nothing, and there are as many as the file or the data have bytes, of which each turn uses up one at least.
`turn` is C's rule for streams that are read and written (an `fseek` or, after writing, an `fflush` in between; not
after `fflush` here, as `fread` looks at `justseeked` alone), and when a read came short.

`CFile` is what C promises, a row of bytes and a place in it; in a text file a line feed is two bytes on the
disk and one to the program. `KeepsFile` says that `Stream` implements it, with what waits in the buffer counted
as written (`Content`), so that every read, line, answer and place is right and `fclose` leaves all of it on disk.

Six kinds of calls go wrong and are taken only if they are in `Slips`; each violates a property of the run:

| slip | where | what happens |
|---|---|---|
| `past end` | 3100, 5439 | each read that ends short adds the length of the buffer to `bufStartR`, which then is not "the position in the file that the first character in the buffer is at" (`stdio.c:31`): `ftell`, `fseek` from where it is and to the end are wrong until an `fseek` to a given place. A write, which C allows there, goes into the buffer as if that were being read; and a read after an `fgets` that met the end gives line feeds that are not there |
| `end of w` | 5532 | to find the end of a file open only for writing, `fseek` reads; the next write writes a buffer of whatever was in it |
| `pushed back` | 5517, 5759 | a character pushed back is not counted in the place |
| `one char` | 5446 | `fgets` takes a last line of one character, without a line feed, for the end of the file |
| `line back` | 5266 | `fgets` does not stop at a line feed that was pushed back |
| `tight` | 5389, 5407 | `fgets` with room for all of a line but its CR, at the end of the buffer, cuts the line before its end or keeps the CR |

Left out: the standard streams and devices, streams without a buffer or with one line, errors of the system (by
reading: `fwriteSlowB` returns without an answer, 4244), `fgets` on a stream that is also written (it does not
look at `justseeked`), formatting and scanning.

## The runs

| run | instance | what it shows |
|---|---|---|
| `heap` | two touching, misaligned buffers for five and one and a half minimal blocks, requests of one and two blocks, of nearly all of `size_t` and of a size that wraps; two ids, one owner | all invariants of the heap, the cursor of `memmgrFreeId`, honest refusals, callers' blocks left alone, owners and statistics |
| `threads` | boot thread, cleaner, two program threads | list integrity, mutual exclusion, no halt, parents woken, address space, the round-robin refinement; every ready thread runs; a woken cleaner frees all dead threads |
| `programs86` | four control blocks, four levels | chain, parents, statuses, memory accounted for |
| `double_free` | two control blocks | violated, see Findings |
| `programs386` | four control blocks, four levels | chain and statuses, with programs that fail to start; memory accounted for until one does |
| `fat_files` | two files (symmetric), one handle, sectors of two bytes, clusters of one and of two sectors | chains, entries, the cache, and every byte read or written, until the disk is full |
| `fat_dir` | two long names of one stem, of one and two pieces, an 8.3 name, its mixed case, and a name equal to a generated one; sectors of two slots, a root of four slots or a directory that grows, four clusters (symmetric) | slots and long names stay sound, a name finds its entry and no other, clusters have one owner, and the refinement to `Directory` |
| `fat_not_found` | the same | violated, see Findings |
| `vmm` | the kernel and two processes, two page tables of two entries each, twelve frames, one to three pages | every frame has one use, ranges and mappings agree, no empty page table is kept, and the refinement to `AddressSpaces` |
| `kernel_heap` | eight pages, three sizes of pieces, stacks of a page | majors, pieces, ranges and nodes fit together after every call; refusals are honest; one call moves one piece |
| `nic` | a ring of four descriptors, frames that differ, damaged ones | RINT is never believed in vain, first in first out, and every frame gets out unless a damaged one is in its way |
| `stream` | a buffer of three bytes, a binary file of five bytes and two text files with lines that end at, over and behind the end of the buffer; reads of one, two and five characters, lines with much room and little | the buffer is in step with the file, and the refinement to `CFile` |

Each module's type invariant is checked as a part of a property: the first
conjunct of `HeapInv`, `ThreadLists`, `MemoryAccounted`, `ChainsSound` and `FramesOnce` for the others; `Nic`'s is proved,
as are those of `KernelHeap` (in `Sound`) and `Stream` (`IsStream`).

Bounds. The heap's proportions are those of the 32-bit build scaled down (control block three alignment
units, minimal block two control blocks); five blocks are the least in which a block is freed between two
free ones that have further neighbours on the free list, and the second buffer gives a fixed boundary and a
size that is no multiple of the minimal block. With two program threads, one can wait for the other, both
can contend for the mutex, both can be dead at once and a control block can be used again; what more threads
can do is left to the proofs, which cover every safety property of the run and the refinement. Nothing else
bounds that model.

Four control blocks let a resident program stay between two others on the chain while its parent ends and a
new program takes the parent's address; programs run strictly inside one another, so deeper stacks add
nothing, and the proofs are for any number and any depth. `LeastId` ends a run of failed starts, each of which
lowers `memId`.

`fat_files` lets a file grow to nine bytes: five sectors, more than the four clusters of one disk, so that it
fills up, and three clusters of the other, so that the first, an inner and the last cluster differ. Calls of
zero to five bytes cover a part of a sector, a whole one, and a whole one in the middle. Two sectors a cluster
tell a sector boundary from a cluster boundary. One handle is enough for what a call does with its own
position: handles share the table and the directory, and `fat->currcluster` and the static buffers are
assigned by each call before it uses them. What is not covered by it is the table of handles itself. These
two runs do not check for deadlock, because `PosMonitor` stops the system.

In `fat_dir` the longer name takes three slots of a sector of two, so that names lie across sectors and clusters; a
root of four slots is full with one long name and one more, with and without an end; four clusters let the
directory grow to three while a file or a directory in it has one, or run out at every place. Two names of one
stem, and a caller that asks for the generated name itself, make tails collide; `MaxTail` is never reached, as
fewer entries fit (`DirAssumption` says so: it is larger than the number of slots of any directory). `VIEW` hides `call`, the record of the last call, which no guard reads; the refinement is
checked on every step all the same. It does not check for deadlock, because `PosMonitor` and `Astray` stop it.

In `vmm`, two tables for each space are the least with which a range can lie in one table, reach from one into
the next, or fill both; frames are enough for all of it (`Enough` never refuses for a single call of a kernel
alone). States that differ only in which frame or process has which part are taken for one (`FrameView`), but
never one that breaks `FramesOnce` for one that does not. It does not check for deadlock: a system whose
spaces are full and whose processes have none can wait for nothing in this model.

In `kernel_heap` a major has two pages and holds three of the smallest pieces, which have the size of a
`VMM_NODE`; so majors fill up, empty again, and a node can be the first, an inner or the last piece of one.
`MaxInUse` allows three pieces and stacks at a time, enough for three majors and, with stacks between them,
three separate free ranges. It stops where `stop` says so.

In `nic` four descriptors let the driver, the card and a damaged frame be at different places with a free
descriptor between any two; the proofs are for every size. It does not check for deadlock: a damaged frame
stops the driver for good (`pcnetii.c:448` neither takes it nor gives it back), and then the ring fills up.

In `stream` files are as long as two buffers, so that the buffer is refilled, ends on and off the end of the
file, and what is written reaches back, over and beyond it; five characters are more than a buffer, which
sends reads and writes past it. `MaxSize` bounds how long a file is written, and how far behind its end places
are told. `fseek` looks for the end with `Chunk` bytes at a time. `VIEW` hides `call`, which no guard reads.

Fairness (`threads`). The timer interrupt stays pending in the controller until interrupts are on, so
it is strongly fair. System calls end or wait in `waitForKeystroke`, which schedules; FAT calls end; the
cleaner's loop goes on; each of these steps may be interrupted by the timer at any time but a thread makes
progress in its turns, so they are strongly fair too. Nothing is assumed about programs: they may run for
ever, and the mutex may pass a waiter by for ever (it polls; no claim is made).

Fairness (`nic`). A program that receives calls `nicReceive` again whenever it returns (`nettest.c` does so),
the card finishes what it has begun, and frames go on arriving; each is weakly fair. The last is needed: a
frame whose RINT was cleared together with its predecessor's waits for the next frame to raise it again.

## Findings

- PDOS/86: the environment a program replaced is freed twice when it ends (`double_free`).
- `fatPosition` is to "set not found flag if not found" (`fat.c:1635`), but says nothing when a root of fixed size
  has no end marker left: every name is then found, at the entry an earlier call looked at (`fat_not_found`).
  The slips of `FatFiles` and `FatDir` lose or misplace data as well, but contradict no comment, or, like
  `past end`, are told with the slip.

Not claimed as a finding, as no comment promises it: a thread that dies while the cleaner is between emptying
its list and pausing wakes nobody, and stays allocated until another thread dies.

### By reading

Found while the code was read for the models, and in no run:

- `memmgrMaxSize` (`memmgr.c:495`) reports the largest free block less a control block; a request of that size
  is rounded up (line 126) and can be refused. `memmgrTotSize` (line 518) starts on the free list but follows
  `next`, the list of all blocks.
- A PDOS/86 program that reserves `n` paragraphs keeps `n` less its control block (`pdos.c:5181`; the comment
  at 5166 promises the reserved portion). Memory is freed by id (5151) before it is known whether the
  program stays resident. A load that fails for memory (4996) loses its file handle.
- PDOS/386: a program that fails to start lowers `memId` (5310, then 5406) without having raised it. After
  that two programs share an id, and the next to end frees the other's memory (`StartFails`; `MemoryAccounted32`
  is about the time before it).
- A parent's status is CHILDWAIT for asynchronous children too (5265), and the first child to end makes it
  ACTIVE. Owner and id of a block are computed from different pointers (3418).
- `kmalloc` "Creates a new major block next to this one" (`liballoc.c:381`), holding the address of the last
  major across the call for its pages. That call can use up a range, whose node goes to `kfree`, and if the
  node was the last piece of that major, its pages go back: line 382 stores into unmapped memory. Or the call
  has already put another major behind it, which the store then drops. `KernelHeap` reaches both (`stop`).
- `findFreeSpaceForLFN` adds a cluster to a directory that has no end marker even if it has found enough deleted
  slots (3748-3857).
- `liballocSavedEFLAGS` is one global (878) although locks nest through the page hooks (`liballoc.h:42-45`):
  the outer unlock leaves interrupts off.
- `physmemmgrSupply` sets bits only for whole and for trailing parts of a byte as if a supply were longer than
  one byte's worth of frames (`physmem.c:56-76`). When frames run out, `vmmMapPages` enters frame 0
  (`vmm.c:408`); `vmmUnmapPages` over an absent table counts a whole table even if it starts inside one
  (`vmm.c:463`), and the kernel halts for want of a node (179) where `kmalloc` could return NULL.
- `nicSend` begins with the receive position as an offset into the transmit ring (`pcnetii.c:483`), and
  `nicInit` resets neither position (414).
- `num_clusters` (`fat.c:228`) does not subtract the root directory. On FAT-12 `fatEndCluster` takes 0xff0 for
  the end of a chain (284), and `fatFindFreeCluster` gives it out on a disk that large. `dirDelete` reads through a
  handle without asking whether `fileOpen` has set one (`pdos.c:5935`).

## What is proved

`MemMgr_proofs` proves, for every geometry, every set of buffers and every set of requests that satisfy the
named assumptions, that the memory manager keeps

    Inv == HeapInv /\ NeverCrashes /\ RoomEnough,   HeapInv == TypeOK /\ Lists /\ Geometry

`Lists` says that the list of all blocks and the free list agree in both directions and that every free
block can be reached from `startf`; `Geometry` that the blocks are in address order, disjoint, inside their
buffers, at least a control block large, and adjacent to the next one unless that starts a buffer.
None of these alone is inductive. Splitting and joining are safe for addresses only because neighbours on
the list touch (`Adjacent`) and because only the first block of a buffer is `fixed` (`Heads`); list surgery
is right only because both directions agree, and unreachable crashes need in addition that the free list has
no loop of its own, which `FreeReachable` provides.

The argument has three layers: lemmas about a doubly linked list as a pair of functions
(`UnlinkedRing` ... `UnlinkedReach`), lemmas about addresses when a block is cut, joined or its end is moved
(`CutGeometry`, `JoinGeometry`, `MoveGeometry`, and the wrap of `size_t` in `RoundedHasRoom`), and one lemma
per operation that puts them together. Theorems: `HeapSound` for the whole of `HeapInv`, `HeapTyped`, `HeapNeverCrashes`, `HeapLists`,
`HeapGeometry`, `HeapRoomEnough`, `RoundedHasRoom`.

Its second half goes on from `Inv` to what callers see of a call, so that every property its run checks is proved:

- `HeapRefusesHonestly`: a walk along the free list that stops nowhere has met every free block (`NoFitNoRoom`, by
  `FreeReachable`), and a refusal that is remembered is forgotten before the heap changes (`Remembered`);
- `HeapCursorValid`: `Cursor` says more than `CursorValid`, namely that `p` is always the block behind `l`, with the
  head of the list for the block behind none; freeing `p` leaves `l` on the list, or `p` when there is no `l`
  (`FreeLeaves`);
- `HeapHoldersUndisturbed` and `HeapTiling`: one lemma per shape of change (`CutPacked`, `JoinPacked`,
  `JoinOfTwoPacked`, `MovePacked`) and one per operation. The invariant `Packed` adds `WholeUnits`: a block that has
  another behind it in its buffer is a whole number of units. Without it `HeadersApart` is not inductive: when
  memmgrRealloc moves the boundary to a free block up, only the units keep the new control block clear of the old one,
  which the code goes on reading after it has written the new one;
- `HeapStatsAgree`: a walk that starts at the head of a list meets all of it, by `BlockRing` and `FreeReachable`
  (`WalkMeetsAll`, `FreeWalkMeetsFree`); the blocks of a buffer fill it, so that their sizes add up to what is usable
  of it (`BlocksFillBuffers`, by counting addresses); and each block that is allocated has one owner
  (`OwnersShare`). An owner is an unsigned long, so there are finitely many: `OwnersAssumption`.

`Vmm_proofs` proves all of the run `vmm` for every number of processes, frames, tables and pages: `VmmFramesOnce`,
`VmmNodesExact`, `VmmTablesNeeded`, and `VmmKeepsPages`, the refinement to `AddressSpaces`; `VmmFreeRanges` is the
part about ranges alone. The inductive invariant is

    IInv == Inv /\ Typed /\ Once(free, Now) /\ NeededNow /\ Exact

`Now` gives each use a frame can have (a space's directory, one of its tables, one of its pages: `Keys`) the frame
it has; for kernel space it looks only into the directory that is loaded. So stale kernel entries in the other
directories are in no value of `Now`, and copying them at a change of directory changes nothing (`Leading`,
`CopyKeepsNow`). `Once` says that no two uses have the same frame and that the free frames are those without a use;
`OnceCounts` gets from it to the count that `FramesOnce` compares. `vmmMapPages` is followed page by page
(`MapPageDoes`, `MapPagesDoes`), with frames enough for the rest at each step (`LastsOn`). `vmmUnmapPages` is followed
table by table (`UnmapTableDoes`, `TableStep`, `UnderwayOn`, `UnmapPagesDoes`); its arithmetic for absent tables is right
only under `Reached`: the range starts at a table or all its pages are mapped, which holds for the callers. `Exact`
and `NeededNow` are `NodesExact` and `TablesNeeded` in terms of `Now`. They support each other: a range that
`vmmFreePages` gets is mapped because it is in no free range, so unmapping removes what `Exact` says it does, and a
table of which nothing is left mapped goes.

`Kernel_proofs` proves two parts of the kernel. The first is all of the run `kernel_heap`, for every size of a page, of
the heap, of the headers, and of what is asked for: `HeapShared`, `OneCallOnePiece`, `HonestRefusals`, and the
invariant they rest on, `HeapInvariant`:

    HeapIInv == HeapRec(heap) /\ (stop = "no" /\ Sound(heap, stacks)  \/  stop \in {"halted", "back", "second"})
    Sound(h, held) == Searchable(h) /\ AllFilled(h.major) /\ NodesOk(h.node) /\ Celled(h) /\ Tiled(h, held)

`Searchable` is the list of majors, linked both ways, with the pieces of each apart; `AllFilled` that none is empty;
`Celled` that each range's node is a piece of its own; `Tiled` that majors, free ranges and the ranges `held` by others cover
the heap and do not meet, and that free ranges do not touch. `held` is what lets `Sound` describe the heap in the
middle of a call too: between two of the calls that functions make of each other a range may be neither free nor a
major, as one that waits for its node or has just been taken, and is then held. So each operator
is shown to lead from a sound heap to a sound heap with a little more or less held (`Moment` for the turns of `FreeAll`,
and likewise for pages taken and joined), and an action puts these together. That `deep` does not happen is a matter
of room: `kmalloc` asks for pages for a node only when no block has room for one, and a block with a single node in it
has a gap for another wherever the one lies, as a block has room for three (`HeapAssumption`, 4096 bytes a page
against 16 for a node); so the node freed then was not the last piece of its block. The sums of sizes that `kmalloc`
compares are sums over finite sets (`Counting`: `SumJoins`, `SumParts`, `SumCounts`), and a search that turns back to
the root ends because it meets every major (the lemmas on the loop).

The second, for every size of the ring and every set of frames, is `NicTyped`, `NicFrameAtHand` and `NicInOrder`, the
refinement to `RxQueue`. The inductive invariant is

    IInv == TypeOK /\ Arc /\ Announced /\ CopyTrue

`Arc` says that the filled descriptors are those from the driver's position up to the card's; `Announced` that
there are at least as many frames waiting as RINT, the card and the driver together have announced and not
yet used up, which is why the search never takes a step; `CopyTrue` that the copy is the frame at hand.
Without `Announced`, `FrameAtHand` is not inductive: clearing RINT looks harmless and searching unfounded.

`Threads_proofs` proves every safety property of `Threads` for any number of threads: `ListsAreSound`,
`MutexIsExclusive`, `SchedulerNeverHalts`, `ParentsAreWoken`, `SpaceIsRight`, and `ImplementsRoundRobin`, the
refinement to `RoundRobin`. The inductive invariant is

    Inv == Types /\ Placed /\ Family /\ Buried /\ Cleaning /\ Guarded /\ Linked /\ OneRuns /\ RightSpace

The lists are stated by witnesses: `Path(l, h, next)` says that the blocks of the sequence `l` are linked
from `h` to a NULL, each once. `Linked` says there is such an `l` of the READY threads, with `last` at its end;
`Buried` that the dead are on one such list that starts at `terminatedTCB` and another at `toRemove`, with no
block in common. The lemmas `PathTail`, `PathCons`, `QueuePop` and `QueueAppend` say what the code's list surgery
does to `l`, and `PathFrame` that it is harmless to a list none of whose blocks it touches: this is where sharing
one `next` field between the lists could go wrong. `Family` is what makes waking sound: a waiting thread has one
living child, and no set of waiting threads waits only on itself. The latter is stronger than `ParentsWait` and
is what `NeverHalts` rests on: when the cleaner goes to sleep, some chain of waiting parents ends in a READY
thread. `Placed` ties states to places in the code; in it are why the thread that holds the mutex can run and why
the cleaner is never a waiting parent. Most actions end in schedule(), so `ScheduleKeeps` says once that it
turns what a caller hands to it (`Handed`) into the invariant again, and `OverKept` that it is a turn of
`RoundRobin`. `ListedIs` connects `Listed`, the walk that the properties and the refinement use, with `l`. It needs
induction, which `Counting` derives in a first-order form (`SetInduction`) from the library's theorem that strict
inclusion of finite sets is well-founded.

`Programs_proofs` proves for PDOS/86, for any number of control blocks and any depth, that the chain, the parents
and the statuses describe one tree (`Family86`) and that memory is accounted for (`Memory86`), and the same of
PDOS/386, which is there as an instance over the same variables (`Family386`, `Memory386`). What they have in
common is

    TreeInv == ChainTypes /\ Stacked /\ (Alive => \E l : Tree(l)),  Tree(l) == Linked(...) /\ Fits(l) /\ Nested

`Linked` says the sequence `l` is linked from `initProc` on by `next` and back by `prev`; `Fits` that its members
are the programs that run or stay resident, with parents among them and the status that belongs to them; `Nested`
that `frames`, the calls of the loader on the stack, agrees with `curPCB` and the parents. The lemmas `LinkedAppend`
and `LinkedOut` say what process.c's surgery does to `l`; that a program which ends hands its children to its
parent keeps `Fits`, because its parent is the program below it on the stack and so is on the chain. `ChainIs`
connects `Chain`, the walk the properties use, with `l`, by induction (`Walk`, `Counting`). For memory `Inv86` adds
whose a block is (`OwnerKnown`, `HeaderKnown`), at which level its id was given (`IdTells`), and that nobody on the
chain has lost a block it needs (`BlockKept`): freeing everything of the level's id then hits the blocks of the
program that ends and no others. `Inv386` says the same with the two levels `loadExe32` allocates under (`Levels`,
`Whole`), as long as no program has failed to start. `LeastId` is a bound for TLC only, and any integer up to 0 will
do for the theorems (`Programs386Assumption`).

It also holds two proofs about streams. The first is `BufferStays`: for a buffer, files, requests and lines of any size,
`BufferInStep` holds as long as no call is made that falls under `past end`, `end of w` or `pushed back` (with any of
these in `Slips`, TLC finds it violated or the stream lost; the other three slips may happen). The invariant is

    StreamIInv == Standing(s, turn) \/ Resting(s, turn)
    Standing(x, t) == IsStream(x) /\ x.may # {} /\ Modes(x) /\ Turns(x, t)

`Turns` says what each value of `turn` stands for: a stream that reads (`InRead`), one that writes (`InWrite`), one
whose last read or line came short (`PastRead`, `PastLine`), or one where C lets any call follow. In `InRead` is why
`fseek` may trust the buffer: it moves in it only when something is held, or to where it is, and when something is
held all of the buffer is the file's, also behind the place, though a read around the buffer has left junk there that nobody will
see (`quickBin`). In `InWrite` is why `fputc` need not ask what the buffer is for. A character pushed back is
the one at the place before, so that putting it into the buffer again (`TakeBack`) changes nothing; in front of the
buffer's first byte there is one more for it. One lemma for each function says what it makes of the
record, and the loops are shown to end by a measure: a turn of `freadSlowT` goes on in the file or in the answer, a
filling in `fgets` and a read in `fseek` use up a byte of the file, so that as many turns as it has bytes are enough
(`TurnRun`, `LineRun`, `ReadRun`).

The second is `BinaryKept`, `KeepsFile` for a binary file: under the same exceptions, a stream that starts with one
implements `CFile`. What the program sees is `WholeFile`, the file with what waits in the buffer written over it, and
the place that `ftell` tells, less a character pushed back (`PlaceOf`). A read gives what the file has there and goes
over it, whether it is answered from the buffer, around it or both (`Gives`, by `PartRight`: what is held is a part of
the file). A write is one to `WholeFile` (`Puts`), though it may go to the file in up to three parts; that these are one write
is algebra on rows of bytes (`OverOver`, `SlicesJoin`). Putting out what waits, changing over to writing and seeking
change nothing of it (`SameContent`). The inductive invariant adds one thing to `StreamIInv`, `Settled`: where C lets
any call follow and the stream writes, nothing waits; `ToRead` forgets what is in the buffer and relies on that.

`FatDir_proofs` proves all of the run `fat_dir` for every set of names, every length of long names, every function
as checksum, and every size of sectors, roots and disks that `DirAssumption` allows: `SlotsStaySound`,
`NamesFindTheirs`, `ClustersHaveOwners`, and `DirectoryKept`, the refinement to `Directory`. Each says which
slips it allows: slots stay sound and names find theirs also through a full disk, an exchange between look and
delete, and any attributes; clusters keep their owners through the exchange; what is promised is kept when
nothing slips. The invariants are

    DirInv == ... /\ Sound(slots) /\ (Kept(slots, chain, used) \/ stopped by a full disk)
    OwnInv == InOrder /\ Fine(View(slots), full) /\ ...

`Sound` is `SlotsSound` in parts, with two that make it inductive: no orphan piece of a long name (`NoOrphan`), so
that deleted and new slots cannot complete one, and no text twice, so that a name has one entry. `Own` says the
clusters in use are those of the chain and one for each entry that has begun. The lemmas follow the code's steps on
a row of slots (making room, writing pieces, deleting them, growing by a cluster) and are put together per call;
`View` is the set of entries a row stands for, and `ViewAdds` and `ViewRemoves` are what the refinement rests on.

`FatFiles_proofs` proves all of the run `fat_files` for every number of files and handles, every size of sectors,
clusters, disks, files and requests: `CachesStayFresh`, `ChainsStaySound`, `CallsAreRight` and `OthersAreKept`. The
theorems have two hypotheses. `Slips = {}`: no call completes one of the five patterns that the code gets wrong; with
any of them in `Slips`, TLC finds `CallsRight` violated. `RootIsShort`: the root directory is no longer than two
clusters, as it is on FAT-32, where it has no sectors of its own, or with large clusters; without it `num_clusters`
counts clusters behind the end of the disk. The inductive invariant is

    IInv == disk \in Disks /\ Fine(next, cachedBuf, dir, handle, did, monitor)
    Fine == Good while fat.c runs, Long once the disk has run full

`Good` has three parts. `TablesFor` says that the table is `Tidy` for the entries: each starts a chain (`ChainOf`) of
as many clusters as its size calls for, no two meet, and whatever is not free is in one of them. The cache is empty
or the table. `HandlingFor` is what makes the rest inductive: an open handle agrees with its entry, no two handles have
the same file, and each is where its last call left it, which `Position` says for each value of `did`. On a boundary
the position has one of two sectors, at the end of the file perhaps neither, and which it is decides what the next
call does; the properties do not see it. `Long` drops the handles, and lets chains be longer than sizes.

A write is followed step by step: `Stands` says which sector the handle is in and that its chain is sound and meets
no other file's, `Holds` that the first bytes of the file are those of a given function, and `Going` has both, with as
many clusters as have been needed so far (`Reaching`). Each of the code's steps (`GoOn`, `FollowOn`, `FillGoes`,
`BlankGoes`, ...) keeps `Going` or ends `Stuck` on the full disk. The loops are functions on their turns and are done
by induction on these (`PutRunDoes`, `GrowRunDoes`). `WriteDoes` says what a write comes to, and is used for the
invariant (`WriteWell`), for the bytes of the file (`WrittenRight`) and for those of the others (`OthersStay`). A read is
`Looping`, in a sector of a cluster, having read so far, until it is `Stopped`; that its loops stop within `Turns` is
by a rank that every turn lowers (`StepDoes`, `LoopsEnd`). `SeeksWell` is by where a seek starts to count from, which is
where `Position` must be exact to the cluster. Deleting a file or creating it anew changes one chain and leaves the
others, and so the handles in them, alone (`NukedTidy`, `OneHandle`, `NoHandle`).

Only model-checked: the liveness of `threads` and `nic` (fairness and ENABLED are out of the prover's reach), and
`KeepsFile` for text files, that a stream implements the file C promises. `BufferStays` is what it rests on; what it
needs besides is what the loops of `freadSlowT` and `fgets` put together from one turn to the next, a translation of
the file's bytes to a program's characters that is defined by recursion over the file.

## Plan

1. Done: `MemMgr`, `MemMgrStats`, `MemMgr_proofs`, `RoundRobin`, `Threads`, `Processes`, `Programs86`,
   `Programs386`, `FatFiles`, `Vmm`, `AddressSpaces`, `Vmm_proofs`, `KernelHeap`, `Nic`, `RxQueue`, `Kernel_proofs`,
   `Counting`, `Threads_proofs`, `FatDir`, `Directory`, `Stream`, `CFile`, `FatDir_proofs`, `Programs_proofs`,
   `FatFiles_proofs`.
2. `Handles` composes `FatFiles` with `fatMutex` and the table of handles, with files deleted while they are open;
   then paths over `FatDir`, and a power loss between two of its writes.
3. Processes over `Threads`: two programs in the loader at once, `curPCB` across a switch.
4. `Heap`, an abstract allocator that `MemMgr` implements, in place of the blocks `Processes` assumes.
5. `Arp` and `Serial`.
6. Proofs: `KeepsFile` for text files.
