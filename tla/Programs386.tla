---------------------------- MODULE Programs386 ------------------------------
(***************************************************************************)
(* Programs in PDOS/386 as its makefiles build it, with NOVM (pdos.c):     *)
(* kmalloc and kfree are memmgrAllocate and memmgrFree of one memory, under *)
(* the id of the moment, and loadExe32 calls startExe32 itself, which runs *)
(* the program and calls terminateExe32.                                   *)
(*                                                                         *)
(* LoadExe32 is all that comes before the program, Exit32 all after it.    *)
(* StartFails is a program whose path cannot be stored; a file that        *)
(* exeloadDoload refuses is a program that ends at once.                   *)
(***************************************************************************)
EXTENDS Processes, Integers

CONSTANTS
  LeastId,  \* programs fail to start down to this memId: a bound for TLC
  MaxDepth32  \* how deep programs start one another

ASSUME Programs386Assumption ==
  /\ LeastId \in Int /\ LeastId <= 0 /\ MaxDepth32 \in Nat
  /\ {"cmdline", "env", "pcb", "vmm", "prog", "mem"} \subseteq Kinds

vars32 == <<chain, curPCB, status, held, id, memId, frames>>

Init32 == InitProcesses

(* The blocks that are made for a program before it runs.                  *)
Loaded(p) == {"cmdline", "env", "pcb", "vmm"} \X {p}
Path(p)   == <<"prog", p>>

(* All that run have them.  When one does not, its control block or        *)
(* another may be overwritten any time, and it is not followed further.    *)
Intact == \A p \in Running : Loaded(p) \cup {Path(p)} \subseteq held
Ready32  == Up /\ Intact

(* Only the blocks h are allocated now, or bs as well, under the id i.     *)
Holding32(h) ==
  /\ held' = h
  /\ id' = [b \in Blocks |-> IF b \in h THEN id[b] ELSE 0]

Allocated(bs, i) ==
  /\ held' = held \cup bs
  /\ id' = [b \in Blocks |-> IF b \in bs THEN i ELSE id[b]]

CanStart(p) ==
  /\ (Ready32 \/ initProc = NULL) /\ Len(frames) < MaxDepth32
  /\ held \cap (Kinds \X {p}) = {}

(* loadExe32, and startExe32 to the call of the program.                   *)
Entered == memId + 1

LoadExe32(p) ==
  /\ CanStart(p)
  /\ Allocated(Loaded(p) \cup {Path(p)}, memId)
  /\ AddToProcessChain(p)
  /\ curPCB' = p
  /\ status' = StatusAtStart(p)
  /\ memId' = Entered
  /\ frames' = Append(frames, [pcb |-> p])

(* PosAllocMem and PosFreeMem, and PosSetEnv, which replaces the block.    *)
AllocMem32 ==
  /\ Ready32 /\ <<"mem", curPCB>> \notin held
  /\ Allocated({<<"mem", curPCB>>}, memId)
  /\ UNCHANGED <<chain, curPCB, status, memId, frames>>

FreeMem32 ==
  /\ Ready32 /\ <<"mem", curPCB>> \in held
  /\ Holding32(held \ {<<"mem", curPCB>>})
  /\ UNCHANGED <<chain, curPCB, status, memId, frames>>

SetEnv32 ==
  /\ Ready32
  /\ Allocated({<<"env", curPCB>>}, memId)
  /\ UNCHANGED <<chain, curPCB, status, memId, frames>>

(* terminateExe32: everything of the program is freed one by one, then     *)
(* what else has the id of the moment.                                     *)
OfTheId == OfId(memId)

Freed32_KeepsEnv(h, p) == h \ (Loaded(p) \ {<<"env", p>>})
Freed32(h, p) == h \ Loaded(p)

TerminateExe32 ==
  /\ curPCB' = parent[curPCB]
  /\ status' = StatusAtEnd("TERMINATED")
  /\ RemoveFromProcessChain(curPCB)
  /\ memId' = memId - 1
  /\ frames' = SubSeq(frames, 1, Len(frames) - 1)

Exit32 ==
  /\ Ready32
  /\ Holding32(Freed32(held \ {Path(curPCB)}, curPCB) \ OfTheId)
  /\ TerminateExe32

(* startExe32 when its own kmalloc is refused: terminateExe32 takes the    *)
(* program off the chain again and frees its blocks, and then frees by the *)
(* id of the moment, which is still that of the program that asked for it. *)
StartFails(p) ==
  /\ CanStart(p) /\ Up /\ memId > LeastId
  /\ Holding32(held \ OfTheId)
  /\ memId' = memId - 1
  /\ UNCHANGED <<chain, curPCB, status, frames>>

Next32 ==
  \/ \E p \in Procs : LoadExe32(p)
  \/ AllocMem32 \/ FreeMem32 \/ SetEnv32
  \/ Exit32
  \/ \E p \in Procs : StartFails(p)

Spec32 == Init32 /\ [][Next32]_vars32

-----------------------------------------------------------------------------
TypeOK32 ==
  /\ {initProc, curPCB} \subseteq Ref
  /\ next \in [Procs -> Ref] /\ prev \in [Procs -> Ref] /\ parent \in [Procs -> Ref]
  /\ status \in [Procs -> Status]
  /\ held \subseteq Blocks /\ id \in [Blocks -> Int] /\ memId \in LeastId - MaxDepth32 .. MaxDepth32
  /\ frames \in Seq([pcb : Procs])

(* As long as the memId is that of the top program's level, which it is    *)
(* until one fails to start, memory is accounted for: each block is one of *)
(* a program that runs, under the id of its level or, when the loader made *)
(* it, of the level below, and no program lacks what the loader made.      *)
MemoryAccounted32 ==
  /\ TypeOK32
  /\ Up /\ memId = Len(frames) =>
    /\ \A b \in held : \E k \in DOMAIN frames :
         /\ b[2] = frames[k].pcb
         /\ id[b] \in (CASE b[1] = "mem" -> {k} [] b[1] = "env" -> {k-1, k} [] OTHER -> {k-1})
    /\ Intact
=============================================================================
