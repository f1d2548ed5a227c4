----------------------------- MODULE Programs86 ------------------------------
(***************************************************************************)
(* Programs in PDOS/86 (src/src/pdos.c): loadExe loads a program, runs it  *)
(* and cleans up after it, while the program that asked for it waits.  A   *)
(* program allocates memory, replaces its environment, starts another, and *)
(* ends, perhaps staying resident.                                         *)
(*                                                                         *)
(* loadExe is two actions: Exec, up to callwithpsp, and Exit, all that is  *)
(* done when that returns.  Loads that fail give back what they allocated  *)
(* and are left out.  A block that a program sizes is counted in units.    *)
(***************************************************************************)
EXTENDS Processes

CONSTANTS
  PcbUnits,   \* the units that the process control block takes of its block
  ProgUnits,  \* and those of the program, counted from its PSP
  MaxDepth    \* how deep programs start one another

ASSUME Programs86Assumption ==
  PcbUnits \in Nat \ {0} /\ ProgUnits \in Nat \ {0}
  /\ {"pcb", "env", "header", "mem"} \subseteq Kinds

VARIABLES
  room,     \* the units left of each process's own block
  crashed   \* memmgrFree was given a block that is not allocated

mem == <<held, id, room>>
vars == <<chain, curPCB, status, mem, memId, frames, crashed>>

Init ==
  /\ InitProcesses
  /\ room = [p \in Procs |-> 0] /\ crashed = FALSE

Ready == Up /\ ~crashed

(* Only the blocks h are allocated now; what was known of others is gone.  *)
Holding(h) ==
  /\ held' = h
  /\ id' = [b \in Blocks |-> IF b \in h THEN id[b] ELSE 0]

(* loadExe to callwithpsp.  A program of type COM has no header.           *)
Exec(p, hasHeader) ==
  LET own == ({"pcb", "env"} \cup (IF hasHeader THEN {"header"} ELSE {})) \X {p} IN
  /\ ~crashed /\ (Up \/ initProc = NULL) /\ Len(frames) < MaxDepth
  /\ p \notin Chained /\ held \cap (Kinds \X {p}) = {}
  /\ held' = held \cup own
  /\ id' = [b \in Blocks |-> IF b \in own THEN 0 ELSE id[b]]
  /\ room' = [room EXCEPT ![p] = PcbUnits + ProgUnits]
  /\ AddToProcessChain(p)
  /\ curPCB' = p
  /\ status' = StatusAtStart(p)
  /\ memId' = memId + 1
  /\ frames' = Append(frames, [pcb |-> p, header |-> hasHeader])
  /\ UNCHANGED crashed

(* PosAllocMemPages and PosFreeMem of the program's memory.                *)
AllocMem ==
  LET b == <<"mem", curPCB>> IN
  /\ Ready /\ b \notin held
  /\ held' = held \cup {b}
  /\ id' = [id EXCEPT ![b] = memId]
  /\ UNCHANGED <<chain, curPCB, status, room, memId, frames, crashed>>

FreeMem ==
  LET b == <<"mem", curPCB>> IN
  /\ Ready /\ b \in held
  /\ Holding(held \ {b})
  /\ UNCHANGED <<chain, curPCB, status, room, memId, frames, crashed>>

(* PosSetEnv: envModify allocates the new environment as the program's     *)
(* memory, and frees the old one.                                          *)
SetEnv ==
  LET b == <<"env", curPCB>> IN
  /\ Ready
  /\ crashed' = (b \notin held)
  /\ id' = [id EXCEPT ![b] = memId]
  /\ UNCHANGED <<chain, curPCB, status, held, room, memId, frames>>

(* What is left when the program has ended, and its memory is freed by id. *)
AfterFreeId == held \ OfId(memId)

(* PosTerminate: tsrFlag is 0.                                             *)
Header  == {<<"header", curPCB>>} \cap (IF Top.header THEN held ELSE {})
Own     == {<<"env", curPCB>>, <<"pcb", curPCB>>}

Return ==
  /\ frames' = SubSeq(frames, 1, Len(frames) - 1)
  /\ memId' = memId - 1
  /\ curPCB' = parent[curPCB]

Freed_KeepsEnv == AfterFreeId \ (Header \cup {<<"pcb", curPCB>>})
Freed == AfterFreeId \ (Header \cup Own)

Exit ==
  /\ Ready /\ Return
  /\ crashed' = ~(Own \subseteq AfterFreeId)
  /\ Holding(Freed)
  /\ room' = [room EXCEPT ![curPCB] = 0]
  /\ status' = StatusAtEnd("TERMINATED")
  /\ RemoveFromProcessChain(curPCB)

(* PosTerminateAndStayResident(n): PosReallocPages leaves n units of the   *)
(* block that it is given, which here is the control block; or (tsrFlag =  *)
(* -1) all of it stays; but memmgrFreeId has freed what it allocated.      *)
Kept(n) == n

Resident(left) ==
  /\ Ready /\ Return
  /\ Holding(AfterFreeId \ Header)
  /\ room' = [room EXCEPT ![curPCB] = left]
  /\ status' = StatusAtEnd("TSR")
  /\ UNCHANGED <<chain, crashed>>

StayResident(n) == Resident(Kept(n))
StayWhole == Resident(room[curPCB])

Next ==
  \/ \E p \in Procs, h \in BOOLEAN : Exec(p, h)
  \/ AllocMem \/ FreeMem \/ SetEnv
  \/ Exit
  \/ \E n \in 1 .. ProgUnits : StayResident(n)
  \/ StayWhole

Spec == Init /\ [][Next]_vars

-----------------------------------------------------------------------------
TypeOK ==
  /\ TypeOKProcesses
  /\ room \in [Procs -> 0 .. PcbUnits + ProgUnits]
  /\ frames \in Seq([pcb : Procs, header : BOOLEAN]) /\ crashed \in BOOLEAN

(* All memory is accounted for: what is allocated belongs to a program     *)
(* that runs, by name or by the id of its level, or to a resident one, and *)
(* each of these has its control block and, while it runs, its environment.*)
MemoryAccounted ==
  /\ TypeOK
  /\ Ready =>
    /\ memId = Len(frames)
    /\ \A b \in held :
         IF id[b] = 0 THEN b[2] \in Chained
         ELSE id[b] <= memId /\ b[2] = frames[id[b]].pcb
    /\ Chained = {p \in Procs : <<"pcb", p>> \in held}
    /\ \A p \in Running : <<"env", p>> \in held

(* memmgrFree stops the system when it is given memory that is not         *)
(* allocated ("isn't remotely what it's meant to be", memmgr.c:294).       *)
FreesAreValid == ~crashed
=============================================================================
