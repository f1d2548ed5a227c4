------------------------------ MODULE Processes ------------------------------
(***************************************************************************)
(* The process control blocks of PDOS (src/src/process.c): the chain from  *)
(* initProc, linked in both directions in the order the processes were     *)
(* started, with each one's parent and status, and the current process.    *)
(*                                                                         *)
(* The memory that is kept for processes is a set of blocks [kind, proc],  *)
(* each with the id it was allocated under: memmgrFreeId frees all blocks  *)
(* of an id, and what MemMgr says of memmgr.c is taken for granted here.   *)
(***************************************************************************)
EXTENDS Naturals, Sequences, FiniteSets

CONSTANTS
  Procs,    \* the addresses a process control block can have
  NULL,
  Kinds     \* what a process's memory is used for

ASSUME ProcsAssumption == NULL \notin Procs /\ IsFiniteSet(Procs)

VARIABLES
  initProc, curPCB,
  next, prev, parent, status,  \* the fields of a PDOS_PROCESS
  held,     \* the blocks that are allocated
  id,       \* the id each was allocated under
  memId,    \* memId, in steps of 256
  frames    \* the programs that run, each waiting for the one above it

chain == <<initProc, next, prev, parent>>

Ref    == Procs \cup {NULL}
Blocks == Kinds \X Procs
Status == {"ACTIVE", "CHILDWAIT", "TSR", "TERMINATED"}

InitProcesses ==
  /\ initProc = NULL /\ curPCB = NULL
  /\ next = [p \in Procs |-> NULL] /\ prev = [p \in Procs |-> NULL]
  /\ parent = [p \in Procs |-> NULL]
  /\ status = [p \in Procs |-> "TERMINATED"]
  /\ held = {} /\ id = [b \in Blocks |-> 0] /\ memId = 0 /\ frames = <<>>

(* The control blocks met on the way from initProc. *)
Chain ==
  LET at[k \in 0 .. Cardinality(Procs)] ==
        IF k = 0 THEN initProc ELSE IF at[k-1] = NULL THEN NULL ELSE next[at[k-1]]
      n == Cardinality({k \in DOMAIN at : at[k] # NULL})
  IN [k \in 1 .. n |-> at[k-1]]

Chained == {Chain[k] : k \in DOMAIN Chain}
Running == {frames[k].pcb : k \in DOMAIN frames}
Top     == frames[Len(frames)]

-----------------------------------------------------------------------------
(* initPCB, and addToProcessChain(p) *)
AddToProcessChain_NoBackLink(p) ==
  /\ parent' = [parent EXCEPT ![p] = curPCB]
  /\ IF initProc = NULL
     THEN initProc' = p /\ UNCHANGED <<next, prev>>
     ELSE LET last == Chain[Len(Chain)] IN
          /\ next' = [next EXCEPT ![last] = p, ![p] = NULL]
          /\ UNCHANGED <<initProc, prev>>
AddToProcessChain(p) ==
  /\ parent' = [parent EXCEPT ![p] = curPCB]
  /\ IF initProc = NULL
     THEN initProc' = p /\ UNCHANGED <<next, prev>>
     ELSE LET last == Chain[Len(Chain)] IN
          /\ next' = [next EXCEPT ![last] = p, ![p] = NULL]
          /\ prev' = [prev EXCEPT ![p] = last]
          /\ UNCHANGED initProc

(* removeFromProcessChain(p): "any of our surviving children are           *)
(* reparented to the init process".  The init process stays where it is.   *)
Reparented_Never(p) == parent
Reparented(p) ==
  [q \in Procs |-> IF q \in Chained \ {p} /\ parent[q] = p THEN initProc ELSE parent[q]]

RemoveFromProcessChain(p) ==
  /\ UNCHANGED initProc
  /\ IF prev[p] = NULL
     THEN UNCHANGED <<next, prev, parent>>
     ELSE /\ next' = [next EXCEPT ![prev[p]] = next[p], ![p] = NULL]
          /\ prev' = [q \in Procs |-> CASE q = p -> NULL
                                        [] q = next[p] -> prev[p]
                                        [] OTHER -> prev[q]]
          /\ parent' = Reparented(p)

(* The child p starts, and the parent is marked as waiting for it.         *)
StatusAtStart(p) ==
  [q \in Procs |-> CASE q = p -> "ACTIVE"
                     [] q = curPCB -> "CHILDWAIT"
                     [] OTHER -> status[q]]

(* The current process ends as s, and its parent goes on.                  *)
StatusAtEnd(s) ==
  [q \in Procs |-> CASE q = curPCB -> s
                     [] q = parent[curPCB] /\ status[q] = "CHILDWAIT" -> "ACTIVE"
                     [] OTHER -> status[q]]

(* memmgrFreeId(i) *)
OfId(i) == {b \in held : id[b] = i}

-----------------------------------------------------------------------------
TypeOKProcesses ==
  /\ {initProc, curPCB} \subseteq Ref
  /\ next \in [Procs -> Ref] /\ prev \in [Procs -> Ref] /\ parent \in [Procs -> Ref]
  /\ status \in [Procs -> Status]
  /\ held \subseteq Blocks /\ id \in [Blocks -> Nat] /\ memId \in Nat

(* The properties are about a system that is up: a program runs.           *)
Up == frames # <<>>

(* The chain is consistent in both directions, and has exactly the         *)
(* processes that run or stay resident, each once.                         *)
ChainSound ==
  /\ Chained = Running \cup {p \in Procs : status[p] = "TSR"}
  /\ Len(Chain) = Cardinality(Chained)
  /\ \A p \in Chained : IF p = initProc THEN prev[p] = NULL
                         ELSE prev[p] \in Chained /\ next[prev[p]] = p

(* A program's parent is the one below it, and that of a resident one is   *)
(* still there: no control block points at one that is gone.               *)
ParentsKnown ==
  /\ \A k \in DOMAIN frames :
       parent[frames[k].pcb] = IF k = 1 THEN NULL ELSE frames[k-1].pcb
  /\ \A p \in Chained \ {initProc} : parent[p] \in Chained

(* The statuses say what they are documented to (pos.h:111-126): ACTIVE is *)
(* the program that runs, the current process, and CHILDWAIT are those     *)
(* that wait for the one they started.                                     *)
StatusTells ==
  /\ curPCB = Top.pcb
  /\ \A p \in Chained :
       status[p] = IF p = curPCB THEN "ACTIVE"
                   ELSE IF p \in Running THEN "CHILDWAIT" ELSE "TSR"

(* Whatever programs start, end or stay resident, in whatever order: the   *)
(* chain, the parents and the statuses all describe the same tree.         *)
FamilyTree == Up => ChainSound /\ ParentsKnown /\ StatusTells
=============================================================================
