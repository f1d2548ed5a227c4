------------------------------ MODULE Threads -------------------------------
(***************************************************************************)
(* The threads of PDOS/386 (src/src/pdos.c, "static void schedule" and the *)
(* functions around it): thread control blocks, the list of ready threads, *)
(* the timer interrupt that preempts, the blocking of a parent on its      *)
(* child, the mutex around the FAT code and the thread that frees the      *)
(* control blocks of dead threads.                                         *)
(*                                                                         *)
(* There is one processor.  The thread curTCB runs and its next step is    *)
(* given by pc; when interrupts are on, the timer can come before it.      *)
(* Code that runs with interrupts off from beginning to end is one action. *)
(*                                                                         *)
(* The ready threads and the dead ones are on two lists that are linked    *)
(* through the same field, next, of the control block.                     *)
(***************************************************************************)
EXTENDS Naturals, FiniteSets, Sequences

CONSTANTS
  Tcbs,      \* the addresses a control block can have
  Main,      \* the thread that boots the kernel
  Cleaner,   \* the thread of cleanTerminatedThreads
  None       \* NULL

ASSUME TcbAssumption ==
  /\ Main \in Tcbs /\ Cleaner \in Tcbs /\ Main # Cleaner /\ None \notin Tcbs
  /\ IsFiniteSet(Tcbs)

VARIABLES
  live,      \* the control blocks that are allocated
  curTCB,
  ready,     \* firstReadyTCB and lastReadyTCB
  next,      \* tcb->next
  state,     \* tcb->state
  waiting,   \* tcb->waitingParentTCB
  pcb,       \* tcb->pcb, a process having the name of its thread
  terminatedTCB,
  toRemove,  \* toRemoveTCB of cleanTerminatedThreads
  curPCB,
  space,     \* the process whose page directory is loaded
  fatMutex,
  irq,       \* whether interrupts are on
  eflags,    \* whether they will be when the thread gets the processor back
  saved,     \* savedEFLAGS of lockMutex
  pc,        \* where the thread is
  halted     \* "No active threads"

lists  == <<ready, next, terminatedTCB, toRemove>>
blocks == <<live, state, waiting, pcb>>
cpu    == <<curTCB, curPCB, space, irq, eflags, halted>>
vars == <<lists, blocks, cpu, fatMutex, saved, pc>>

States == {"READY", "RUNNING", "PAUSED", "TERMINATED", "CHILDWAIT"}
Places == {"start", "boot", "idle", "run", "lock", "crit", "exit", "take", "free", "pause", "sleep"}

(* After initThreading: the kernel's own thread runs and the cleaner has   *)
(* not had its first turn.                                                 *)
Init ==
  /\ live = {Main, Cleaner} /\ curTCB = Main
  /\ ready = [first |-> Cleaner, last |-> Cleaner]
  /\ next = [t \in Tcbs |-> None] /\ waiting = [t \in Tcbs |-> None]
  /\ state = [t \in Tcbs |-> IF t = Main THEN "RUNNING" ELSE "READY"]
  /\ pcb = [t \in Tcbs |-> None] /\ curPCB = None /\ space = None
  /\ terminatedTCB = None /\ toRemove = None
  /\ fatMutex = FALSE /\ irq = TRUE /\ halted = FALSE
  /\ eflags = [t \in Tcbs |-> FALSE] /\ saved = [t \in Tcbs |-> FALSE]
  /\ pc = [t \in Tcbs |-> IF t = Main THEN "boot" ELSE "start"]

At(p) == ~halted /\ pc[curTCB] = p
Goes(p) == pc' = [pc EXCEPT ![curTCB] = p]

-----------------------------------------------------------------------------
(* The ready list, as a value q = [first, last, next].                     *)
Queue == [first |-> ready.first, last |-> ready.last, next |-> next]

Appended_First(q, t) ==
  [first |-> t, last |-> IF q.first = None THEN t ELSE q.last,
   next |-> [q.next EXCEPT ![t] = q.first]]
Appended(q, t) ==
  [first |-> IF q.first = None THEN t ELSE q.first,
   last  |-> t,
   next  |-> [IF q.first = None THEN q.next ELSE [q.next EXCEPT ![q.last] = t]
                EXCEPT ![t] = None]]

Popped(q) ==
  [first |-> q.next[q.first],
   last  |-> IF q.next[q.first] = None THEN None ELSE q.last,
   next  |-> q.next]

Keep(q) == ready' = [first |-> q.first, last |-> q.last] /\ next' = q.next

(* schedule(), called with the ready list q and the states st, by a thread *)
(* that will have interrupts on, or not, when it comes back from it.       *)
Loads(old, new) ==
  IF pcb'[old] # pcb'[new]
  THEN curPCB' = pcb'[new] /\ space' = pcb'[new]
  ELSE UNCHANGED <<curPCB, space>>

Runs(st, new) == [st EXCEPT ![curTCB] = IF @ = "RUNNING" THEN "READY" ELSE @,
                            ![new] = "RUNNING"]

Schedule(q, st, on) ==
  IF q.first = None
  THEN /\ halted' = (st[curTCB] # "RUNNING")
       /\ Keep(q) /\ state' = st /\ irq' = on
       /\ UNCHANGED <<curTCB, curPCB, space, eflags>>
  ELSE /\ curTCB' = q.first
       /\ Keep(IF st[curTCB] = "RUNNING" THEN Appended(Popped(q), curTCB) ELSE Popped(q))
       /\ state' = Runs(st, q.first)
       /\ Loads(curTCB, q.first)
       /\ eflags' = [eflags EXCEPT ![curTCB] = on]
       /\ irq' = eflags[q.first]
       /\ UNCHANGED halted

(* unblockThread(t) *)
Woken_Never(q, st, t) == q
Woken(q, st, t) == IF st[t] = "READY" THEN q ELSE Appended(q, t)

-----------------------------------------------------------------------------
(* The timer interrupt: intB0.                                             *)
Timer ==
  /\ ~halted /\ irq
  /\ UNCHANGED <<terminatedTCB, toRemove, live, waiting, pcb, fatMutex, saved, pc>>
  /\ Schedule(Queue, state, TRUE)

(* startThread, at the bottom of every new thread's stack *)
Start ==
  /\ At("start")
  /\ irq' = TRUE
  /\ Goes(IF curTCB = Cleaner THEN "take" ELSE "run")
  /\ UNCHANGED <<lists, blocks, curTCB, curPCB, space, eflags, halted, fatMutex, saved>>

(* A process's thread alternates between running with interrupts on (its   *)
(* program, and startExe32 around it) and off: the gates of int 21h and    *)
(* int 80h turn them off, and kmalloc and kfree may leave them off.        *)
InterruptsOff ==
  /\ At("run") /\ irq /\ irq' = FALSE
  /\ UNCHANGED <<lists, blocks, curTCB, curPCB, space, eflags, halted, fatMutex, saved, pc>>

(* The return from the system call, or the start of the program.           *)
InterruptsOn ==
  /\ At("run") /\ ~irq /\ irq' = TRUE
  /\ UNCHANGED <<lists, blocks, curTCB, curPCB, space, eflags, halted, fatMutex, saved, pc>>

(* waitForKeystroke, once around its loop *)
WaitForKeystroke ==
  /\ At("run")
  /\ UNCHANGED <<terminatedTCB, toRemove, live, waiting, pcb, fatMutex, saved, pc>>
  /\ Schedule(Queue, state, irq)

(* createThread(t), and createThreadAndBlock(t).  A control block that was *)
(* freed may be allocated again.                                           *)
NewBlock_Orphan(t, parent) ==
  /\ t \notin live
  /\ live' = live \cup {t}
  /\ waiting' = waiting
  /\ pcb' = [pcb EXCEPT ![t] = t]
NewBlock(t, parent) ==
  /\ t \notin live
  /\ live' = live \cup {t}
  /\ waiting' = [waiting EXCEPT ![t] = parent]
  /\ pcb' = [pcb EXCEPT ![t] = t]

CreateThread(t) ==
  /\ At("run") /\ ~irq /\ NewBlock(t, None)
  /\ Keep(Appended(Queue, t))
  /\ state' = [state EXCEPT ![t] = "READY"]
  /\ eflags' = [eflags EXCEPT ![t] = FALSE]
  /\ pc' = [pc EXCEPT ![t] = "start"]
  /\ UNCHANGED <<curTCB, curPCB, space, irq, halted, terminatedTCB, toRemove, fatMutex, saved>>

CreateThreadAndBlock(t) ==
  /\ (At("run") /\ ~irq) \/ At("boot")
  /\ NewBlock(t, curTCB)
  /\ Schedule(Appended(Queue, t),
              [state EXCEPT ![t] = "READY", ![curTCB] = "CHILDWAIT"], irq)
  /\ pc' = [pc EXCEPT ![t] = "start", ![curTCB] = IF @ = "boot" THEN "idle" ELSE "run"]
  /\ UNCHANGED <<terminatedTCB, toRemove, fatMutex, saved>>

(* lockMutex, its loop, and unlockMutex *)
Acquire == fatMutex' = TRUE /\ Goes("crit")

LockMutex ==
  /\ At("run")
  /\ UNCHANGED <<terminatedTCB, toRemove, live, waiting, pcb>>
  /\ IF fatMutex
     THEN /\ Schedule(Queue, state, FALSE)
          /\ saved' = [saved EXCEPT ![curTCB] = irq] /\ Goes("lock")
          /\ UNCHANGED fatMutex
     ELSE Acquire /\ UNCHANGED <<ready, next, state, cpu, saved>>

Retries_Once == FALSE
Retries == fatMutex

LockAgain ==
  /\ At("lock")
  /\ UNCHANGED <<terminatedTCB, toRemove, live, waiting, pcb, saved>>
  /\ IF Retries
     THEN Schedule(Queue, state, FALSE) /\ UNCHANGED <<fatMutex, pc>>
     ELSE /\ Acquire /\ irq' = saved[curTCB]
          /\ UNCHANGED <<ready, next, state, curTCB, curPCB, space, eflags, halted>>

UnlockMutex ==
  /\ At("crit")
  /\ fatMutex' = FALSE /\ Goes("run")
  /\ UNCHANGED <<lists, blocks, cpu, saved>>

(* The end of a process's thread: in terminateExe32 it leaves the address  *)
(* space that is about to be freed ...                                     *)
Leaves_Attached == pcb
Leaves == [pcb EXCEPT ![curTCB] = None]

LeaveProcess ==
  /\ At("run") /\ Goes("exit")
  /\ pcb' = Leaves /\ curPCB' = None /\ space' = None
  /\ UNCHANGED <<lists, live, state, waiting, curTCB, irq, eflags, halted, fatMutex, saved>>

(* ... and ends with terminateThread.                                      *)
Dead_Drops(t) == [next EXCEPT ![t] = None]
Dead(t) == [next EXCEPT ![t] = terminatedTCB]

TerminateThread ==
  LET q0 == [Queue EXCEPT !.next = Dead(curTCB)]
      parent == waiting[curTCB]
      q1 == IF parent = None THEN q0 ELSE Woken(q0, state, parent)
      s1 == IF parent = None THEN state ELSE [state EXCEPT ![parent] = "READY"]
      q2 == Woken(q1, s1, Cleaner)
  IN
  /\ At("exit")
  /\ terminatedTCB' = curTCB
  /\ UNCHANGED <<toRemove, live, waiting, pcb, fatMutex, saved, pc>>
  /\ Schedule(q2, [s1 EXCEPT ![Cleaner] = "READY", ![curTCB] = "TERMINATED"], FALSE)

(* cleanTerminatedThreads *)
CleanerTakes ==
  /\ At("take")
  /\ toRemove' = terminatedTCB /\ terminatedTCB' = None
  /\ irq' = TRUE
  /\ Goes(IF terminatedTCB = None THEN "pause" ELSE "free")
  /\ UNCHANGED <<ready, next, blocks, curTCB, curPCB, space, eflags, halted, fatMutex, saved>>

Rest_Lost == None
Rest == next[toRemove]

CleanerFrees ==
  /\ At("free")
  /\ toRemove' = Rest
  /\ live' = live \ {toRemove}
  /\ next' = [next EXCEPT ![toRemove] = None]
  /\ waiting' = [waiting EXCEPT ![toRemove] = None]
  /\ irq' \in BOOLEAN                       \* kfree may leave interrupts off
  /\ Goes(IF Rest = None THEN "pause" ELSE "free")
  /\ UNCHANGED <<ready, terminatedTCB, state, pcb, curTCB, curPCB, space, eflags, halted,
                 fatMutex, saved>>

(* blockThread(TCB_STATE_PAUSED), with interrupts on between its two lines *)
CleanerPauses ==
  /\ At("pause") /\ Goes("sleep")
  /\ state' = [state EXCEPT ![Cleaner] = "PAUSED"]
  /\ UNCHANGED <<lists, live, waiting, pcb, cpu, fatMutex, saved>>

CleanerSleeps ==
  /\ At("sleep") /\ Goes("take")
  /\ UNCHANGED <<terminatedTCB, toRemove, live, waiting, pcb, fatMutex, saved>>
  /\ Schedule(Queue, state, irq)

CleanerStep == CleanerTakes \/ CleanerFrees \/ CleanerPauses \/ CleanerSleeps

Next ==
  \/ Timer \/ Start
  \/ InterruptsOff \/ InterruptsOn \/ WaitForKeystroke
  \/ \E t \in Tcbs : CreateThread(t) \/ CreateThreadAndBlock(t)
  \/ LockMutex \/ LockAgain \/ UnlockMutex
  \/ LeaveProcess \/ TerminateThread
  \/ CleanerTakes \/ CleanerFrees \/ CleanerPauses \/ CleanerSleeps

(* The timer's interrupt stays pending until interrupts are on.  A thread  *)
(* makes some progress in its turns, be they cut short by the timer: FAT   *)
(* calls, system calls and the cleaner's loop come to their end.           *)
Fairness ==
  /\ SF_vars(Timer)
  /\ WF_vars(Start) /\ WF_vars(LockAgain)
  /\ SF_vars(UnlockMutex) /\ SF_vars(InterruptsOn)
  /\ SF_vars(TerminateThread) /\ SF_vars(CleanerStep)

Spec == Init /\ [][Next]_vars
FairSpec == Spec /\ Fairness

-----------------------------------------------------------------------------
TypeOK ==
  /\ live \subseteq Tcbs /\ curTCB \in live
  /\ ready \in [first : live \cup {None}, last : live \cup {None}]
  /\ next \in [Tcbs -> Tcbs \cup {None}]
  /\ state \in [Tcbs -> States] /\ pc \in [Tcbs -> Places]
  /\ waiting \in [Tcbs -> Tcbs \cup {None}] /\ pcb \in [Tcbs -> Tcbs \cup {None}]
  /\ terminatedTCB \in live \cup {None} /\ toRemove \in live \cup {None}
  /\ curPCB \in Tcbs \cup {None} /\ space \in Tcbs \cup {None}
  /\ eflags \in [Tcbs -> BOOLEAN] /\ saved \in [Tcbs -> BOOLEAN]
  /\ {fatMutex, irq, halted} \subseteq BOOLEAN

(* The control blocks on the list that starts at t, in their order.        *)
Listed(t) ==
  LET at[k \in 0 .. Cardinality(Tcbs)] ==
        IF k = 0 THEN t ELSE IF at[k-1] = None THEN None ELSE next[at[k-1]]
      n == Cardinality({k \in DOMAIN at : at[k] # None})
  IN [k \in 1 .. n |-> at[k-1]]

Members(l) == {l[k] : k \in DOMAIN l}
In(s) == {t \in live : state[t] = s}

(* The list holds each member once: it has an end.                         *)
IsList(l, S) == Members(l) = S /\ Len(l) = Cardinality(S)

ReadyList ==
  /\ IsList(Listed(ready.first), In("READY"))
  /\ ready.last = IF ready.first = None THEN None
                  ELSE Listed(ready.first)[Len(Listed(ready.first))]

DeadList ==
  IsList(Listed(terminatedTCB) \o Listed(toRemove), In("TERMINATED"))

(* Although both lists run through one field of the same blocks, exactly   *)
(* the READY threads are on the ready list, each once, and every thread    *)
(* that has terminated and is not freed yet waits for the cleaner on one   *)
(* of its two lists, once: none leaks, none is freed twice.                *)
ThreadLists == TypeOK /\ ReadyList /\ DeadList

(* "Mutex (Mutual Exclusion) prevents two threads from accessing the same  *)
(* resource at one time" (pdos.c:852), and a thread that holds it is there *)
(* to give it back.                                                        *)
MutualExclusion ==
  LET holders == {t \in live : pc[t] = "crit"} IN
  /\ Cardinality(holders) = IF fatMutex THEN 1 ELSE 0
  /\ holders \subseteq In("RUNNING") \cup In("READY")

(* The scheduler never finds itself without a thread to run.               *)
NeverHalts == ~halted

(* A thread that waits for a child has one child that will wake it, and    *)
(* only such a thread will be woken so: no parent waits for ever on a dead *)
(* child, and none is put on the ready list twice.                         *)
ParentsWait ==
  \A p \in live :
    Cardinality({c \in live : waiting[c] = p /\ state[c] # "TERMINATED"})
      = IF state[p] = "CHILDWAIT" THEN 1 ELSE 0

(* The running thread is in its own address space, with its own process as *)
(* curPCB: schedule() loads them only when it sees a change of process.    *)
RightSpace == curPCB = pcb[curTCB] /\ space = pcb[curTCB]

(* The linked list is a first-in first-out queue that each thread goes     *)
(* through in turn.                                                        *)
Turns == INSTANCE RoundRobin WITH Threads <- Tcbs, running <- curTCB,
                                  queue <- Listed(ready.first)
RoundRobinTurns == Turns!Spec

(* Every ready thread gets the processor, whatever the others do.          *)
EveryReadyRuns ==
  \A t \in Tcbs : t \in live /\ state[t] = "READY" ~> state[t] = "RUNNING"

(* Once the cleaner has been woken from its pause, every thread that is    *)
(* dead by then is freed.                                                  *)
WokenCleans ==
  \A t \in Tcbs :
    /\ t \in In("TERMINATED") /\ state[Cleaner] = "READY" /\ pc[Cleaner] = "take"
    ~> t \notin live
=============================================================================
