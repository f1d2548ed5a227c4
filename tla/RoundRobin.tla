----------------------------- MODULE RoundRobin -----------------------------
(***************************************************************************)
(* What the scheduler promises: one thread runs, the others that are ready *)
(* stand in a queue, and the processor always goes to the head of it.      *)
(***************************************************************************)
EXTENDS Sequences, FiniteSets, Integers

CONSTANT Threads
VARIABLES running, queue

turns == <<running, queue>>

Waiting == {queue[k] : k \in DOMAIN queue}

(* Up to two threads join in one step: those that a dying thread wakes.    *)
Arrivals ==
  { w \in UNION {[1 .. n -> Threads \ (Waiting \cup {running})] : n \in 0 .. 2} :
      \A i, j \in DOMAIN w : i # j => w[i] # w[j] }

Init == running \in Threads /\ queue \in [{1} -> Threads \ {running}]

Join(w)    == queue' = queue \o w /\ UNCHANGED running
GiveWay(w) == LET q == queue \o w IN
              q # <<>> /\ running' = Head(q) /\ queue' = Append(Tail(q), running)
Stop(w)    == LET q == queue \o w IN
              q # <<>> /\ running' = Head(q) /\ queue' = Tail(q)

Next == \E w \in Arrivals : Join(w) \/ GiveWay(w) \/ Stop(w)

Spec == Init /\ [][Next]_turns
=============================================================================
