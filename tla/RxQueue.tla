------------------------------- MODULE RxQueue -------------------------------
(***************************************************************************)
(* What the receive side of the network card and its driver promise:       *)
(* frames come out in the order in which they came in, each once, and no   *)
(* more than Capacity wait at a time.                                      *)
(***************************************************************************)
EXTENDS Naturals, Sequences

CONSTANTS Frames, Capacity

VARIABLES
  queue,   \* the frames that wait
  last     \* what was handed on last, with its turn; None before that

None == [frame |-> 0, turn |-> FALSE]

Init == queue = <<>> /\ last = None

Put(f) ==
  /\ Len(queue) < Capacity
  /\ queue' = Append(queue, f)
  /\ UNCHANGED last

Get ==
  /\ queue # <<>>
  /\ last' = [frame |-> Head(queue), turn |-> ~last.turn]
  /\ queue' = Tail(queue)

Next == Get \/ \E f \in Frames : Put(f)

Spec == Init /\ [][Next]_<<queue, last>>
=============================================================================
