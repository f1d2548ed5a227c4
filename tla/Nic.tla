--------------------------------- MODULE Nic ---------------------------------
(***************************************************************************)
(* Receiving frames with the PCnet-PCI II (src/net/pcnetii.c): a ring of   *)
(* descriptors that driver and controller share.  The controller fills the *)
(* descriptors it owns in turn and raises RINT; nicReceive waits for RINT, *)
(* clears it and takes one frame.  Several frames may raise RINT before it *)
(* is read or while it is about to be cleared, and count as one.           *)
(*                                                                         *)
(* Each access of the driver to the card or to the ring is an action; the  *)
(* card works at any time in between.                                      *)
(***************************************************************************)
EXTENDS Naturals, Sequences

CONSTANTS
  RDES_COUNT,  \* descriptors in the receive ring
  Frames       \* what may arrive

ASSUME RingAssumption == RDES_COUNT \in Nat \ {0}

VARIABLES
  rring,    \* rring[i]: own (0x80 of byte 7), err (0x40), and the frame in the buffer
  rint,     \* RINT of CSR 0
  filling,  \* the descriptor the controller fills next
  raising,  \* it has given a descriptor back and is about to set RINT
  pc,       \* where nicReceive is; "called" also stands for its caller
  currRdes, \* the position of the driver in the ring
  buf,      \* the copy of the frame
  last      \* the frame handed to ethReceive last, and a bit that turns each time

vars == <<rring, rint, filling, raising, pc, currRdes, buf, last>>
driver == <<pc, currRdes, buf, last>>
card == <<filling, raising>>

Slots == 0 .. RDES_COUNT - 1
NextSlot(i) == IF i + 1 = RDES_COUNT THEN 0 ELSE i + 1

Empty == [own |-> TRUE, err |-> FALSE, frame |-> 0]
Filled(f, e) == [own |-> FALSE, err |-> e, frame |-> f]
NoFrame == [frame |-> 0, turn |-> FALSE]

(* initRings, and the controller after a reset.                            *)
Init ==
  /\ rring = [i \in Slots |-> Empty]
  /\ rint = FALSE /\ filling = 0 /\ raising = FALSE
  /\ pc = "called" /\ currRdes = 0 /\ buf = 0 /\ last = NoFrame

-----------------------------------------------------------------------------
(* The controller.  A frame that finds the next descriptor not its own is  *)
(* missed, which changes nothing here; a damaged frame is stored as well.  *)
Arrive(f, e) ==
  /\ ~raising
  /\ rring[filling].own
  /\ rring' = [rring EXCEPT ![filling] = Filled(f, e)]
  /\ filling' = NextSlot(filling)
  /\ raising' = TRUE
  /\ UNCHANGED <<rint, driver>>

Raise ==
  /\ raising
  /\ rint' = TRUE
  /\ raising' = FALSE
  /\ UNCHANGED <<rring, filling, driver>>

(* nicReceive, from its first line on.                                     *)
ReadCSR ==
  /\ pc = "called" /\ rint
  /\ pc' = "clear"
  /\ UNCHANGED <<rring, rint, card, currRdes, buf, last>>

ClearCSR_Not ==
  /\ pc = "clear"
  /\ pc' = "scan"
  /\ UNCHANGED <<rring, rint, card, currRdes, buf, last>>

ClearCSR ==
  /\ pc = "clear"
  /\ rint' = FALSE
  /\ pc' = "scan"
  /\ UNCHANGED <<rring, card, currRdes, buf, last>>

(* One turn of the loop that looks for a frame, or the end of it: a frame  *)
(* with an error is left where it is, another one is copied.               *)
Look ==
  /\ pc = "scan"
  /\ IF rring[currRdes].own
     THEN currRdes' = NextSlot(currRdes) /\ UNCHANGED <<pc, buf>>
     ELSE IF rring[currRdes].err
     THEN pc' = "called" /\ UNCHANGED <<currRdes, buf>>
     ELSE pc' = "copied" /\ buf' = rring[currRdes].frame /\ UNCHANGED currRdes
  /\ UNCHANGED <<rring, rint, card, last>>

(* The descriptor goes back to the controller, the copy to ethReceive.     *)
GiveBack_Stays ==
  /\ pc = "copied"
  /\ rring' = [rring EXCEPT ![currRdes] = Empty]
  /\ last' = [frame |-> buf, turn |-> ~last.turn]
  /\ buf' = 0
  /\ pc' = "called"
  /\ UNCHANGED <<rint, card, currRdes>>

GiveBack_Keeps ==
  /\ pc = "copied"
  /\ currRdes' = NextSlot(currRdes)
  /\ last' = [frame |-> buf, turn |-> ~last.turn]
  /\ buf' = 0
  /\ pc' = "called"
  /\ UNCHANGED <<rring, rint, card>>

GiveBack ==
  /\ pc = "copied"
  /\ rring' = [rring EXCEPT ![currRdes] = Empty]
  /\ currRdes' = NextSlot(currRdes)
  /\ last' = [frame |-> buf, turn |-> ~last.turn]
  /\ buf' = 0
  /\ pc' = "called"
  /\ UNCHANGED <<rint, card>>

NicReceive == ReadCSR \/ ClearCSR \/ Look \/ GiveBack
Arrives == \E f \in Frames, e \in BOOLEAN : Arrive(f, e)
Next == Arrives \/ Raise \/ NicReceive

Spec == Init /\ [][Next]_vars

(* The program calls nicReceive again whenever it returns, the card does   *)
(* its work, and there is always a next frame on the network.              *)
FairSpec == Spec /\ WF_vars(NicReceive) /\ WF_vars(Raise) /\ WF_vars(Arrives)

-----------------------------------------------------------------------------
TypeOK ==
  /\ rring \in [Slots -> [own : BOOLEAN, err : BOOLEAN, frame : Frames \cup {0}]]
  /\ rint \in BOOLEAN /\ raising \in BOOLEAN
  /\ filling \in Slots /\ currRdes \in Slots
  /\ pc \in {"called", "clear", "scan", "copied"}
  /\ buf \in Frames \cup {0}
  /\ last \in [frame : Frames \cup {0}, turn : BOOLEAN]

(* The frames that wait begin at the driver's position and end before the  *)
(* controller's.                                                           *)
Waiting ==
  IF currRdes < filling THEN filling - currRdes
  ELSE IF filling < currRdes THEN RDES_COUNT - currRdes + filling
  ELSE IF rring[currRdes].own THEN 0 ELSE RDES_COUNT
Place(k) == IF currRdes + k < RDES_COUNT THEN currRdes + k ELSE currRdes + k - RDES_COUNT
queue == [k \in 1 .. Waiting |-> rring[Place(k - 1)].frame]

(* Once RINT has been seen, the descriptor at the driver's position holds  *)
(* a frame, though several frames may have raised RINT only once: the loop *)
(* that goes through the ring never takes a step, and so never passes a    *)
(* descriptor that is filled behind its back.                              *)
FrameAtHand == pc \in {"scan", "copied"} => ~rring[currRdes].own

(* Driver and card together are the queue of RxQueue: frames are handed on *)
(* in the order of their arrival, each once, whatever RINT does.           *)
Q == INSTANCE RxQueue WITH Capacity <- RDES_COUNT
InOrder == Q!Spec

(* As long as frames keep coming, each frame is taken out of the ring in   *)
(* the end, although RINT may have been raised for it and its successors   *)
(* only once; nothing but a damaged frame stops the driver, for good.      *)
FramesFlow ==
  \A i \in Slots : ~rring[i].own ~> (rring[i].own \/ rring[currRdes].err)
=============================================================================
