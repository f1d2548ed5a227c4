---------------------------- MODULE AddressSpaces ----------------------------
(***************************************************************************)
(* What virtual memory promises: a page of a space that has been allocated *)
(* keeps its frame until it is freed.  A call changes one space, and a     *)
(* frame is never behind two pages.                                        *)
(***************************************************************************)
EXTENDS Naturals

CONSTANTS
  Spaces,
  Contains(_),  \* the pages of a space
  Frames

VARIABLE memory   \* the frame behind each page <<space, page>> that is allocated

Backed(s) == {x \in DOMAIN memory : x[1] = s}
InUse == {memory[x] : x \in DOMAIN memory}

Init == memory = <<>>

Grant(s) ==
  /\ DOMAIN memory \subseteq DOMAIN memory'
  /\ \A x \in DOMAIN memory : memory'[x] = memory[x]
  /\ \A x \in DOMAIN memory' \ DOMAIN memory :
       /\ x[1] = s /\ x[2] \in Contains(s)
       /\ memory'[x] \in Frames \ InUse
       /\ \A y \in DOMAIN memory' : memory'[y] = memory'[x] => y = x

Release(s) ==
  /\ DOMAIN memory' \subseteq DOMAIN memory
  /\ DOMAIN memory \ DOMAIN memory' \subseteq Backed(s)
  /\ \A x \in DOMAIN memory' : memory'[x] = memory[x]

Next == \E s \in Spaces : Grant(s) \/ Release(s)

Spec == Init /\ [][Next]_memory
=============================================================================
