------------------------------ MODULE MCStream ------------------------------
(***************************************************************************)
(* A buffer of three bytes over files of a few.                            *)
(***************************************************************************)
EXTENDS Stream

SmallDisks ==
  [text : {FALSE}, bytes : {<<1, 2, 3, 4, 5>>}] \cup
  [text : {TRUE}, bytes : {<<1, CR, LF, 4, CR, LF>>, <<1, 2, CR, LF, LF, 6, 7>>}]

Sizes == [text \in BOOLEAN |-> IF text THEN 6 ELSE 7]
SomeOffsets == {-2, 0}
SomeWritings == {[i \in 1 .. 5 |-> Other], <<Other, LF, Other>>}
=============================================================================
