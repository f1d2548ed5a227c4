------------------------------ MODULE MCFatDir ------------------------------
(***************************************************************************)
(* Two long names of one stem, one and two pieces long, an 8.3 name and    *)
(* its mixed case, and the first 8.3 name that is made for the long ones.  *)
(* Sectors of two slots; a root of two of them, and a directory that       *)
(* grows on a disk of four clusters.  The checksums of two 8.3 names       *)
(* collide.                                                                *)
(***************************************************************************)
EXTENDS FatDir, TLC

CONSTANTS One, Two   \* texts of long names

MCPlain == [stem |-> "P", tail |-> 0]
MCFirst == [stem |-> "S", tail |-> 1]
MCNames == [tag : {"long"}, text : {One, Two}] \cup [tag : {"short"}, text : {MCPlain, MCFirst}]
           \cup [tag : {"mixed"}, text : {MCPlain}]
MCStem == [t \in {One, Two} |-> "S"]
MCPieces == (One :> 1) @@ (Two :> 2)
MCNoText == [tag |-> "none"]
MCChecksum == [s \in ShortNames |-> IF s = MCFirst THEN MCPlain ELSE s]
MCRootSizes == {0, 2}

Interchangeable == Permutations(Clusters)
=============================================================================
