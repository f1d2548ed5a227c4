-------------------------------- MODULE MCVmm --------------------------------
(***************************************************************************)
(* Two processes; page tables of two entries, two of them in each space,   *)
(* so that a range can lie in one table or reach from one into the next.   *)
(*                                                                         *)
(* Which frame has which use makes no difference to what can happen next,  *)
(* nor does the name of a process, nor what a directory that is not loaded *)
(* says of kernel space, which Switch writes over.  States that differ in  *)
(* nothing else are taken for one, but not one that breaks FramesOnce for  *)
(* one that does not.                                                      *)
(***************************************************************************)
EXTENDS Vmm

MCFrames == 1 .. 12
MCSizes == 1 .. 3

EntriesOf(s) == {i \in Own(s) : Entry(s, i) # Absent}
Shape(s) == <<nodes[s], Mapped(s), EntriesOf(s), s = loaded>>

FrameView ==
  <<Shape(Kernel), {<<stage[p], Shape(p)>> : p \in Procs}, Cardinality(free), FramesOnce>>
=============================================================================
