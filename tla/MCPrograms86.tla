---------------------------- MODULE MCPrograms86 -----------------------------
(* Three programs may be there at a time, their addresses exchangeable.     *)
EXTENDS Programs86, TLC

Addresses == Permutations(Procs)
=============================================================================
