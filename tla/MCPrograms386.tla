---------------------------- MODULE MCPrograms386 ----------------------------
(* The addresses of control blocks are exchangeable.                        *)
EXTENDS Programs386, TLC

Addresses == Permutations(Procs)
=============================================================================
