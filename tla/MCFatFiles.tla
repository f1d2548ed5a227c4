----------------------------- MODULE MCFatFiles -----------------------------
(***************************************************************************)
(* Small disks for FatFiles: sectors of two bytes; four clusters of one    *)
(* sector, or three of two.  A cluster number above the last of the disk   *)
(* is never given out, as the root directory is no longer than a cluster.  *)
(***************************************************************************)
EXTENDS FatFiles, TLC

SmallDisks == { [sectors_per_cluster |-> 1, rootsize |-> 1, datasize |-> 5],
                [sectors_per_cluster |-> 2, rootsize |-> 2, datasize |-> 9] }

Interchangeable == Permutations(Files)
=============================================================================
