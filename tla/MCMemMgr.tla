------------------------------ MODULE MCMemMgr ------------------------------
(***************************************************************************)
(* Small heaps for MemMgr.  The proportions are those of the 32-bit build, *)
(* scaled down: a control block is three alignment units (48 = 3 * 16) and *)
(* the power of two that size_t wraps at is no multiple of Gran (96).      *)
(***************************************************************************)
EXTENDS MemMgrStats

(* Two buffers that touch, both misaligned: room for five minimal blocks,  *)
(* and for one and a half.                                                 *)
TouchingBuffers == { [base |-> 1, size |-> 61], [base |-> 61, size |-> 19] }
=============================================================================
