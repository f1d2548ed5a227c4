---------------------------- MODULE MCKernelHeap ----------------------------
(***************************************************************************)
(* Eight pages.  A block has two pages and room for three of the smallest  *)
(* pieces, which are as large as a VMM_NODE; a piece of five fills it and  *)
(* one of nine fills three pages.  A stack is a page.                      *)
(***************************************************************************)
EXTENDS KernelHeap

MCSizes == {1, 5, 9}
MCStackPages == {1}
=============================================================================
