-------------------------------- MODULE MCHeap --------------------------------
(***************************************************************************)
(* A heap of three pages of four units, of which a header takes two.       *)
(***************************************************************************)
EXTENDS Heap
==============================================================================
