----------------------------- MODULE MCVirtioBlk -----------------------------
(***************************************************************************)
(* Two chains' worth of descriptors, of which one call uses one; indices   *)
(* that run out after the third request.                                   *)
(***************************************************************************)
EXTENDS VirtioBlk
==============================================================================
