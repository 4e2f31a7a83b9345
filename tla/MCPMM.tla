-------------------------------- MODULE MCPMM --------------------------------
(***************************************************************************)
(* A machine of a few frames whose first frame is the kernel's, with two   *)
(* owners, every memory map and every place of the multiboot information.  *)
(***************************************************************************)
EXTENDS PMM
==============================================================================
