----------------------------- MODULE MCElfLoader -----------------------------
(***************************************************************************)
(* An instance of ElfLoader for TLC.                                       *)
(***************************************************************************)
EXTENDS ElfLoader, TLC

CONSTANTS A, B

\* The heap, and the page mapped at boot, under entries of the boot code's table.
MCTest == <<0, 1, 0, 0>>
MCHeap == <<<<0, 2, 0, 0>>, <<0, 2, 1, 0>>>>

\* A is where the page for the test was and has a page in two segments; B is under another
\* entry of the first level.
MCSegments ==
  A :> <<<<<<0, 1, 0, 0>>, <<0, 1, 0, 1>>>>, <<<<0, 1, 0, 1>>>>>>
  @@ B :> <<<<<<1, 0, 0, 0>>, <<1, 0, 0, 1>>>>>>

==============================================================================
