--------------------------- MODULE MemoryAllocator ---------------------------
(***************************************************************************)
(* What a memory allocator over a growing range promises: a buffer it      *)
(* hands out has the alignment asked for, lies in memory that is there,    *)
(* and overlaps no other buffer for as long as its owner has it, whatever  *)
(* becomes of the others; a buffer that is resized stays where it is.      *)
(***************************************************************************)
EXTENDS Integers

CONSTANTS
  Addr,     \* where a buffer may start
  Length, Alignment,
  NULL

VARIABLES
  live,     \* length of each buffer that is out, by address
  top,      \* memory exists below it
  request,  \* the request being served, [len, align], or NULL
  answer    \* the last buffer handed out, or NULL

vars == <<live, top, request, answer>>

Buffer(p, len) == p .. p + len - 1

\* A buffer of len at p would overlap none of the others.
Clear(p, len) ==
  \A q \in DOMAIN live \ {p} : Buffer(p, len) \cap Buffer(q, live[q]) = {}

With(p, len) == [q \in DOMAIN live \cup {p} |-> IF q = p THEN len ELSE live[q]]

Init ==
  /\ live = << >>
  /\ top \in Nat
  /\ request = NULL
  /\ answer = NULL

Ask(len, align) ==
  /\ request = NULL
  /\ request' = [len |-> len, align |-> align]
  /\ UNCHANGED <<live, top, answer>>

Grow ==
  /\ request # NULL
  /\ top' > top
  /\ UNCHANGED <<live, request, answer>>

Grant(p) ==
  /\ request # NULL
  /\ p \notin DOMAIN live
  /\ p % request.align = 0
  /\ p + request.len <= top
  /\ Clear(p, request.len)
  /\ live' = With(p, request.len)
  /\ answer' = p
  /\ request' = NULL
  /\ UNCHANGED top

\* Memory could not be had; some of it may have been.
Refuse ==
  /\ request # NULL
  /\ top' >= top
  /\ answer' = NULL
  /\ request' = NULL
  /\ UNCHANGED live

Release(p) ==
  /\ request = NULL
  /\ p \in DOMAIN live
  /\ live' = [q \in DOMAIN live \ {p} |-> live[q]]
  /\ UNCHANGED <<top, request, answer>>

Resize(p, len) ==
  /\ request = NULL
  /\ p \in DOMAIN live
  /\ p + len <= top
  /\ Clear(p, len)
  /\ live' = With(p, len)
  /\ UNCHANGED <<top, request, answer>>

Next ==
  \/ \E len \in Length, align \in Alignment : Ask(len, align)
  \/ \E p \in Addr : Grant(p) \/ Release(p)
  \/ \E p \in Addr, len \in Length : Resize(p, len)
  \/ Grow \/ Refuse

Spec == Init /\ [][Next]_vars

==============================================================================
