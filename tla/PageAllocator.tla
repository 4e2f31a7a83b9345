---------------------------- MODULE PageAllocator ----------------------------
(***************************************************************************)
(* What the physical memory manager of the kernel promises its callers,    *)
(* whatever the search it uses: a request for n adjacent page frames is    *)
(* answered with n adjacent frames that nobody else holds, and it is       *)
(* refused only when no such frames exist.                                 *)
(***************************************************************************)
EXTENDS Integers

CONSTANTS
  MAX_PAGES,  \* number of page frames
  Owner,      \* the kernel components that ask for frames
  NULL        \* the answer of a refused request

VARIABLES
  free,       \* the frames nobody holds and the boot map did not reserve
  held,       \* held[o]: the frames handed to o and not yet returned
  request,    \* the request being served: [owner, count], or NULL
  answer      \* first frame of the last request answered, or NULL

vars == <<free, held, request, answer>>

Page == 0 .. MAX_PAGES - 1

Run(first, count) == first .. first + count - 1

Init ==
  /\ free \in SUBSET Page
  /\ held = [o \in Owner |-> {}]
  /\ request = NULL
  /\ answer = NULL

Ask(o, count) ==
  /\ request = NULL
  /\ request' = [owner |-> o, count |-> count]
  /\ UNCHANGED <<free, held, answer>>

\* A request that no memory of this size could satisfy is not even served.
Reject ==
  /\ request = NULL
  /\ answer' = NULL
  /\ UNCHANGED <<free, held, request>>

Grant(first) ==
  /\ request # NULL
  /\ Run(first, request.count) \subseteq free
  /\ free' = free \ Run(first, request.count)
  /\ held' = [held EXCEPT ![request.owner] = @ \cup Run(first, request.count)]
  /\ answer' = first
  /\ request' = NULL

Refuse ==
  /\ request # NULL
  /\ \A first \in Page : ~ (Run(first, request.count) \subseteq free)
  /\ answer' = NULL
  /\ request' = NULL
  /\ UNCHANGED <<free, held>>

Release(o, p) ==
  /\ request = NULL
  /\ p \in held[o]
  /\ held' = [held EXCEPT ![o] = @ \ {p}]
  /\ free' = free \cup {p}
  /\ UNCHANGED <<request, answer>>

Next ==
  \/ \E o \in Owner, count \in 1 .. MAX_PAGES : Ask(o, count)
  \/ \E first \in Page : Grant(first)
  \/ Refuse
  \/ Reject
  \/ \E o \in Owner, p \in Page : Release(o, p)

Spec == Init /\ [][Next]_vars

==============================================================================
