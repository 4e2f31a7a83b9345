--------------------------------- MODULE PMM ---------------------------------
(***************************************************************************)
(* The physical memory manager of the 64-bit kernel (pmm64.zig): a bitmap  *)
(* of page frames, a next-fit search for one frame, a first-fit search for *)
(* adjacent frames, and a count of the frames handed out.                  *)
(*                                                                         *)
(* Frames are numbered; an address is the number times PAGE_SIZE, and an   *)
(* address that is not a multiple of it or lies at 4 GB and above is one   *)
(* number outside Page, because freePage answers both by returning.  Each  *)
(* iteration of a search loop is one step.  The kernel has one thread of   *)
(* control here (no caller can be preempted in a search: hal.zig's         *)
(* timerTickCallback is never assigned), so one call runs at a time.       *)
(***************************************************************************)
EXTENDS Integers, FiniteSets

CONSTANTS
  MAX_PAGES,    \* frames the bitmap covers (4 GB in the code)
  KERNEL_PAGES, \* frames below _kernel_end: the first MB and the kernel image
  Owner,        \* kernel components that take frames: VMM, heap, drivers
  NULL          \* the null of ?u64

ASSUME PagesAssumption ==
  /\ MAX_PAGES \in Nat \ {0}
  /\ KERNEL_PAGES \in 0 .. MAX_PAGES

ASSUME NullAssumption ==
  /\ NULL \notin Int
  /\ NULL \notin [owner : Owner, count : 1 .. MAX_PAGES]

Page == 0 .. MAX_PAGES - 1
NotAPage == MAX_PAGES
Run(first, count) == first .. first + count - 1

VARIABLES
  bitmap,          \* the frames whose bit is set
  allocated_pages,
  next_free_hint,
  call,            \* the call in progress and the locals of its loop
  answer,          \* what the last allocation returned
  held,            \* history: held[o], the frames o was given and has not returned
  reserved         \* history: the frames init left marked

vars == <<bitmap, allocated_pages, next_free_hint, call, answer, held, reserved>>

\* Definitions named Faulty... are not the code's: each is a plausible mistake in the
\* definition after it, put in its place to see that a property notices.

\* The locals of the three loops: i in each, the rest where the loop has it.
FaultyScan(o, i, wrapped) ==  \* never remembers that it wrapped
  [op |-> "allocPage", owner |-> o, i |-> i, wrapped |-> FALSE,
   count |-> 1, run_start |-> 0, run_len |-> 0]
Scan(o, i, wrapped) ==
  [op |-> "allocPage", owner |-> o, i |-> i, wrapped |-> wrapped,
   count |-> 1, run_start |-> 0, run_len |-> 0]
Search(o, count, i, start, len) ==
  [op |-> "allocContiguousPages", owner |-> o, i |-> i, wrapped |-> FALSE,
   count |-> count, run_start |-> start, run_len |-> len]
Freeing(o, first, count, i) ==
  [op |-> "freeContiguousPages", owner |-> o, i |-> i, wrapped |-> FALSE,
   count |-> count, run_start |-> first, run_len |-> 0]
NoCall ==
  [op |-> "none", owner |-> NULL, i |-> 0, wrapped |-> FALSE,
   count |-> 0, run_start |-> 0, run_len |-> 0]

Held == UNION {held[o] : o \in Owner}

------------------------------------------------------------------------------

setPageInternal(p) == bitmap' = bitmap \cup {p}
freePageInternal(p) == bitmap' = bitmap \ {p}

\* The memory map marks `usable` free; the first MB, the kernel image and the
\* multiboot information at `mbi` are marked again.
InitialBitmap(usable, mbi) ==
  (Page \ usable) \cup Run(0, KERNEL_PAGES) \cup {mbi}

Init ==
  /\ \E usable \in SUBSET Page, mbi \in Page : bitmap = InitialBitmap(usable, mbi)
  /\ allocated_pages = 0
  /\ next_free_hint = 0
  /\ call = NoCall
  /\ answer = NULL
  /\ held = [o \in Owner |-> {}]
  /\ reserved = bitmap

FaultyHintAfter(p) == p + 1  \* no wrap at the end of the bitmap
HintAfter(p) == IF p + 1 >= MAX_PAGES THEN 0 ELSE p + 1

Give(o, pages, first) ==
  /\ held' = [held EXCEPT ![o] = @ \cup pages]
  /\ answer' = first
  /\ call' = NoCall

ReturnNull ==
  /\ answer' = NULL
  /\ call' = NoCall
  /\ UNCHANGED <<bitmap, allocated_pages, next_free_hint, held, reserved>>

\* allocPage: scan from the hint to the end, then once more from frame 0.

AllocPage(o) ==
  /\ call = NoCall
  /\ call' = Scan(o, next_free_hint, FALSE)
  /\ UNCHANGED <<bitmap, allocated_pages, next_free_hint, answer, held, reserved>>

AllocPageTake ==
  /\ call.op = "allocPage"
  /\ call.i \notin bitmap
  /\ setPageInternal(call.i)
  /\ allocated_pages' = allocated_pages + 1
  /\ next_free_hint' = HintAfter(call.i)
  /\ Give(call.owner, {call.i}, call.i)
  /\ UNCHANGED reserved

ScanEnds == call.i + 1 >= MAX_PAGES

AllocPageAdvance ==
  /\ call.op = "allocPage"
  /\ call.i \in bitmap
  /\ ScanEnds => ~ call.wrapped
  /\ call' = IF ScanEnds THEN Scan(call.owner, 0, TRUE)
                         ELSE Scan(call.owner, call.i + 1, call.wrapped)
  /\ UNCHANGED <<bitmap, allocated_pages, next_free_hint, answer, held, reserved>>

FaultyAllocPageFail ==  \* gives up at the end of the bitmap without a second pass
  /\ call.op = "allocPage"
  /\ call.i \in bitmap
  /\ ScanEnds
  /\ ReturnNull

AllocPageFail ==
  /\ call.op = "allocPage"
  /\ call.i \in bitmap
  /\ ScanEnds /\ call.wrapped
  /\ ReturnNull

\* allocContiguousPages: one pass from frame 0 that looks for the first run.

AllocContiguous(o, count) ==
  /\ call = NoCall
  /\ call' = Search(o, count, 0, 0, 0)
  /\ UNCHANGED <<bitmap, allocated_pages, next_free_hint, answer, held, reserved>>

\* A count of zero or beyond the bitmap is turned away before the search.
RejectContiguous(count) ==
  /\ call = NoCall
  /\ count = 0 \/ count > MAX_PAGES
  /\ ReturnNull

FaultyRunStart == call.run_start  \* not set when a run begins
RunStart == IF call.run_len = 0 THEN call.i ELSE call.run_start

ContiguousTake ==
  /\ call.op = "allocContiguousPages"
  /\ call.i < MAX_PAGES
  /\ call.i \notin bitmap
  /\ call.run_len + 1 >= call.count
  /\ bitmap' = bitmap \cup Run(RunStart, call.count)
  /\ allocated_pages' = allocated_pages + call.count
  /\ next_free_hint' = HintAfter(RunStart + call.count - 1)
  /\ Give(call.owner, Run(RunStart, call.count), RunStart)
  /\ UNCHANGED reserved

ContiguousExtend ==
  /\ call.op = "allocContiguousPages"
  /\ call.i < MAX_PAGES
  /\ call.i \notin bitmap
  /\ call.run_len + 1 < call.count
  /\ call' = Search(call.owner, call.count, call.i + 1, RunStart, call.run_len + 1)
  /\ UNCHANGED <<bitmap, allocated_pages, next_free_hint, answer, held, reserved>>

FaultyContiguousReset ==  \* a marked frame does not end the run
  /\ call.op = "allocContiguousPages"
  /\ call.i < MAX_PAGES
  /\ call.i \in bitmap
  /\ call' = Search(call.owner, call.count, call.i + 1, call.run_start, call.run_len)
  /\ UNCHANGED <<bitmap, allocated_pages, next_free_hint, answer, held, reserved>>

ContiguousReset ==
  /\ call.op = "allocContiguousPages"
  /\ call.i < MAX_PAGES
  /\ call.i \in bitmap
  /\ call' = Search(call.owner, call.count, call.i + 1, call.run_start, 0)
  /\ UNCHANGED <<bitmap, allocated_pages, next_free_hint, answer, held, reserved>>

ContiguousFail ==
  /\ call.op = "allocContiguousPages"
  /\ call.i >= MAX_PAGES
  /\ ReturnNull

\* freePage: ignores what is not a frame and what is free already.

FaultyFreeable(p) == p < MAX_PAGES  \* no test for a double free
Freeable(p) == p < MAX_PAGES /\ p \in bitmap

Unmark(p) ==
  IF Freeable(p)
  THEN /\ freePageInternal(p)
       /\ allocated_pages' = IF allocated_pages > 0 THEN allocated_pages - 1 ELSE 0
       /\ next_free_hint' = IF p < next_free_hint THEN p ELSE next_free_hint
  ELSE UNCHANGED <<bitmap, allocated_pages, next_free_hint>>

\* A caller returns a frame it holds, or one it returned before and that is still
\* free, or an address that is no frame.  That nobody returns a frame another
\* component holds is what the callers owe the manager.
FreePage(o, p) ==
  /\ call = NoCall
  /\ p \in held[o] \/ p \notin bitmap
  /\ Unmark(p)
  /\ held' = [held EXCEPT ![o] = @ \ {p}]
  /\ UNCHANGED <<call, answer, reserved>>

\* freeContiguousPages: freePage on each frame of the run in turn.

FreeContiguous(o, first, count) ==
  /\ call = NoCall
  /\ Run(first, count) \subseteq held[o]
  /\ call' = Freeing(o, first, count, 0)
  /\ UNCHANGED <<bitmap, allocated_pages, next_free_hint, answer, held, reserved>>

FreeContiguousStep ==
  LET p == call.run_start + call.i
  IN  /\ call.op = "freeContiguousPages"
      /\ call.i < call.count
      /\ Unmark(p)
      /\ held' = [held EXCEPT ![call.owner] = @ \ {p}]
      /\ call' = Freeing(call.owner, call.run_start, call.count, call.i + 1)
      /\ UNCHANGED <<answer, reserved>>

FreeContiguousReturn ==
  /\ call.op = "freeContiguousPages"
  /\ call.i >= call.count
  /\ call' = NoCall
  /\ UNCHANGED <<bitmap, allocated_pages, next_free_hint, answer, held, reserved>>

------------------------------------------------------------------------------

\* What a caller starts, and what the manager's own loops do.
Start ==
  \E o \in Owner :
    \/ AllocPage(o)
    \/ \E count \in 1 .. MAX_PAGES : AllocContiguous(o, count)
    \/ \E count \in {0, MAX_PAGES + 1} : RejectContiguous(count)
    \/ \E p \in 0 .. NotAPage : FreePage(o, p)
    \/ \E first \in Page, count \in 1 .. MAX_PAGES : FreeContiguous(o, first, count)

Step ==
  \/ AllocPageTake \/ AllocPageAdvance \/ AllocPageFail
  \/ ContiguousTake \/ ContiguousExtend \/ ContiguousReset \/ ContiguousFail
  \/ FreeContiguousStep \/ FreeContiguousReturn

Next == Start \/ Step

Spec == Init /\ [][Next]_vars

\* A call that was entered keeps executing: nothing in the loops waits.
FairSpec == Spec /\ WF_vars(Step)

------------------------------------------------------------------------------
(***************************************************************************)
(* Properties.                                                             *)
(***************************************************************************)

Ops == {"none", "allocPage", "allocContiguousPages", "freeContiguousPages"}

\* Every variable has its type; in particular the hint and the scan index of
\* allocPage are indices of the bitmap, which pmm64.zig subscripts unchecked.
TypeOK ==
  /\ bitmap \in SUBSET Page
  /\ allocated_pages \in Nat
  /\ next_free_hint \in Page
  /\ call \in [op : Ops, owner : Owner \cup {NULL}, i : 0 .. MAX_PAGES,
               wrapped : BOOLEAN, count : 0 .. MAX_PAGES,
               run_start : 0 .. MAX_PAGES, run_len : 0 .. MAX_PAGES]
  /\ call.op # "none" => call.owner \in Owner /\ call.count >= 1
  /\ call.op = "allocPage" => call.i \in Page /\ call.count = 1
  /\ answer \in Page \cup {NULL}
  /\ held \in [Owner -> SUBSET Page]
  /\ reserved \in SUBSET Page

\* No frame has two owners, no owner has a frame of the BIOS, the kernel image or
\* a hole of the memory map, and the bitmap marks the frames of the two kinds and
\* no other: nothing is lost and nothing is handed out twice, whatever the order
\* of single and contiguous allocations, frees and double frees.
Ownership ==
  /\ \A o1, o2 \in Owner : o1 # o2 => held[o1] \cap held[o2] = {}
  /\ Held \cap reserved = {}
  /\ bitmap = reserved \cup Held

\* allocated_pages, the figure getStats reports, is the number of frames that are
\* out: the saturating decrement in freePage never hides an error.
CountExact == allocated_pages = Cardinality(Held)

\* What each loop of pmm64.zig knows at the top of an iteration: a scan of
\* allocPage that has wrapped has seen only marked frames since frame 0; the run
\* allocContiguousPages is growing is free, is as long as it can be and ends where
\* the scan stands, and no long enough run ends before it.
ScanKnows ==
  /\ call.op = "allocPage" /\ call.wrapped => Run(0, call.i) \subseteq bitmap
  /\ call.op = "allocContiguousPages" =>
       LET start == IF call.run_len = 0 THEN call.i ELSE call.run_start
       IN  /\ start + call.run_len = call.i
           /\ call.run_len < call.count
           /\ Run(start, call.run_len) \cap bitmap = {}
           /\ start > 0 => start - 1 \in bitmap
           /\ \A first \in Page :
                first < start => Run(first, call.count) \cap bitmap # {}
  /\ call.op = "freeContiguousPages" =>
       Run(call.run_start + call.i, call.count - call.i) \subseteq held[call.owner]

\* The manager implements the abstract allocator: a returned run is free and of
\* the asked length, and null means that no such run exists.
Allocator == INSTANCE PageAllocator WITH
  free <- Page \ bitmap,
  request <- IF call.op \in {"allocPage", "allocContiguousPages"}
             THEN [owner |-> call.owner, count |-> call.count]
             ELSE NULL

\* pmm64.zig's allocator is a page allocator in the sense of PageAllocator.
ImplementsAllocator == Allocator!Spec

\* Every call returns: a scan wraps at most once, a contiguous scan ends at the
\* last frame, a contiguous free at its count.
CallsReturn == call.op # "none" ~> call.op = "none"

==============================================================================
