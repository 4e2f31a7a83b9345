--------------------------------- MODULE Heap ---------------------------------
(***************************************************************************)
(* The kernel heap (heap64.zig): a list of blocks, each a header followed  *)
(* by its payload, searched first-fit, split on allocation, merged on      *)
(* free, and grown page by page at its end.                                *)
(*                                                                         *)
(* Memory is counted in units of 16 bytes from HEAP_START, to which the    *)
(* code rounds every length: a header is HEADER of them, the tag and the   *)
(* back pointer in front of an over-aligned payload are one.  `heap` maps  *)
(* the address of each header on the list to its fields.  Interrupts are   *)
(* off in alloc, free and resize, so a call is interleaved with no other;  *)
(* its loops and its recursion are steps.  The SipHash tag of a header is  *)
(* what it is computed from: it matches nothing else.                      *)
(***************************************************************************)
EXTENDS Integers, FiniteSets

CONSTANTS
  HEADER,        \* @sizeOf(Block)
  PAGE,          \* PAGE_SIZE
  HEAP_MAX,      \* where the virtual range ends
  Length,        \* lengths that callers ask for
  Alignment,     \* and alignments; 1 is what kmalloc asks for
  ResizeAligned, \* do callers resize buffers with a larger alignment, too?
  FreeInside,    \* and free a buffer again where a block for such a buffer begins now?
  NULL

ASSUME SizesAssumption ==
  /\ HEADER \in Nat \ {0}
  /\ PAGE \in Nat /\ PAGE > HEADER
  /\ HEAP_MAX \in Nat /\ HEAP_MAX >= PAGE /\ HEAP_MAX % PAGE = 0
ASSUME RequestsAssumption == Length \subseteq Nat \ {0} /\ Alignment \subseteq Nat \ {0}
ASSUME CallersAssumption == {ResizeAligned, FreeInside} \subseteq BOOLEAN
ASSUME NullAssumption ==
  /\ NULL \notin Int
  /\ NULL \notin [len : Length, align : Alignment]
  /\ NULL \notin [tag : Nat \X Nat \X Nat \X BOOLEAN, block : Nat]

BACK_PTR_OVERHEAD == 1
SMALLEST == 1   \* the payload a split has to leave

Addr == 0 .. HEAP_MAX - 1

VARIABLES
  heap,      \* the headers on the list: size, free, next, padding, tag
  heap_end,  \* memory is mapped below it
  marks,     \* the words in front of over-aligned payloads, by payload address
  request,   \* what alloc is looking for, or NULL
  merging,   \* freeInternal is in coalesceFreeBlocks
  answer,    \* what the last alloc returned
  live,      \* history: length of every buffer callers have, by its address
  freed      \* history: where they had one, if FreeInside matters

vars == <<heap, heap_end, marks, request, merging, answer, live, freed>>

Block(size, free, next, padding, tag) ==
  [size |-> size, free |-> free, next |-> next, padding |-> padding, tag |-> tag]

FreeBlock(size, next) == Block(size, TRUE, next, 0, NULL)

computeBlockTag(b, size, padding, free) == <<b, size, padding, free>>

AllocatedBlock(b, size, next, padding) ==
  Block(size, FALSE, next, padding, computeBlockTag(b, size, padding, FALSE))

\* The first page is there and one free block covers it.
Init ==
  /\ heap = [b \in {0} |-> FreeBlock(PAGE - HEADER, NULL)]
  /\ heap_end = PAGE
  /\ marks = [p \in Addr |-> NULL]
  /\ request = NULL
  /\ merging = FALSE
  /\ answer = NULL
  /\ live = << >>
  /\ freed = {}

------------------------------------------------------------------------------

Blocks == DOMAIN heap
Idle == request = NULL /\ ~ merging

alignUp(a, alignment) == ((a + alignment - 1) \div alignment) * alignment

\* Definitions named Faulty... are not the code's: each is a plausible mistake in the
\* definition after it, put in its place to see that a property notices.

\* What an allocation in block b leaves unused in front of the payload.
FaultyPadding(b, align) ==  \* counted from the header
  IF align <= 1 THEN 0
  ELSE alignUp(b + HEADER + BACK_PTR_OVERHEAD, align) - b
Padding(b, align) ==
  IF align <= 1 THEN 0
  ELSE alignUp(b + HEADER + BACK_PTR_OVERHEAD, align) - (b + HEADER)

\* Block b of h is taken with `used` units of its payload, padding included; the rest
\* becomes a free block if it is large enough for one.
FaultyCut(h, b, used, padding) ==  \* the split counts from the header
  LET n == b + used
  IN  IF h[b].size - used >= HEADER + SMALLEST
      THEN [x \in DOMAIN h \cup {n} |->
              IF x = b THEN AllocatedBlock(b, used, n, padding)
              ELSE IF x = n THEN FreeBlock(h[b].size - used - HEADER, h[b].next)
              ELSE h[x]]
      ELSE [h EXCEPT ![b] = AllocatedBlock(b, h[b].size, h[b].next, padding)]
Cut(h, b, used, padding) ==
  LET n == b + HEADER + used
  IN  IF h[b].size - used >= HEADER + SMALLEST
      THEN [x \in DOMAIN h \cup {n} |->
              IF x = b THEN AllocatedBlock(b, used, n, padding)
              ELSE IF x = n THEN FreeBlock(h[b].size - used - HEADER, h[b].next)
              ELSE h[x]]
      ELSE [h EXCEPT ![b] = AllocatedBlock(b, h[b].size, h[b].next, padding)]

\* Block b of h swallows the next one.
FaultyAbsorb(h, b) ==  \* the swallowed header is not gained
  [x \in DOMAIN h \ {h[b].next} |->
     IF x = b THEN Block(h[b].size + h[h[b].next].size, h[b].free, h[h[b].next].next,
                         h[b].padding, h[b].tag)
     ELSE h[x]]
Absorb(h, b) ==
  [x \in DOMAIN h \ {h[b].next} |->
     IF x = b THEN Block(h[b].size + HEADER + h[h[b].next].size, h[b].free,
                         h[h[b].next].next, h[b].padding, h[b].tag)
     ELSE h[x]]

------------------------------------------------------------------------------
(* alloc *)

Alloc(len, align) ==
  /\ Idle
  /\ request' = [len |-> len, align |-> align]
  /\ UNCHANGED <<heap, heap_end, marks, merging, answer, live, freed>>

Fits(b) ==
  /\ heap[b].free
  /\ heap[b].size >= Padding(b, request.align) + request.len

\* The list is in the order of the addresses: the first that fits is the lowest.
FirstFit(b) == Fits(b) /\ \A c \in Blocks : Fits(c) => b <= c

Take ==
  /\ request # NULL
  /\ \E b \in Blocks :
       LET padding == Padding(b, request.align)
           p == b + HEADER + padding
       IN  /\ FirstFit(b)
           /\ heap' = Cut(heap, b, padding + request.len, padding)
           /\ marks' = IF padding > 0
                       THEN [marks EXCEPT ![p] = [tag |-> heap'[b].tag, block |-> b]]
                       ELSE marks
           /\ live' = [q \in DOMAIN live \cup {p} |->
                         IF q = p THEN request.len ELSE live[q]]
           /\ answer' = p
  /\ request' = NULL
  /\ UNCHANGED <<heap_end, merging, freed>>

FaultyPagesNeeded(len) == len \div PAGE  \* headers and remainders forgotten
PagesNeeded(len) == alignUp(len + HEADER + BACK_PTR_OVERHEAD, PAGE) \div PAGE

\* Nothing fits, all pages are had: the last block grows, or a new one follows it, and
\* the search starts again.
Expand ==
  LET size == PagesNeeded(request.len) * PAGE
  IN  /\ request # NULL
      /\ \A b \in Blocks : ~ Fits(b)
      /\ heap_end + size <= HEAP_MAX
      /\ heap_end' = heap_end + size
      /\ \E last \in Blocks :
           LET n == last + HEADER + heap[last].size
           IN  /\ heap[last].next = NULL
               /\ heap' =
                    IF heap[last].free
                    THEN [heap EXCEPT ![last] = FreeBlock(@.size + size, NULL)]
                    ELSE [x \in Blocks \cup {n} |->
                            IF x = last THEN [heap[last] EXCEPT !.next = n]
                            ELSE IF x = n THEN FreeBlock(size - HEADER, NULL)
                            ELSE heap[x]]
      /\ UNCHANGED <<marks, request, merging, answer, live, freed>>

FaultyRoomFor(pages) == TRUE  \* the end of the range is not looked at
RoomFor(pages) == heap_end + pages * PAGE <= HEAP_MAX

\* The range or the physical memory ends, or a page cannot be mapped: the pages had so
\* far stay mapped, belonging to no block.
ExpandFails ==
  /\ request # NULL
  /\ \A b \in Blocks : ~ Fits(b)
  /\ \E pages \in 0 .. PagesNeeded(request.len) - 1 :
       /\ RoomFor(pages)
       /\ heap_end' = heap_end + pages * PAGE
  /\ request' = NULL
  /\ answer' = NULL
  /\ UNCHANGED <<heap, marks, merging, live, freed>>

------------------------------------------------------------------------------
(* free and resize *)

\* The back pointer is followed if it is a block whose payload could be p and whose tag
\* is repeated in front of p; else the header is where an unaligned one would be.
BackPointer(p) ==
  IF /\ marks[p] # NULL
     /\ marks[p].block \in Blocks
     /\ LET b == marks[p].block
        IN  /\ p >= b + HEADER /\ p < b + HEADER + heap[b].size + HEADER
            /\ heap[b].padding > 0
            /\ heap[b].tag = marks[p].tag
  THEN marks[p].block ELSE NULL

getBlockFromPayload(p) ==
  IF BackPointer(p) # NULL THEN BackPointer(p)
  ELSE IF p - HEADER \in Blocks THEN p - HEADER
  ELSE NULL

\* What freeInternal accepts: the tag belongs to the fields, the block is not free.  A
\* p with no header in front of it has no such tag there.
FaultyIntact(b) == TRUE  \* frees what it finds
Intact(b) ==
  /\ heap[b].tag = computeBlockTag(b, heap[b].size, heap[b].padding, heap[b].free)
  /\ ~ heap[b].free

Forget(p) ==
  /\ live' = [q \in DOMAIN live \ {p} |-> live[q]]
  /\ freed' = IF FreeInside /\ p \in DOMAIN live THEN freed \cup {p} ELSE freed

Freeable(p) ==
  LET b == getBlockFromPayload(p) IN b # NULL /\ Intact(b)

\* Callers free what they have, and by mistake what they had or never had.
Inside(p) == p - HEADER \in Blocks /\ heap[p - HEADER].padding > 0
MayFree(p) == Inside(p) /\ p \notin DOMAIN live => FreeInside /\ p \in freed

Free(p) ==
  /\ Idle /\ MayFree(p)
  /\ Freeable(p)
  /\ LET b == getBlockFromPayload(p)
     IN heap' = [heap EXCEPT ![b] = FreeBlock(@.size, @.next)]
  /\ merging' = TRUE
  /\ Forget(p)
  /\ UNCHANGED <<heap_end, marks, request, answer>>

FreeRefused(p) ==
  /\ Idle /\ MayFree(p)
  /\ ~ Freeable(p)
  /\ Forget(p)
  /\ UNCHANGED <<heap, heap_end, marks, request, merging, answer>>

Mergeable(b) == heap[b].free /\ heap[b].next # NULL /\ heap[heap[b].next].free

\* coalesceFreeBlocks goes through the list once and merges a free block with the free
\* blocks that follow it.
Coalesce ==
  /\ merging
  /\ \E b \in Blocks :
       /\ Mergeable(b)
       /\ \A c \in Blocks : Mergeable(c) => b <= c
       /\ heap' = Absorb(heap, b)
  /\ UNCHANGED <<heap_end, marks, request, merging, answer, live, freed>>

Coalesced ==
  /\ merging
  /\ \A b \in Blocks : ~ Mergeable(b)
  /\ merging' = FALSE
  /\ UNCHANGED <<heap, heap_end, marks, request, answer, live, freed>>

Resized(p, len) ==
  /\ live' = [live EXCEPT ![p] = len]
  /\ UNCHANGED <<heap_end, marks, request, merging, answer, freed>>

MayResize(p) == p \in DOMAIN live /\ (ResizeAligned \/ BackPointer(p) = NULL)

\* The length is compared with the size of the block, padding included.
FaultyShrink(p, len) ==  \* the tag stays that of the old size
  LET b == getBlockFromPayload(p)
  IN  /\ Idle /\ MayResize(p)
      /\ b # NULL
      /\ len <= heap[b].size
      /\ heap' = [Cut(heap, b, len, heap[b].padding) EXCEPT ![b].tag = heap[b].tag]
      /\ Resized(p, len)
Shrink(p, len) ==
  LET b == getBlockFromPayload(p)
  IN  /\ Idle /\ MayResize(p)
      /\ b # NULL
      /\ len <= heap[b].size
      /\ heap' = Cut(heap, b, len, heap[b].padding)
      /\ Resized(p, len)

GrowInPlace(p, len) ==
  LET b == getBlockFromPayload(p)
      n == heap[b].next
  IN  /\ Idle /\ MayResize(p)
      /\ b # NULL
      /\ len > heap[b].size
      /\ n # NULL /\ heap[n].free
      /\ heap[b].size + HEADER + heap[n].size >= len
      /\ heap' = Cut(Absorb(heap, b), b, len, heap[b].padding)
      /\ Resized(p, len)

------------------------------------------------------------------------------

Call ==
  \/ \E len \in Length, align \in Alignment : Alloc(len, align)
  \/ \E p \in Addr : Free(p) \/ FreeRefused(p)
  \/ \E p \in Addr, len \in Length : Shrink(p, len) \/ GrowInPlace(p, len)

Proceed == Take \/ Expand \/ ExpandFails \/ Coalesce \/ Coalesced

Next == Call \/ Proceed

Spec == Init /\ [][Next]_vars

\* A call that was made keeps executing.
FairSpec == Spec /\ WF_vars(Proceed)

------------------------------------------------------------------------------
(***************************************************************************)
(* Properties.                                                             *)
(***************************************************************************)

End(b) == b + HEADER + heap[b].size
Buffer(p) == p .. p + live[p] - 1

\* Every variable has its type; the heap never leaves its virtual range.
TypeOK ==
  /\ Blocks \subseteq Addr
  /\ \A b \in Blocks :
       /\ heap[b].size \in 1 .. HEAP_MAX
       /\ heap[b].free \in BOOLEAN
       /\ heap[b].next \in Blocks \cup {NULL}
       /\ heap[b].padding \in Nat
  /\ heap_end \in PAGE .. HEAP_MAX
  /\ DOMAIN marks = Addr
  /\ request \in [len : Length, align : Alignment] \cup {NULL}
  /\ merging \in BOOLEAN
  /\ answer \in Addr \cup {NULL}
  /\ DOMAIN live \cup freed \subseteq Addr

\* The blocks tile the heap in the order of the list, from its start to where the last
\* ends, in mapped memory, whatever was split, merged, resized or only half expanded.
Tiled ==
  /\ 0 \in Blocks
  /\ \A b \in Blocks :
       /\ End(b) <= heap_end
       /\ heap[b].next # NULL => heap[b].next = End(b)
       /\ heap[b].next = NULL => \A c \in Blocks : c <= b
       /\ \A c \in Blocks : b < c => End(b) <= c

\* Every buffer callers have lies inside the payload of a block of its own that is not
\* free, behind its padding; every such block is some buffer's: nothing leaks.
BuffersOwnBlocks ==
  /\ \A p \in DOMAIN live :
       \E b \in Blocks :
         /\ ~ heap[b].free
         /\ p = b + HEADER + heap[b].padding
         /\ p + live[p] <= End(b)
  /\ \A b \in Blocks : ~ heap[b].free => b + HEADER + heap[b].padding \in DOMAIN live

\* heap64.zig "so kfree can find the header regardless of alignment offset": the free
\* of a buffer is never refused, and finds the block the buffer lies in.
KfreeFindsHeader ==
  \A p \in DOMAIN live :
    Freeable(p) /\ p \in getBlockFromPayload(p) + HEADER .. End(getBlockFromPayload(p)) - 1

\* heap64.zig "Double-free detection": a free of what is nobody's buffer any more is
\* refused, whatever has become of its block.
StaleFreeRefused ==
  \A p \in Addr \ DOMAIN live : Idle /\ MayFree(p) => ~ Freeable(p)

Promise == INSTANCE MemoryAllocator WITH top <- heap_end

\* The heap is a memory allocator in the sense of MemoryAllocator.
KeepsPromise == Promise!Spec

\* Every call returns: the search that starts again after an expansion finds the block
\* sooner or later, also for large alignments, and merging ends.
CallsReturn == (request # NULL \/ merging) ~> Idle

==============================================================================
