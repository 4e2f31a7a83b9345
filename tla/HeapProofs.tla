------------------------------ MODULE HeapProofs ------------------------------
(***************************************************************************)
(* Proofs about the kernel heap, for every header, page and heap size and  *)
(* all lengths and alignments.  The layout of the list and the headers are *)
(* sound whatever callers do; that buffers own their blocks and are found  *)
(* again is proved of callers that neither resize over-aligned buffers nor *)
(* free one twice at the one spot where the code cannot notice: the two    *)
(* runs that expect a violation show what happens otherwise.               *)
(***************************************************************************)
EXTENDS Heap, TLAPS

Payload(b) == b + HEADER + heap[b].padding

\* What TypeOK and Tiled say of the list, of any list h below top.
Layout(h, top) ==
  /\ 0 \in DOMAIN h /\ DOMAIN h \subseteq Nat
  /\ \A b \in DOMAIN h :
       /\ h[b].size \in Nat \ {0}
       /\ h[b].free \in BOOLEAN
       /\ h[b].next \in DOMAIN h \cup {NULL}
       /\ h[b].padding \in Nat
       /\ b + HEADER + h[b].size <= top
       /\ h[b].next # NULL => h[b].next = b + HEADER + h[b].size
       /\ h[b].next = NULL => \A c \in DOMAIN h : c <= b
       /\ \A c \in DOMAIN h : b < c => b + HEADER + h[b].size <= c

\* A free block has no padding; the tag of one that is not free belongs to its fields.
Header(h, b) ==
  /\ h[b] = Block(h[b].size, h[b].free, h[b].next, h[b].padding, h[b].tag)
  /\ h[b].free => h[b].padding = 0
  /\ ~ h[b].free => h[b].tag = computeBlockTag(b, h[b].size, h[b].padding, FALSE)

\* The variables besides the list.
Range ==
  /\ heap_end \in PAGE .. HEAP_MAX
  /\ DOMAIN marks = Addr
  /\ request \in [len : Length, align : Alignment] \cup {NULL}
  /\ merging \in BOOLEAN
  /\ answer \in Addr \cup {NULL}
  /\ DOMAIN live \cup freed \subseteq Addr

\* Whatever callers do.
Structure ==
  /\ Layout(heap, heap_end)
  /\ \A b \in Blocks : Header(heap, b)
  /\ Range

\* A mark tells the block it was made for by where it stands, and an over-aligned buffer
\* has the mark of its block.
MarksSound ==
  /\ \A p \in Addr : marks[p] # NULL =>
       \E size \in Nat :
         marks[p].tag = computeBlockTag(marks[p].block, size, p - HEADER - marks[p].block, FALSE)
  /\ \A b \in Blocks : ~ heap[b].free /\ heap[b].padding > 0 =>
       marks[Payload(b)] = [tag |-> heap[b].tag, block |-> b]

\* The padding leaves room for the buffer.
PaddingInside == \A b \in Blocks : ~ heap[b].free => heap[b].padding < heap[b].size

LiveSound == live = [p \in DOMAIN live |-> live[p]] /\ \A p \in DOMAIN live : live[p] \in Nat \ {0}

\* Of callers that keep to the rules.
IInv == Structure /\ BuffersOwnBlocks /\ PaddingInside /\ MarksSound /\ LiveSound

CallersKeepRules == ~ ResizeAligned /\ ~ FreeInside

------------------------------------------------------------------------------
(* Lengths and alignments. *)

\* alignUp gives the next multiple.
LEMMA AlignUp ==
  ASSUME NEW a \in Nat, NEW alignment \in Nat \ {0}
  PROVE  /\ alignUp(a, alignment) \in Nat
         /\ alignUp(a, alignment) >= a
         /\ alignUp(a, alignment) % alignment = 0
         /\ (alignUp(a, alignment) \div alignment) * alignment = alignUp(a, alignment)
<1> DEFINE q == (a + alignment - 1) \div alignment
<1>1. q \in Nat /\ q * alignment >= a
  OBVIOUS
<1> HIDE DEF q
<1>2. q * alignment \in Nat /\ (q * alignment) % alignment = 0 /\ (q * alignment) \div alignment = q
  BY <1>1
<1> QED
  BY <1>1, <1>2 DEF alignUp, q

\* Behind its padding a payload has the alignment asked for.
LEMMA PaddingAligns ==
  ASSUME NEW b \in Nat, NEW align \in Nat \ {0}
  PROVE  Padding(b, align) \in Nat /\ (b + HEADER + Padding(b, align)) % align = 0
<1> DEFINE a == b + HEADER + BACK_PTR_OVERHEAD
<1>1. a \in Nat /\ b + HEADER \in Nat /\ a = b + HEADER + 1
  BY SizesAssumption DEF BACK_PTR_OVERHEAD
<1>2. CASE align <= 1
  <2>1. Padding(b, align) = 0 /\ align = 1
    BY <1>2 DEF Padding
  <2> QED
    BY <1>1, <2>1
<1>3. CASE align > 1
  <2>1. Padding(b, align) = alignUp(a, align) - (b + HEADER)
    BY <1>3 DEF Padding
  <2> HIDE DEF a
  <2>2. alignUp(a, align) \in Nat /\ alignUp(a, align) >= a /\ alignUp(a, align) % align = 0
    BY <1>1, AlignUp
  <2>3. Padding(b, align) \in Nat /\ b + HEADER + Padding(b, align) = alignUp(a, align)
    BY <1>1, <2>1, <2>2, SizesAssumption
  <2> QED
    BY <2>2, <2>3
<1> QED
  BY <1>2, <1>3

\* An expansion for a request has room for a header and the request.
LEMMA ExpansionIsEnough ==
  ASSUME NEW len \in Nat
  PROVE  PagesNeeded(len) * PAGE \in Nat /\ PagesNeeded(len) * PAGE >= len + HEADER + 1
<1>1. len + HEADER + BACK_PTR_OVERHEAD \in Nat /\ PAGE \in Nat \ {0}
  BY SizesAssumption DEF BACK_PTR_OVERHEAD
<1> QED
  BY <1>1, AlignUp DEF PagesNeeded, BACK_PTR_OVERHEAD

------------------------------------------------------------------------------
(* Splitting and merging. *)

\* A cut leaves the tiling as it is; besides the block it cuts, which is not free any more,
\* it only makes a free block.
LEMMA CutLayout ==
  ASSUME NEW h, NEW top \in Nat, Layout(h, top), NEW b \in DOMAIN h,
         NEW used \in Nat \ {0}, used <= h[b].size, NEW padding \in Nat
  PROVE  /\ Layout(Cut(h, b, used, padding), top)
         /\ DOMAIN h \subseteq DOMAIN Cut(h, b, used, padding)
         /\ \A c \in DOMAIN h \ {b} : Cut(h, b, used, padding)[c] = h[c]
         /\ ~ Cut(h, b, used, padding)[b].free
         /\ Cut(h, b, used, padding)[b].padding = padding
         /\ Cut(h, b, used, padding)[b].size >= used
         /\ Header(Cut(h, b, used, padding), b)
         /\ \A c \in DOMAIN Cut(h, b, used, padding) \ DOMAIN h :
              Cut(h, b, used, padding)[c].free /\ Header(Cut(h, b, used, padding), c)
<1> DEFINE n == b + HEADER + used
           g == Cut(h, b, used, padding)
<1>0. HEADER \in Nat \ {0} /\ SMALLEST = 1 /\ NULL \notin Int
  BY SizesAssumption, NullAssumption DEF SMALLEST
<1>1. /\ b \in Nat /\ h[b].size \in Nat \ {0} /\ h[b].next \in DOMAIN h \cup {NULL}
      /\ b + HEADER + h[b].size <= top
      /\ DOMAIN h \subseteq Nat
  BY DEF Layout
<1>2. CASE h[b].size - used >= HEADER + SMALLEST
  <2>1. g = [x \in DOMAIN h \cup {n} |->
              IF x = b THEN AllocatedBlock(b, used, n, padding)
              ELSE IF x = n THEN FreeBlock(h[b].size - used - HEADER, h[b].next)
              ELSE h[x]]
    BY <1>2 DEF Cut
  <2>2. n \in Nat /\ b < n /\ n < b + HEADER + h[b].size /\ n \notin DOMAIN h
    BY <1>0, <1>1, <1>2 DEF Layout
  <2>3. /\ DOMAIN g = DOMAIN h \cup {n}
        /\ g[b] = AllocatedBlock(b, used, n, padding)
        /\ g[n] = FreeBlock(h[b].size - used - HEADER, h[b].next)
        /\ \A c \in DOMAIN h \ {b} : g[c] = h[c]
    <3> HIDE DEF n, g
    <3> QED
      BY <2>1, <2>2
  <2>4. /\ g[b].size = used /\ g[b].free = FALSE /\ g[b].next = n /\ g[b].padding = padding
        /\ g[b].tag = computeBlockTag(b, used, padding, FALSE)
        /\ g[n].size = h[b].size - used - HEADER /\ g[n].free = TRUE
        /\ g[n].next = h[b].next /\ g[n].padding = 0
    BY <2>3 DEF AllocatedBlock, FreeBlock, Block
  <2> DEFINE s == h[b].size
  <2>5. /\ s \in Nat /\ n = b + HEADER + used /\ n + HEADER + g[n].size = b + HEADER + s
        /\ g[n].size \in Nat \ {0}
    BY <1>0, <1>1, <1>2, <2>4
  <2> HIDE DEF n, g, s
  <2>6. Layout(g, top)
    <3>1. 0 \in DOMAIN g /\ DOMAIN g \subseteq Nat
      BY <2>2, <2>3 DEF Layout
    <3>2. ASSUME NEW c \in DOMAIN g
          PROVE  /\ g[c].size \in Nat \ {0} /\ g[c].free \in BOOLEAN
                 /\ g[c].next \in DOMAIN g \cup {NULL} /\ g[c].padding \in Nat
                 /\ c + HEADER + g[c].size <= top
      <4>1. CASE c = b
        <5>1. b + HEADER + used <= top
          BY <1>0, <1>1
        <5>2. n \in DOMAIN g
          BY <2>3
        <5> QED
          BY <2>4, <4>1, <5>1, <5>2
      <4>2. CASE c = n
        <5>1. n + HEADER + g[n].size <= top
          BY <1>1, <2>5 DEF s
        <5>2. h[b].next \in DOMAIN g \cup {NULL}
          BY <1>1, <2>3
        <5>3. g[n].size \in Nat \ {0}
          BY <2>5
        <5>4. g[n].free \in BOOLEAN /\ g[n].padding \in Nat
          <6>1. g[n].padding \in Nat
            BY <2>4
          <6>2. g[n].free \in BOOLEAN
            BY <2>3 DEF FreeBlock, Block
          <6> QED
            BY <6>1, <6>2
        <5>5. g[n].next \in DOMAIN g \cup {NULL}
          BY <2>4, <5>2
        <5> QED
          BY <4>2, <5>1, <5>3, <5>4, <5>5
      <4>3. CASE c \in DOMAIN h \ {b}
        BY <2>3, <4>3 DEF Layout
      <4> QED
        BY <2>3, <4>1, <4>2, <4>3
    <3>3. ASSUME NEW c \in DOMAIN g, g[c].next # NULL
          PROVE  g[c].next = c + HEADER + g[c].size
      BY <1>0, <1>1, <2>2, <2>3, <2>4, <2>5, <3>3 DEF Layout, s
    <3>4. ASSUME NEW c \in DOMAIN g, g[c].next = NULL, NEW d \in DOMAIN g
          PROVE  d <= c
      BY <1>0, <1>1, <2>2, <2>3, <2>4, <2>5, <3>4 DEF Layout, s
    <3>5. ASSUME NEW c \in DOMAIN g, NEW d \in DOMAIN g, c < d
          PROVE  c + HEADER + g[c].size <= d
      BY <1>0, <1>1, <2>2, <2>3, <2>4, <2>5, <3>5 DEF Layout, s
    <3> QED
      BY <3>1, <3>2, <3>3, <3>4, <3>5 DEF Layout
  <2>7. Header(g, b) /\ Header(g, n)
    <3>1. g[b] = Block(g[b].size, g[b].free, g[b].next, g[b].padding, g[b].tag)
      BY <2>3 DEF AllocatedBlock, Block
    <3>2. g[n] = Block(g[n].size, g[n].free, g[n].next, g[n].padding, g[n].tag)
      BY <2>3 DEF FreeBlock, Block
    <3> QED
      BY <2>4, <3>1, <3>2 DEF Header
  <2>8. g[b].size >= used
    BY <2>4
  <2> QED
    BY <2>3, <2>4, <2>6, <2>7, <2>8 DEF g
<1>3. CASE ~ (h[b].size - used >= HEADER + SMALLEST)
  <2>1. g = [h EXCEPT ![b] = AllocatedBlock(b, h[b].size, h[b].next, padding)]
    BY <1>3 DEF Cut
  <2> HIDE DEF g, n
  <2>2. /\ DOMAIN g = DOMAIN h
        /\ g[b] = AllocatedBlock(b, h[b].size, h[b].next, padding)
        /\ \A c \in DOMAIN h \ {b} : g[c] = h[c]
    BY <2>1
  <2>3. /\ g[b].size = h[b].size /\ g[b].free = FALSE /\ g[b].next = h[b].next
        /\ g[b].padding = padding
        /\ g[b].tag = computeBlockTag(b, g[b].size, padding, FALSE)
    BY <2>2 DEF AllocatedBlock, Block
  <2>4. \A c \in DOMAIN h : g[c].size = h[c].size /\ g[c].next = h[c].next
    BY <2>2, <2>3
  <2>5. \A c \in DOMAIN h : g[c].free \in BOOLEAN /\ g[c].padding \in Nat
    BY <2>2, <2>3 DEF Layout
  <2>6. Layout(g, top)
    BY <2>2, <2>4, <2>5 DEF Layout
  <2>7. Header(g, b)
    <3>1. g[b] = Block(g[b].size, g[b].free, g[b].next, g[b].padding, g[b].tag)
      BY <2>2 DEF AllocatedBlock, Block
    <3> QED
      BY <2>3, <3>1 DEF Header
  <2> QED
    BY <2>2, <2>3, <2>6, <2>7 DEF g
<1> QED
  BY <1>2, <1>3

\* Merging a block with the next keeps the tiling; the other headers stay as they are.
LEMMA AbsorbLayout ==
  ASSUME NEW h, NEW top \in Nat, Layout(h, top), NEW b \in DOMAIN h, h[b].next # NULL
  PROVE  /\ h[b].next \in DOMAIN h \ {b}
         /\ Layout(Absorb(h, b), top)
         /\ DOMAIN Absorb(h, b) = DOMAIN h \ {h[b].next}
         /\ \A c \in DOMAIN Absorb(h, b) \ {b} : Absorb(h, b)[c] = h[c]
         /\ Absorb(h, b)[b].size = h[b].size + HEADER + h[h[b].next].size
         /\ Absorb(h, b)[b].free = h[b].free
         /\ Absorb(h, b)[b].padding = h[b].padding
<1> DEFINE n == h[b].next
           g == Absorb(h, b)
<1>0. HEADER \in Nat \ {0} /\ NULL \notin Int
  BY SizesAssumption, NullAssumption
<1>1. /\ b \in Nat /\ h[b].size \in Nat \ {0} /\ n = b + HEADER + h[b].size /\ n \in DOMAIN h
      /\ n \in Nat /\ h[n].size \in Nat \ {0} /\ b < n /\ n # 0
      /\ n + HEADER + h[n].size <= top
  BY <1>0 DEF Layout
<1>2. g = [x \in DOMAIN h \ {n} |->
            IF x = b THEN Block(h[b].size + HEADER + h[n].size, h[b].free, h[n].next,
                                h[b].padding, h[b].tag)
            ELSE h[x]]
  BY DEF Absorb
<1> HIDE DEF g, n
<1>3. /\ DOMAIN g = DOMAIN h \ {n} /\ b \in DOMAIN g
      /\ \A c \in DOMAIN g \ {b} : g[c] = h[c]
      /\ g[b] = Block(h[b].size + HEADER + h[n].size, h[b].free, h[n].next,
                      h[b].padding, h[b].tag)
  BY <1>1, <1>2
<1>4. /\ g[b].size = h[b].size + HEADER + h[n].size /\ g[b].free = h[b].free
      /\ g[b].next = h[n].next /\ g[b].padding = h[b].padding
  BY <1>3 DEF Block
<1>5. /\ g[b].size \in Nat \ {0}
      /\ b + HEADER + g[b].size = n + HEADER + h[n].size
  BY <1>0, <1>1, <1>4
<1>6. \A c \in DOMAIN g : c < n => c <= b
  BY <1>0, <1>1, <1>3 DEF Layout
<1>7. Layout(g, top)
  <2>1. 0 \in DOMAIN g /\ DOMAIN g \subseteq Nat
    BY <1>1, <1>3 DEF Layout
  <2>2. ASSUME NEW c \in DOMAIN g
        PROVE  /\ g[c].size \in Nat \ {0} /\ g[c].free \in BOOLEAN /\ g[c].padding \in Nat
               /\ c + HEADER + g[c].size <= top
    <3>1. CASE c = b
      BY <1>1, <1>4, <1>5, <3>1 DEF Layout
    <3>2. CASE c # b
      BY <1>3, <3>2 DEF Layout
    <3> QED
      BY <3>1, <3>2
  <2>3. ASSUME NEW c \in DOMAIN g
        PROVE  g[c].next \in DOMAIN g \cup {NULL}
    <3>1. CASE c = b
      <4>1. h[n].next # NULL => h[n].next = n + HEADER + h[n].size
        BY <1>1 DEF Layout
      <4>2. h[n].next # n
        BY <1>0, <1>1, <4>1
      <4> QED
        BY <1>1, <1>3, <1>4, <3>1, <4>2 DEF Layout
    <3>2. CASE c # b
      <4>1. h[c].next \in DOMAIN h \cup {NULL} /\ g[c] = h[c]
        BY <1>3, <3>2 DEF Layout
      <4>2. h[c].next # n
        <5>1. SUFFICES ASSUME n = c + HEADER + h[c].size PROVE FALSE
          BY <1>0, <1>1, <1>3 DEF Layout
        <5>2. h[c].size \in Nat \ {0} /\ c \in Nat
          BY <1>3 DEF Layout
        <5>3. c < n
          BY <1>0, <5>1, <5>2
        <5>4. c < b
          BY <1>1, <1>6, <3>2, <5>2, <5>3
        <5>5. c + HEADER + h[c].size <= b
          BY <1>3, <5>4 DEF Layout
        <5> QED
          BY <1>1, <5>1, <5>2, <5>5
      <4> QED
        BY <1>3, <4>1, <4>2
    <3> QED
      BY <3>1, <3>2
  <2>4. ASSUME NEW c \in DOMAIN g, g[c].next # NULL
        PROVE  g[c].next = c + HEADER + g[c].size
    BY <1>1, <1>3, <1>4, <1>5, <2>4 DEF Layout
  <2>5. ASSUME NEW c \in DOMAIN g, g[c].next = NULL, NEW d \in DOMAIN g
        PROVE  d <= c
    <3>1. CASE c = b
      <4>1. d <= n /\ d # n /\ d \in Nat
        BY <1>1, <1>3, <1>4, <2>5, <3>1 DEF Layout
      <4> QED
        BY <1>1, <1>6, <3>1, <4>1
    <3>2. CASE c # b
      BY <1>3, <2>5, <3>2 DEF Layout
    <3> QED
      BY <3>1, <3>2
  <2>6. ASSUME NEW c \in DOMAIN g, NEW d \in DOMAIN g, c < d
        PROVE  c + HEADER + g[c].size <= d
    <3>1. CASE c = b
      <4>1. n <= d /\ d # n /\ d \in Nat
        BY <1>0, <1>1, <1>3, <2>6, <3>1 DEF Layout
      <4>2. n + HEADER + h[n].size <= d
        BY <1>1, <1>3, <4>1 DEF Layout
      <4> QED
        BY <1>5, <3>1, <4>2
    <3>2. CASE c # b
      BY <1>3, <2>6, <3>2 DEF Layout
    <3> QED
      BY <3>1, <3>2
  <2> QED
    BY <2>1, <2>2, <2>3, <2>4, <2>5, <2>6 DEF Layout
<1> QED
  BY <1>1, <1>3, <1>4, <1>7 DEF g, n

\* Cut writes the header of the block it cuts and of the one it makes; no other changes.
LEMMA CutHeaders ==
  ASSUME NEW h, NEW top \in Nat, Layout(h, top), NEW b \in DOMAIN h,
         NEW used \in Nat \ {0}, used <= h[b].size, NEW padding \in Nat,
         \A c \in DOMAIN h \ {b} : Header(h, c)
  PROVE  \A c \in DOMAIN Cut(h, b, used, padding) : Header(Cut(h, b, used, padding), c)
<1> DEFINE g == Cut(h, b, used, padding)
<1>1. /\ \A c \in DOMAIN h \ {b} : g[c] = h[c]
      /\ Header(g, b)
      /\ \A c \in DOMAIN g \ DOMAIN h : Header(g, c)
  BY CutLayout
<1> HIDE DEF g
<1>2. ASSUME NEW c \in DOMAIN h \ {b} PROVE Header(g, c)
  BY <1>1 DEF Header
<1> QED
  BY <1>1, <1>2 DEF g

\* What Expand makes of the list: the last block grows, or a block of what is new follows.
Grown(h, last, size) ==
  LET n == last + HEADER + h[last].size
  IN  IF h[last].free
      THEN [h EXCEPT ![last] = FreeBlock(@.size + size, NULL)]
      ELSE [x \in DOMAIN h \cup {n} |->
              IF x = last THEN [h[last] EXCEPT !.next = n]
              ELSE IF x = n THEN FreeBlock(size - HEADER, NULL)
              ELSE h[x]]

\* It keeps the tiling, and every block that is not free keeps its place and its header but
\* for the link.
LEMMA GrownLayout ==
  ASSUME NEW h, NEW top \in Nat, Layout(h, top), NEW last \in DOMAIN h, h[last].next = NULL,
         NEW size \in Nat, size > HEADER,
         \A c \in DOMAIN h : Header(h, c)
  PROVE  /\ Layout(Grown(h, last, size), top + size)
         /\ \A c \in DOMAIN Grown(h, last, size) : Header(Grown(h, last, size), c)
         /\ DOMAIN h \subseteq DOMAIN Grown(h, last, size)
         /\ \A c \in DOMAIN h :
              /\ Grown(h, last, size)[c].free = h[c].free
              /\ ~ h[c].free => /\ Grown(h, last, size)[c].size = h[c].size
                                /\ Grown(h, last, size)[c].padding = h[c].padding
                                /\ Grown(h, last, size)[c].tag = h[c].tag
         /\ \A c \in DOMAIN Grown(h, last, size) \ DOMAIN h : Grown(h, last, size)[c].free
<1> DEFINE n == last + HEADER + h[last].size
           g == Grown(h, last, size)
<1>g. g = IF h[last].free
          THEN [h EXCEPT ![last] = FreeBlock(@.size + size, NULL)]
          ELSE [x \in DOMAIN h \cup {n} |->
                  IF x = last THEN [h[last] EXCEPT !.next = n]
                  ELSE IF x = n THEN FreeBlock(size - HEADER, NULL)
                  ELSE h[x]]
  BY DEF Grown
<1>n. n = last + HEADER + h[last].size
  OBVIOUS
<1> HIDE DEF g, n
<1>0. HEADER \in Nat \ {0} /\ NULL \notin Int
  BY SizesAssumption, NullAssumption
<1>1. /\ last \in Nat /\ h[last].size \in Nat \ {0} /\ n <= top
      /\ n \in Nat /\ last < n
      /\ \A c \in DOMAIN h : c <= last /\ c \in Nat
  BY <1>0, <1>n DEF Layout
<1>2. CASE h[last].free
  <2>1. g = [h EXCEPT ![last] = FreeBlock(h[last].size + size, NULL)]
    BY <1>2, <1>g
  <2>2. /\ DOMAIN g = DOMAIN h /\ g[last] = FreeBlock(h[last].size + size, NULL)
        /\ \A c \in DOMAIN h \ {last} : g[c] = h[c]
    BY <2>1
  <2>3. /\ g[last].size = h[last].size + size /\ g[last].next = NULL /\ g[last].padding = 0
    BY <2>2 DEF FreeBlock, Block
  <2>4. g[last].free = TRUE /\ g[last].free \in BOOLEAN
    BY <2>2 DEF FreeBlock, Block
  <2>5. Layout(g, top + size)
    <3>1. ASSUME NEW c \in DOMAIN g
          PROVE  /\ g[c].size \in Nat \ {0} /\ g[c].free \in BOOLEAN
                 /\ g[c].next \in DOMAIN g \cup {NULL} /\ g[c].padding \in Nat
                 /\ c + HEADER + g[c].size <= top + size
      <4>1. CASE c = last
        BY <1>0, <1>1, <1>n, <2>3, <2>4, <4>1
      <4>2. CASE c # last
        BY <1>0, <2>2, <4>2 DEF Layout
      <4> QED
        BY <4>1, <4>2
    <3>2. ASSUME NEW c \in DOMAIN g
          PROVE  /\ g[c].next # NULL => g[c].next = c + HEADER + g[c].size
                 /\ g[c].next = NULL => \A d \in DOMAIN g : d <= c
                 /\ \A d \in DOMAIN g : c < d => c + HEADER + g[c].size <= d
      <4>1. CASE c = last
        BY <1>1, <2>2, <2>3, <4>1
      <4>2. CASE c # last
        BY <2>2, <4>2 DEF Layout
      <4> QED
        BY <4>1, <4>2
    <3>3. 0 \in DOMAIN g /\ DOMAIN g \subseteq Nat
      BY <2>2 DEF Layout
    <3> QED
      BY <3>1, <3>2, <3>3 DEF Layout
  <2>6. ASSUME NEW c \in DOMAIN g PROVE Header(g, c)
    <3>1. CASE c = last
      <4>1. g[c] = Block(g[c].size, g[c].free, g[c].next, g[c].padding, g[c].tag)
        BY <2>2, <3>1 DEF FreeBlock, Block
      <4> QED
        BY <2>3, <2>4, <3>1, <4>1 DEF Header
    <3>2. CASE c # last
      <4>1. Header(h, c) /\ g[c] = h[c]
        BY <2>2, <3>2
      <4> QED
        BY <4>1 DEF Header
    <3> QED
      BY <3>1, <3>2
  <2> QED
    BY <1>2, <2>2, <2>4, <2>5, <2>6 DEF g
<1>3. CASE ~ h[last].free
  <2>1. g = [x \in DOMAIN h \cup {n} |->
                     IF x = last THEN [h[last] EXCEPT !.next = n]
                     ELSE IF x = n THEN FreeBlock(size - HEADER, NULL)
                     ELSE h[x]]
    BY <1>3, <1>g
  <2>2. /\ DOMAIN g = DOMAIN h \cup {n} /\ n \notin DOMAIN h /\ n # last
        /\ g[last] = [h[last] EXCEPT !.next = n]
        /\ g[n] = FreeBlock(size - HEADER, NULL)
        /\ \A c \in DOMAIN h \ {last} : g[c] = h[c]
    BY <1>1, <2>1
  <2>3. /\ g[n].size = size - HEADER /\ g[n].next = NULL /\ g[n].padding = 0
        /\ g[n].free = TRUE /\ g[n].free \in BOOLEAN
    BY <2>2 DEF FreeBlock, Block
  <2>4. /\ g[last].size = h[last].size /\ g[last].free = h[last].free /\ g[last].next = n
        /\ g[last].padding = h[last].padding /\ g[last].tag = h[last].tag
        /\ g[last] = Block(g[last].size, g[last].free, g[last].next, g[last].padding, g[last].tag)
    <3>1. h[last] = Block(h[last].size, h[last].free, h[last].next, h[last].padding, h[last].tag)
      BY DEF Header
    <3> QED
      BY <2>2, <3>1 DEF Block
  <2>5. Layout(g, top + size)
    <3>1. ASSUME NEW c \in DOMAIN g
          PROVE  /\ g[c].size \in Nat \ {0} /\ g[c].free \in BOOLEAN
                 /\ g[c].next \in DOMAIN g \cup {NULL} /\ g[c].padding \in Nat
                 /\ c + HEADER + g[c].size <= top + size
      <4>1. CASE c = last
        <5>1. c + HEADER + g[c].size <= top + size
          BY <1>0, <1>1, <1>n, <2>4, <4>1
        <5>2. g[c].free \in BOOLEAN /\ g[c].size \in Nat \ {0} /\ g[c].padding \in Nat
          BY <2>4, <4>1 DEF Layout
        <5> QED
          BY <2>2, <2>4, <4>1, <5>1, <5>2
      <4>2. CASE c = n
        <5>1. g[n].size \in Nat \ {0} /\ n + HEADER + g[n].size <= top + size
          BY <1>0, <1>1, <2>3
        <5> QED
          BY <2>3, <4>2, <5>1
      <4>3. CASE c \in DOMAIN h \ {last}
        BY <1>0, <2>2, <4>3 DEF Layout
      <4> QED
        BY <2>2, <4>1, <4>2, <4>3
    <3>2. ASSUME NEW c \in DOMAIN g
          PROVE  /\ g[c].next # NULL => g[c].next = c + HEADER + g[c].size
                 /\ g[c].next = NULL => \A d \in DOMAIN g : d <= c
                 /\ \A d \in DOMAIN g : c < d => c + HEADER + g[c].size <= d
      <4>1. CASE c = last
        <5>1. g[c].next = n /\ n = c + HEADER + g[c].size
          BY <1>n, <2>4, <4>1
        <5>2. \A d \in DOMAIN g : c < d => d = n
          BY <1>1, <2>2, <4>1
        <5>3. n # NULL /\ n \in Nat
          BY <1>0, <1>1
        <5> QED
          BY <5>1, <5>2, <5>3
      <4>2. CASE c = n
        BY <1>1, <2>2, <2>3, <4>2
      <4>3. CASE c \in DOMAIN h \ {last}
        <5>1. c < last /\ last \in Nat
          BY <1>1, <4>3
        <5>2. c + HEADER + h[c].size <= last /\ c + HEADER + h[c].size \in Nat /\ h[c].next # NULL
          BY <1>0, <1>1, <4>3, <5>1 DEF Layout
        <5> QED
          BY <1>1, <2>2, <4>3, <5>2 DEF Layout
      <4> QED
        BY <2>2, <4>1, <4>2, <4>3
    <3>3. 0 \in DOMAIN g /\ DOMAIN g \subseteq Nat
      BY <1>1, <2>2 DEF Layout
    <3> QED
      BY <3>1, <3>2, <3>3 DEF Layout
  <2>6. ASSUME NEW c \in DOMAIN g PROVE Header(g, c)
    <3>1. CASE c = last
      BY <1>3, <2>4, <3>1 DEF Header
    <3>2. CASE c = n
      <4>1. g[c] = Block(g[c].size, g[c].free, g[c].next, g[c].padding, g[c].tag)
        BY <2>2, <3>2 DEF FreeBlock, Block
      <4> QED
        BY <2>3, <3>2, <4>1 DEF Header
    <3>3. CASE c \in DOMAIN h \ {last}
      <4>1. Header(h, c) /\ g[c] = h[c]
        BY <2>2, <3>3
      <4> QED
        BY <4>1 DEF Header
    <3> QED
      BY <2>2, <3>1, <3>2, <3>3
  <2> QED
    BY <2>2, <2>3, <2>4, <2>5, <2>6 DEF g
<1> QED
  BY <1>2, <1>3

------------------------------------------------------------------------------
(* What each step does to the list. *)

\* One free block covers the first page.
LEMMA InitStructure == Init => Structure
<1> SUFFICES ASSUME Init PROVE Structure
  OBVIOUS
<1>0. HEADER \in Nat \ {0} /\ PAGE \in Nat /\ PAGE > HEADER /\ HEAP_MAX \in Nat /\ HEAP_MAX >= PAGE
  BY SizesAssumption
<1>1. /\ DOMAIN heap = {0} /\ heap[0] = Block(PAGE - HEADER, TRUE, NULL, 0, NULL)
  BY DEF Init, FreeBlock
<1>2. /\ heap[0].size = PAGE - HEADER /\ heap[0].next = NULL /\ heap[0].padding = 0
      /\ heap[0].free = TRUE /\ heap[0].free \in BOOLEAN
      /\ heap[0] = Block(heap[0].size, heap[0].free, heap[0].next, heap[0].padding, heap[0].tag)
  BY <1>1 DEF Block
<1>3. Layout(heap, heap_end)
  BY <1>0, <1>1, <1>2 DEF Init, Layout
<1>4. \A b \in Blocks : Header(heap, b)
  BY <1>1, <1>2 DEF Blocks, Header
<1>5. heap_end \in PAGE .. HEAP_MAX
  BY <1>0 DEF Init
<1>6. DOMAIN marks = Addr
  BY DEF Init
<1>7. DOMAIN live \cup freed = {}
  BY DEF Init
<1>8. Range
  BY <1>5, <1>6, <1>7 DEF Init, Range
<1> QED
  BY <1>3, <1>4, <1>8 DEF Structure

\* The block taken was free, is large enough behind a padding that aligns the payload, and
\* no other block changes.
LEMMA TakeDoes ==
  ASSUME Structure, Take
  PROVE  \E b \in Blocks, padding \in Nat, p \in Addr :
           /\ p = b + HEADER + padding /\ p % request.align = 0
           /\ request.len \in Nat \ {0} /\ p + request.len <= b + HEADER + heap'[b].size
           /\ heap[b].free /\ ~ heap'[b].free /\ heap'[b].padding = padding
           /\ Blocks \subseteq DOMAIN heap'
           /\ \A c \in Blocks \ {b} : heap'[c] = heap[c]
           /\ \A c \in DOMAIN heap' \ Blocks : heap'[c].free
           /\ Layout(heap', heap_end) /\ \A c \in DOMAIN heap' : Header(heap', c)
           /\ marks' = IF padding > 0
                       THEN [marks EXCEPT ![p] = [tag |-> heap'[b].tag, block |-> b]]
                       ELSE marks
           /\ live' = [q \in DOMAIN live \cup {p} |-> IF q = p THEN request.len ELSE live[q]]
           /\ answer' = p
<1>1. PICK b \in Blocks :
        LET padding == Padding(b, request.align)
            p == b + HEADER + padding
        IN  /\ FirstFit(b)
            /\ heap' = Cut(heap, b, padding + request.len, padding)
            /\ marks' = IF padding > 0
                        THEN [marks EXCEPT ![p] = [tag |-> heap'[b].tag, block |-> b]]
                        ELSE marks
            /\ live' = [q \in DOMAIN live \cup {p} |->
                          IF q = p THEN request.len ELSE live[q]]
            /\ answer' = p
  BY DEF Take
<1>2. /\ request.len \in Nat \ {0} /\ request.align \in Nat \ {0}
  BY RequestsAssumption DEF Take, Structure, Range
<1>3. /\ b \in Nat /\ b \in DOMAIN heap /\ Layout(heap, heap_end) /\ heap[b].size \in Nat
      /\ heap_end \in Nat /\ heap_end <= HEAP_MAX
      /\ \A c \in DOMAIN heap : Header(heap, c)
  BY SizesAssumption DEF Structure, Range, Layout, Blocks
<1> DEFINE padding == Padding(b, request.align)
           p == b + HEADER + padding
           used == padding + request.len
<1>4. padding \in Nat /\ p % request.align = 0
  BY <1>2, <1>3, PaddingAligns
<1>5. heap[b].free /\ used <= heap[b].size
  BY <1>1, <1>2, <1>3, <1>4 DEF FirstFit, Fits
<1>6. used \in Nat \ {0} /\ heap' = Cut(heap, b, used, padding)
  BY <1>1, <1>2, <1>4
<1>a. /\ marks' = IF padding > 0
                  THEN [marks EXCEPT ![p] = [tag |-> heap'[b].tag, block |-> b]]
                  ELSE marks
      /\ live' = [q \in DOMAIN live \cup {p} |-> IF q = p THEN request.len ELSE live[q]]
      /\ answer' = p
  BY <1>1
<1> HIDE DEF padding, used
<1>7. /\ Layout(heap', heap_end)
      /\ DOMAIN heap \subseteq DOMAIN heap'
      /\ \A c \in DOMAIN heap \ {b} : heap'[c] = heap[c]
      /\ ~ heap'[b].free /\ heap'[b].padding = padding /\ heap'[b].size >= used
      /\ \A c \in DOMAIN heap' \ DOMAIN heap : heap'[c].free
  BY <1>3, <1>4, <1>5, <1>6, CutLayout
<1>8. \A c \in DOMAIN heap' : Header(heap', c)
  BY <1>3, <1>4, <1>5, <1>6, CutHeaders
<1>9. heap'[b].size \in Nat /\ b + HEADER + heap'[b].size <= heap_end
  BY <1>3, <1>7 DEF Layout
<1>10. used = padding + request.len
  BY DEF used
<1>11. p + request.len <= b + HEADER + heap'[b].size /\ p \in Addr
  <2>1. p \in Nat
    BY <1>3, <1>4, SizesAssumption
  <2>2. heap'[b].size >= padding + request.len
    BY <1>7, <1>10
  <2>3. p + request.len <= b + HEADER + heap'[b].size
    BY <1>2, <1>3, <1>4, <1>9, <2>2, SizesAssumption
  <2>4. p + request.len <= heap_end
    BY <1>2, <1>3, <1>9, <2>1, <2>3, SizesAssumption
  <2>5. p <= HEAP_MAX - 1
    BY <1>2, <1>3, <2>1, <2>4, SizesAssumption
  <2> QED
    BY <2>1, <2>3, <2>5, SizesAssumption DEF Addr
<1> HIDE DEF p
<1>12. p = b + HEADER + padding
  BY DEF p
<1> QED
  BY <1>2, <1>4, <1>5, <1>7, <1>8, <1>11, <1>12, <1>a DEF Blocks

\* An expansion only adds free memory.
LEMMA ExpandDoes ==
  ASSUME Structure, Expand
  PROVE  /\ heap_end' \in Nat /\ heap_end' > heap_end /\ heap_end' <= HEAP_MAX
         /\ Layout(heap', heap_end') /\ \A c \in DOMAIN heap' : Header(heap', c)
         /\ Blocks \subseteq DOMAIN heap'
         /\ \A c \in Blocks : heap'[c].free = heap[c].free
         /\ \A c \in Blocks : ~ heap[c].free => /\ heap'[c].size = heap[c].size
                                                /\ heap'[c].padding = heap[c].padding
                                                /\ heap'[c].tag = heap[c].tag
         /\ \A c \in DOMAIN heap' \ Blocks : heap'[c].free
<1> DEFINE size == PagesNeeded(request.len) * PAGE
<1>1. request.len \in Nat \ {0}
  BY RequestsAssumption DEF Expand, Structure, Range
<1>2. size \in Nat /\ size >= request.len + HEADER + 1
  BY <1>1, ExpansionIsEnough
<1>3. /\ heap_end \in Nat /\ heap_end + size <= HEAP_MAX /\ heap_end' = heap_end + size
      /\ Layout(heap, heap_end) /\ \A c \in DOMAIN heap : Header(heap, c)
  BY SizesAssumption DEF Expand, Structure, Range, Blocks
<1>4. PICK last \in Blocks : heap[last].next = NULL /\ heap' = Grown(heap, last, size)
  BY DEF Expand, Grown, Blocks
<1> HIDE DEF size
<1>5. size > HEADER
  BY <1>1, <1>2, SizesAssumption
<1>6. last \in DOMAIN heap
  BY DEF Blocks
<1>7. /\ Layout(heap', heap_end + size)
      /\ \A c \in DOMAIN heap' : Header(heap', c)
      /\ DOMAIN heap \subseteq DOMAIN heap'
      /\ \A c \in DOMAIN heap :
           /\ heap'[c].free = heap[c].free
           /\ ~ heap[c].free => /\ heap'[c].size = heap[c].size
                                /\ heap'[c].padding = heap[c].padding
                                /\ heap'[c].tag = heap[c].tag
      /\ \A c \in DOMAIN heap' \ DOMAIN heap : heap'[c].free
  BY <1>2, <1>3, <1>4, <1>5, <1>6, GrownLayout
<1> QED
  BY <1>2, <1>3, <1>5, <1>7, SizesAssumption DEF Blocks

\* A block that is found is on the list.
LEMMA FoundIsBlock ==
  ASSUME NEW p, getBlockFromPayload(p) # NULL
  PROVE  getBlockFromPayload(p) \in Blocks
BY DEF getBlockFromPayload, BackPointer

\* Freeing a block changes its header alone.
LEMMA FreeDoes ==
  ASSUME Structure, NEW p \in Addr, Free(p)
  PROVE  /\ getBlockFromPayload(p) \in Blocks
         /\ DOMAIN heap' = Blocks
         /\ \A c \in Blocks \ {getBlockFromPayload(p)} : heap'[c] = heap[c]
         /\ heap'[getBlockFromPayload(p)].free
         /\ Layout(heap', heap_end) /\ \A c \in DOMAIN heap' : Header(heap', c)
<1> DEFINE b == getBlockFromPayload(p)
<1>1. b \in Blocks
  BY FoundIsBlock DEF Free, Freeable
<1>2. heap' = [heap EXCEPT ![b] = FreeBlock(heap[b].size, heap[b].next)]
  BY DEF Free
<1>3. Layout(heap, heap_end) /\ \A c \in DOMAIN heap : Header(heap, c)
  BY DEF Structure, Blocks
<1> HIDE DEF b
<1>4. /\ DOMAIN heap' = DOMAIN heap /\ b \in DOMAIN heap
      /\ heap'[b] = FreeBlock(heap[b].size, heap[b].next)
      /\ \A c \in DOMAIN heap \ {b} : heap'[c] = heap[c]
  BY <1>1, <1>2 DEF Blocks
<1>5. /\ heap'[b].size = heap[b].size /\ heap'[b].next = heap[b].next
      /\ heap'[b].padding = 0 /\ heap'[b].free = TRUE /\ heap'[b].free \in BOOLEAN
      /\ heap'[b] = Block(heap'[b].size, heap'[b].free, heap'[b].next, heap'[b].padding,
                          heap'[b].tag)
  BY <1>4 DEF FreeBlock, Block
<1>6. \A c \in DOMAIN heap : /\ heap'[c].size = heap[c].size /\ heap'[c].next = heap[c].next
                             /\ heap'[c].free \in BOOLEAN /\ heap'[c].padding \in Nat
  BY <1>3, <1>4, <1>5 DEF Layout
<1>7. Layout(heap', heap_end)
  BY <1>3, <1>4, <1>6 DEF Layout
<1>8. ASSUME NEW c \in DOMAIN heap' PROVE Header(heap', c)
  <2>1. CASE c = b
    BY <1>5, <2>1 DEF Header
  <2>2. CASE c # b
    <3>1. Header(heap, c) /\ heap'[c] = heap[c]
      BY <1>3, <1>4, <2>2
    <3> QED
      BY <3>1 DEF Header
  <2> QED
    BY <2>1, <2>2
<1> QED
  BY <1>1, <1>4, <1>5, <1>7, <1>8 DEF b, Blocks

\* A merge takes two free blocks.
LEMMA CoalesceDoes ==
  ASSUME Structure, Coalesce
  PROVE  /\ Layout(heap', heap_end) /\ \A c \in DOMAIN heap' : Header(heap', c)
         /\ DOMAIN heap' \subseteq Blocks
         /\ \A c \in Blocks : ~ heap[c].free => c \in DOMAIN heap' /\ heap'[c] = heap[c]
         /\ \A c \in DOMAIN heap' : heap'[c].free = heap[c].free
<1>1. PICK b \in Blocks : Mergeable(b) /\ heap' = Absorb(heap, b)
  BY DEF Coalesce
<1>2. /\ b \in DOMAIN heap /\ heap[b].free /\ heap[b].next # NULL /\ heap[heap[b].next].free
      /\ Layout(heap, heap_end) /\ heap_end \in Nat
      /\ \A c \in DOMAIN heap : Header(heap, c)
  BY <1>1, SizesAssumption DEF Mergeable, Structure, Range, Blocks
<1>3. /\ heap[b].next \in DOMAIN heap \ {b}
      /\ Layout(heap', heap_end)
      /\ DOMAIN heap' = DOMAIN heap \ {heap[b].next}
      /\ \A c \in DOMAIN heap' \ {b} : heap'[c] = heap[c]
      /\ heap'[b].free = heap[b].free
      /\ heap'[b].padding = heap[b].padding
  <2>1. heap[b].next \in DOMAIN heap \ {b}
    BY <1>2, AbsorbLayout
  <2>2. Layout(Absorb(heap, b), heap_end)
    BY <1>2, AbsorbLayout
  <2>3. DOMAIN Absorb(heap, b) = DOMAIN heap \ {heap[b].next}
    BY ONLY DEF Absorb
  <2>4. \A c \in DOMAIN Absorb(heap, b) \ {b} : Absorb(heap, b)[c] = heap[c]
    BY ONLY DEF Absorb
  <2>5. Absorb(heap, b)[b].free = heap[b].free /\ Absorb(heap, b)[b].padding = heap[b].padding
    BY <1>2, <2>1 DEF Absorb, Block
  <2> QED
    BY ONLY <1>1, <2>1, <2>2, <2>3, <2>4, <2>5
<1>4. heap'[b] = Block(heap'[b].size, heap'[b].free, heap'[b].next, heap'[b].padding,
                       heap'[b].tag)
  <2>1. heap'[b] = Block(heap[b].size + HEADER + heap[heap[b].next].size, heap[b].free,
                         heap[heap[b].next].next, heap[b].padding, heap[b].tag)
    BY <1>1, <1>2, <1>3 DEF Absorb
  <2> QED
    BY <2>1 DEF Block
<1>5. ASSUME NEW c \in DOMAIN heap' PROVE Header(heap', c)
  <2>1. CASE c = b
    BY <1>2, <1>3, <1>4, <2>1 DEF Header
  <2>2. CASE c # b
    <3>1. Header(heap, c) /\ heap'[c] = heap[c]
      BY <1>2, <1>3, <2>2
    <3> QED
      BY <3>1 DEF Header
  <2> QED
    BY <2>1, <2>2
<1> QED
  BY <1>2, <1>3, <1>5 DEF Blocks

\* A buffer that shrinks or grows keeps its block; only free memory is taken or left.
LEMMA ResizeDoes ==
  ASSUME Structure, NEW p \in Addr, NEW len \in Length, Shrink(p, len) \/ GrowInPlace(p, len)
  PROVE  \E b \in Blocks :
           /\ b = getBlockFromPayload(p)
           /\ b \in DOMAIN heap' /\ ~ heap'[b].free
           /\ heap'[b].padding = heap[b].padding /\ heap'[b].size >= len
           /\ \A c \in Blocks \ {b} : ~ heap[c].free => c \in DOMAIN heap' /\ heap'[c] = heap[c]
           /\ \A c \in DOMAIN heap' \ {b} : heap'[c].free \/ (c \in Blocks /\ heap'[c] = heap[c])
           /\ Layout(heap', heap_end) /\ \A c \in DOMAIN heap' : Header(heap', c)
<1> DEFINE b == getBlockFromPayload(p)
<1>1. b \in Blocks
  BY FoundIsBlock DEF Shrink, GrowInPlace
<1>2. /\ b \in DOMAIN heap /\ Layout(heap, heap_end) /\ heap_end \in Nat
      /\ \A c \in DOMAIN heap : Header(heap, c)
      /\ len \in Nat \ {0} /\ heap[b].padding \in Nat
  BY <1>1, SizesAssumption, RequestsAssumption DEF Structure, Range, Blocks, Layout
<1>3. CASE Shrink(p, len)
  <2>1. len <= heap[b].size /\ heap' = Cut(heap, b, len, heap[b].padding)
    BY <1>3 DEF Shrink
  <2> HIDE DEF b
  <2>2. /\ Layout(heap', heap_end)
        /\ DOMAIN heap \subseteq DOMAIN heap'
        /\ \A c \in DOMAIN heap \ {b} : heap'[c] = heap[c]
        /\ ~ heap'[b].free /\ heap'[b].padding = heap[b].padding /\ heap'[b].size >= len
        /\ \A c \in DOMAIN heap' \ DOMAIN heap : heap'[c].free
    BY <1>2, <2>1, CutLayout
  <2>3. \A c \in DOMAIN heap' : Header(heap', c)
    BY <1>2, <2>1, CutHeaders
  <2> QED
    <3>1. b = getBlockFromPayload(p) /\ Blocks = DOMAIN heap
      BY DEF b, Blocks
    <3>2. /\ \A c \in Blocks \ {b} : ~ heap[c].free => c \in DOMAIN heap' /\ heap'[c] = heap[c]
          /\ \A c \in DOMAIN heap' \ {b} : heap'[c].free \/ (c \in Blocks /\ heap'[c] = heap[c])
      BY <2>2, <3>1
    <3> QED
      BY <1>1, <1>2, <2>2, <2>3, <3>1, <3>2
<1>4. CASE GrowInPlace(p, len)
  <2> DEFINE g == Absorb(heap, b)
             n == heap[b].next
  <2>1. /\ n # NULL /\ heap[n].free
        /\ heap[b].size + HEADER + heap[n].size >= len
        /\ heap' = Cut(g, b, len, heap[b].padding)
    BY <1>4 DEF GrowInPlace
  <2> HIDE DEF b, g
  <2>2. /\ n \in DOMAIN heap \ {b}
        /\ Layout(g, heap_end)
        /\ DOMAIN g = DOMAIN heap \ {n}
        /\ \A c \in DOMAIN g \ {b} : g[c] = heap[c]
        /\ g[b].size = heap[b].size + HEADER + heap[n].size
    <3>1. n \in DOMAIN heap \ {b}
      BY <1>2, <2>1, AbsorbLayout
    <3>2. Layout(g, heap_end)
      BY <1>2, <2>1, AbsorbLayout DEF g
    <3>3. /\ DOMAIN g = DOMAIN heap \ {n}
          /\ \A c \in DOMAIN g \ {b} : g[c] = heap[c]
          /\ g[b].size = heap[b].size + HEADER + heap[n].size
      BY <1>2, <3>1 DEF g, Absorb, Block
    <3> QED
      BY <3>1, <3>2, <3>3
  <2>3. \A c \in DOMAIN g \ {b} : Header(g, c)
    <3>1. ASSUME NEW c \in DOMAIN g \ {b} PROVE Header(g, c)
      <4>1. Header(heap, c) /\ g[c] = heap[c]
        BY <1>2, <2>2
      <4> QED
        BY <4>1 DEF Header
    <3> QED
      BY <3>1
  <2>4. b \in DOMAIN g /\ len <= g[b].size
    BY <1>2, <2>1, <2>2
  <2> HIDE DEF n
  <2>5. /\ Layout(heap', heap_end)
        /\ DOMAIN g \subseteq DOMAIN heap'
        /\ \A c \in DOMAIN g \ {b} : heap'[c] = g[c]
        /\ ~ heap'[b].free /\ heap'[b].padding = heap[b].padding /\ heap'[b].size >= len
        /\ \A c \in DOMAIN heap' \ DOMAIN g : heap'[c].free
    BY <1>2, <2>1, <2>2, <2>4, CutLayout
  <2>6. \A c \in DOMAIN heap' : Header(heap', c)
    BY <1>2, <2>1, <2>2, <2>3, <2>4, CutHeaders
  <2> QED
    <3>1. b = getBlockFromPayload(p) /\ Blocks = DOMAIN heap
      BY DEF b, Blocks
    <3>2. /\ \A c \in Blocks \ {b} : ~ heap[c].free => c \in DOMAIN heap' /\ heap'[c] = heap[c]
          /\ \A c \in DOMAIN heap' \ {b} : heap'[c].free \/ (c \in Blocks /\ heap'[c] = heap[c])
      BY <2>1, <2>2, <2>5, <3>1
    <3> QED
      BY <1>1, <2>4, <2>5, <2>6, <3>1, <3>2
<1> QED
  BY <1>3, <1>4

------------------------------------------------------------------------------
(* The structure, whatever callers do. *)

\* Every step keeps the structure, whatever callers free or resize.
LEMMA StructureStep == Structure /\ [Next]_vars => Structure'
<1> SUFFICES ASSUME Structure, [Next]_vars PROVE Structure'
  OBVIOUS
<1>0. Range /\ Layout(heap, heap_end) /\ (\A b \in DOMAIN heap : Header(heap, b))
  BY DEF Structure, Blocks
<1>i. ASSUME Layout(heap', heap_end'), \A b \in DOMAIN heap' : Header(heap', b), Range'
      PROVE  Structure'
  BY <1>i DEF Structure, Blocks
<1>1. ASSUME NEW len \in Length, NEW align \in Alignment, Alloc(len, align) PROVE Structure'
  <2>1. Range'
    BY <1>0, <1>1 DEF Alloc, Range
  <2> QED
    BY <1>0, <1>1, <1>i, <2>1 DEF Alloc
<1>2. ASSUME NEW p \in Addr, Free(p) PROVE Structure'
  <2>1. Layout(heap', heap_end') /\ \A b \in DOMAIN heap' : Header(heap', b)
    BY <1>2, FreeDoes DEF Free
  <2>2. Range'
    BY <1>0, <1>2 DEF Free, Forget, Range
  <2> QED
    BY <1>i, <2>1, <2>2
<1>3. ASSUME NEW p \in Addr, FreeRefused(p) PROVE Structure'
  <2>1. Range'
    BY <1>0, <1>3 DEF FreeRefused, Forget, Range
  <2> QED
    BY <1>0, <1>3, <1>i, <2>1 DEF FreeRefused
<1>4. ASSUME NEW p \in Addr, NEW len \in Length, Shrink(p, len) \/ GrowInPlace(p, len)
      PROVE  Structure'
  <2>1. Layout(heap', heap_end) /\ \A b \in DOMAIN heap' : Header(heap', b)
    BY <1>4, ResizeDoes
  <2>2. /\ live' = [live EXCEPT ![p] = len]
        /\ UNCHANGED <<heap_end, marks, request, merging, answer, freed>>
    BY <1>4 DEF Shrink, GrowInPlace, Resized
  <2>3. Range'
    BY <1>0, <2>2 DEF Range
  <2> QED
    BY <1>i, <2>1, <2>2, <2>3
<1>5. ASSUME Take PROVE Structure'
  <2>1. PICK b \in Blocks, padding \in Nat, p \in Addr :
          /\ Layout(heap', heap_end) /\ \A c \in DOMAIN heap' : Header(heap', c)
          /\ marks' = IF padding > 0
                      THEN [marks EXCEPT ![p] = [tag |-> heap'[b].tag, block |-> b]]
                      ELSE marks
          /\ live' = [q \in DOMAIN live \cup {p} |-> IF q = p THEN request.len ELSE live[q]]
          /\ answer' = p
    BY <1>5, TakeDoes
  <2>2. request' = NULL /\ UNCHANGED <<heap_end, merging, freed>>
    BY <1>5 DEF Take
  <2>3. DOMAIN marks' = Addr /\ DOMAIN live' \subseteq Addr
    BY <1>0, <2>1 DEF Range
  <2>4. Range'
    BY <1>0, <2>1, <2>2, <2>3 DEF Range
  <2> QED
    BY <1>i, <2>1, <2>2, <2>4
<1>6. ASSUME Expand PROVE Structure'
  <2>1. /\ heap_end' \in Nat /\ heap_end' > heap_end /\ heap_end' <= HEAP_MAX
        /\ Layout(heap', heap_end') /\ \A c \in DOMAIN heap' : Header(heap', c)
    BY <1>6, ExpandDoes
  <2>2. UNCHANGED <<marks, request, merging, answer, live, freed>>
    BY <1>6 DEF Expand
  <2>3. Range'
    BY <1>0, <2>1, <2>2, SizesAssumption DEF Range
  <2> QED
    BY <1>i, <2>1, <2>3
<1>7. ASSUME ExpandFails PROVE Structure'
  <2>1. PICK pages \in 0 .. PagesNeeded(request.len) - 1 :
          heap_end + pages * PAGE <= HEAP_MAX /\ heap_end' = heap_end + pages * PAGE
    BY <1>7 DEF ExpandFails, RoomFor
  <2>2. /\ request' = NULL /\ answer' = NULL
        /\ UNCHANGED <<heap, marks, merging, live, freed>>
    BY <1>7 DEF ExpandFails
  <2>3. heap_end \in Nat /\ heap_end' \in Nat /\ heap_end <= heap_end' /\ heap_end' <= HEAP_MAX
    <3>1. pages \in Nat /\ pages * PAGE \in Nat
      BY SizesAssumption
    <3> QED
      BY <1>0, <2>1, <3>1, SizesAssumption DEF Range
  <2>4. Range'
    BY <1>0, <2>2, <2>3, SizesAssumption DEF Range
  <2>5. Layout(heap, heap_end')
    <3>1. \A b \in DOMAIN heap : b + HEADER + heap[b].size <= heap_end'
      BY <1>0, <2>3, SizesAssumption DEF Layout
    <3> QED
      BY <1>0, <3>1 DEF Layout
  <2> QED
    BY <1>0, <1>i, <2>2, <2>4, <2>5
<1>8. ASSUME Coalesce PROVE Structure'
  <2>1. Layout(heap', heap_end) /\ \A c \in DOMAIN heap' : Header(heap', c)
    BY <1>8, CoalesceDoes
  <2>2. Range' /\ heap_end' = heap_end
    BY <1>0, <1>8 DEF Coalesce, Range
  <2> QED
    BY <1>i, <2>1, <2>2
<1>9. ASSUME Coalesced PROVE Structure'
  <2>1. Range'
    BY <1>0, <1>9 DEF Coalesced, Range
  <2> QED
    BY <1>0, <1>9, <1>i, <2>1 DEF Coalesced
<1>10. CASE UNCHANGED vars
  BY <1>10 DEF vars, Structure, Range, Blocks
<1> QED
  BY <1>1, <1>2, <1>3, <1>4, <1>5, <1>6, <1>7, <1>8, <1>9, <1>10 DEF Next, Call, Proceed

\* The structure is an invariant without a condition on callers.
THEOREM StructureHolds == Spec => []Structure
BY InitStructure, StructureStep, PTL DEF Spec

\* TypeOK: in particular the heap never leaves its virtual range, and no sequence of splits,
\* merges and expansions makes a block of no size.
THEOREM TypeCorrect == Spec => []TypeOK
<1>1. ASSUME Structure PROVE TypeOK
  <2>1. Range /\ Layout(heap, heap_end)
    BY <1>1 DEF Structure
  <2>2. ASSUME NEW b \in Blocks PROVE b \in Addr /\ heap[b].size \in 1 .. HEAP_MAX
    <3>1. /\ b \in Nat /\ heap[b].size \in Nat \ {0} /\ b + HEADER + heap[b].size <= heap_end
          /\ heap_end \in Nat /\ heap_end <= HEAP_MAX
      BY <2>1, SizesAssumption DEF Layout, Range, Blocks
    <3> QED
      BY <3>1, SizesAssumption DEF Addr
  <2> QED
    BY <2>1, <2>2 DEF TypeOK, Range, Layout, Blocks
<1> QED
  BY <1>1, StructureHolds, PTL

\* Tiled: the blocks tile the heap in the order of the list, whatever was split, merged,
\* resized or only half expanded, and however callers behave.
THEOREM BlocksTile == Spec => []Tiled
<1>1. Structure => Tiled
  BY DEF Structure, Layout, Tiled, End, Blocks
<1> QED
  BY <1>1, StructureHolds, PTL

------------------------------------------------------------------------------
(* Buffers and their blocks. *)

\* The payloads of two blocks have nothing in common.
LEMMA PayloadsApart ==
  ASSUME NEW h, NEW top, Layout(h, top), NEW b \in DOMAIN h, NEW c \in DOMAIN h, NEW x \in Int,
         b + HEADER <= x, x < b + HEADER + h[b].size,
         c + HEADER <= x, x < c + HEADER + h[c].size
  PROVE  b = c
<1>1. /\ b \in Nat /\ c \in Nat /\ h[b].size \in Nat /\ h[c].size \in Nat
      /\ b < c => b + HEADER + h[b].size <= c
      /\ c < b => c + HEADER + h[c].size <= b
  BY DEF Layout
<1> QED
  BY <1>1, SizesAssumption

\* A block that is not free is the block of the one buffer at its payload.
LEMMA BlockOfBuffer ==
  ASSUME IInv
  PROVE  /\ \A b \in Blocks : ~ heap[b].free =>
              /\ Payload(b) \in DOMAIN live
              /\ b + HEADER <= Payload(b) /\ Payload(b) \in Addr
              /\ Payload(b) + live[Payload(b)] <= b + HEADER + heap[b].size
              /\ live[Payload(b)] \in Nat \ {0}
         /\ \A p \in DOMAIN live : \E b \in Blocks : ~ heap[b].free /\ p = Payload(b)
         /\ \A b, c \in Blocks :
              ~ heap[b].free /\ ~ heap[c].free /\ Payload(b) = Payload(c) => b = c
<1>1. Layout(heap, heap_end) /\ Blocks = DOMAIN heap /\ DOMAIN live \subseteq Addr
  BY DEF IInv, Structure, Range, Blocks
<1>2. \A p \in DOMAIN live : \E b \in Blocks :
        /\ ~ heap[b].free /\ p = Payload(b)
        /\ p + live[p] <= b + HEADER + heap[b].size
  BY DEF IInv, BuffersOwnBlocks, Payload, End
<1>3. \A b \in Blocks : /\ b \in Nat /\ heap[b].padding \in Nat /\ heap[b].size \in Nat
                        /\ Payload(b) = b + HEADER + heap[b].padding
                        /\ ~ heap[b].free => /\ Payload(b) \in DOMAIN live
                                             /\ heap[b].padding < heap[b].size
  BY <1>1 DEF Layout, IInv, BuffersOwnBlocks, PaddingInside, Payload
<1>4. \A p \in DOMAIN live : live[p] \in Nat \ {0} /\ p \in Addr /\ p \in Nat
  BY <1>1 DEF IInv, LiveSound, Addr
<1>5. ASSUME NEW b \in Blocks, NEW c \in Blocks, Payload(b) = Payload(c),
             ~ heap[b].free, ~ heap[c].free
      PROVE  b = c
  <2>1. /\ Payload(b) \in Int
        /\ b + HEADER <= Payload(b) /\ Payload(b) < b + HEADER + heap[b].size
        /\ c + HEADER <= Payload(b) /\ Payload(b) < c + HEADER + heap[c].size
    BY <1>3, <1>5, SizesAssumption
  <2> QED
    BY <1>1, <2>1, PayloadsApart
<1>6. ASSUME NEW b \in Blocks, ~ heap[b].free
      PROVE  /\ Payload(b) + live[Payload(b)] <= b + HEADER + heap[b].size
             /\ b + HEADER <= Payload(b)
  <2>1. PICK c \in Blocks : /\ ~ heap[c].free /\ Payload(b) = Payload(c)
                            /\ Payload(b) + live[Payload(b)] <= c + HEADER + heap[c].size
    BY <1>2, <1>3, <1>6
  <2>2. b = c
    BY <1>5, <1>6, <2>1
  <2> QED
    BY <1>3, <2>1, <2>2, SizesAssumption
<1> QED
  BY <1>2, <1>3, <1>4, <1>5, <1>6

\* The header of a buffer that callers have is found, over-aligned or not: a stale mark in
\* front of an unaligned payload cannot lead to another block, which would have to reach
\* over the header of this one.
LEMMA HeaderFound ==
  ASSUME IInv, NEW b \in Blocks, ~ heap[b].free
  PROVE  /\ getBlockFromPayload(Payload(b)) = b /\ Intact(b) /\ Freeable(Payload(b))
         /\ heap[b].padding > 0 => BackPointer(Payload(b)) # NULL
<1> DEFINE p == Payload(b)
<1>1. /\ Layout(heap, heap_end) /\ Blocks = DOMAIN heap /\ heap[b].free \in BOOLEAN
      /\ \A c \in Blocks : Header(heap, c)
  BY DEF IInv, Structure, Blocks, Layout
<1>2. /\ p \in Addr /\ p \in Nat /\ p = b + HEADER + heap[b].padding
      /\ heap[b].padding \in Nat /\ heap[b].padding < heap[b].size
      /\ b \in Nat /\ heap[b].size \in Nat
  BY <1>1, BlockOfBuffer DEF Payload, Addr, Layout, IInv, PaddingInside
<1>3. NULL \notin Int /\ HEADER \in Nat \ {0} /\ b # NULL
  BY <1>2, SizesAssumption, NullAssumption
<1>4. Intact(b)
  <2>1. heap[b].free = FALSE
    BY <1>1
  <2> QED
    BY <1>1, <2>1 DEF Header, Intact
<1> HIDE DEF p
<1>5. CASE heap[b].padding > 0
  <2>1. marks[p] = [tag |-> heap[b].tag, block |-> b]
    BY <1>5 DEF IInv, MarksSound, p
  <2>2. heap[b].tag = <<b, heap[b].size, heap[b].padding, FALSE>>
    BY <1>1 DEF Header, computeBlockTag
  <2>3. marks[p] # NULL
    <3>1. heap[b].tag \in Nat \X Nat \X Nat \X BOOLEAN
      <4>1. ASSUME NEW x \in Nat, NEW y \in Nat, NEW z \in Nat, NEW f \in BOOLEAN
            PROVE  <<x, y, z, f>> \in Nat \X Nat \X Nat \X BOOLEAN
        OBVIOUS
      <4>2. <<b, heap[b].size, heap[b].padding, FALSE>> \in Nat \X Nat \X Nat \X BOOLEAN
        BY <1>2, <4>1
      <4> QED
        BY <2>2, <4>2
    <3>2. marks[p] \in [tag : Nat \X Nat \X Nat \X BOOLEAN, block : Nat]
      BY <1>2, <2>1, <3>1
    <3> QED
      BY <3>2, NullAssumption
  <2>4. marks[p].block = b /\ marks[p].tag = heap[b].tag
    BY <2>1
  <2>5. p >= b + HEADER /\ p < b + HEADER + heap[b].size + HEADER
    BY <1>2, <1>3
  <2>6. BackPointer(p) = b
    BY <1>5, <2>3, <2>4, <2>5 DEF BackPointer
  <2>7. getBlockFromPayload(p) = b
    BY <1>3, <2>6 DEF getBlockFromPayload
  <2> QED
    BY <1>3, <1>4, <2>6, <2>7 DEF Freeable, p
<1>6. CASE heap[b].padding = 0
  <2>1. p = b + HEADER /\ p - HEADER = b
    BY <1>2, <1>3, <1>6
  <2>2. BackPointer(p) = NULL
    <3>1. SUFFICES ASSUME NEW c \in Blocks, p >= c + HEADER,
                          p < c + HEADER + heap[c].size + HEADER, heap[c].padding > 0
                   PROVE  FALSE
      BY DEF BackPointer
    <3>2. c # b /\ c \in Nat /\ heap[c].size \in Nat
      BY <1>1, <1>6, <3>1 DEF Layout
    <3>3. c < b
      BY <1>2, <1>3, <2>1, <3>1, <3>2
    <3>4. c + HEADER + heap[c].size <= b
      BY <1>1, <3>3 DEF Layout
    <3> QED
      BY <1>2, <1>3, <2>1, <3>1, <3>2, <3>4
  <2>3. getBlockFromPayload(p) = b
    BY <2>1, <2>2 DEF getBlockFromPayload
  <2> QED
    BY <1>3, <1>4, <1>6, <2>3 DEF Freeable, p
<1> QED
  BY <1>2, <1>5, <1>6

\* What HeaderFound says of blocks, of buffers.
LEMMA InvariantFindsHeader == IInv => KfreeFindsHeader
<1> SUFFICES ASSUME IInv, NEW p \in DOMAIN live
             PROVE  /\ Freeable(p)
                    /\ p \in getBlockFromPayload(p) + HEADER .. End(getBlockFromPayload(p)) - 1
  BY DEF KfreeFindsHeader
<1>1. PICK b \in Blocks : ~ heap[b].free /\ p = Payload(b)
  BY BlockOfBuffer
<1>2. getBlockFromPayload(p) = b /\ Freeable(p)
  BY <1>1, HeaderFound
<1>3. /\ b \in Nat /\ heap[b].size \in Nat /\ heap[b].padding \in Nat
      /\ heap[b].padding < heap[b].size
  BY <1>1 DEF IInv, Structure, Layout, Blocks, PaddingInside
<1> QED
  BY <1>1, <1>2, <1>3, SizesAssumption DEF Payload, End

\* What nobody has is not freed: a mark with the tag of a block stands at the payload the
\* block has, and that is a buffer somebody has.
LEMMA InvariantRefusesStale == IInv /\ CallersKeepRules => StaleFreeRefused
<1> SUFFICES ASSUME IInv, CallersKeepRules, NEW p \in Addr \ DOMAIN live, MayFree(p), Freeable(p)
             PROVE  FALSE
  BY DEF StaleFreeRefused
<1> DEFINE b == getBlockFromPayload(p)
<1>1. /\ b \in Blocks /\ ~ heap[b].free
      /\ heap[b].tag = computeBlockTag(b, heap[b].size, heap[b].padding, FALSE)
  <2>1. b # NULL /\ Intact(b)
    BY DEF Freeable
  <2>2. b \in Blocks
    BY <2>1, FoundIsBlock
  <2> QED
    BY <2>1, <2>2 DEF Intact, IInv, Structure, Header
<1>2. /\ b \in Nat /\ heap[b].padding \in Nat /\ p \in Nat /\ HEADER \in Nat
      /\ Payload(b) = b + HEADER + heap[b].padding /\ Payload(b) \in DOMAIN live
  BY <1>1, BlockOfBuffer, SizesAssumption DEF IInv, Structure, Layout, Blocks, Addr, Payload
<1>3. CASE BackPointer(p) # NULL
  <2>1. b = marks[p].block /\ marks[p] # NULL /\ heap[b].tag = marks[p].tag
    BY <1>3 DEF getBlockFromPayload, BackPointer
  <2> HIDE DEF b
  <2>2. PICK size \in Nat : marks[p].tag = computeBlockTag(b, size, p - HEADER - b, FALSE)
    BY <2>1 DEF IInv, MarksSound
  <2>3. heap[b].padding = p - HEADER - b
    BY <1>1, <2>1, <2>2 DEF computeBlockTag
  <2> QED
    BY <1>2, <2>3
<1>4. CASE BackPointer(p) = NULL
  <2>1. b = p - HEADER
    BY <1>1, <1>4, NullAssumption DEF getBlockFromPayload, Freeable
  <2>2. ~ (heap[b].padding > 0)
    BY <1>1, <2>1 DEF CallersKeepRules, MayFree, Inside
  <2> HIDE DEF b
  <2>3. Payload(b) = p
    BY <1>2, <2>1, <2>2
  <2> QED
    BY <1>2, <2>3
<1> QED
  BY <1>3, <1>4

------------------------------------------------------------------------------
(* What each step does to the buffers, of callers that keep to the rules. *)

\* At first there is no buffer, and the one block is free.
LEMMA InitInvariant == Init => IInv
<1> SUFFICES ASSUME Init PROVE IInv
  OBVIOUS
<1>1. DOMAIN heap = {0} /\ heap[0].free = TRUE /\ DOMAIN live = {}
  BY DEF Init, FreeBlock, Block
<1>2. Structure
  BY InitStructure
<1>3. BuffersOwnBlocks /\ PaddingInside
  BY <1>1 DEF BuffersOwnBlocks, PaddingInside, Blocks
<1>4. MarksSound
  BY <1>1 DEF Init, MarksSound, Blocks
<1>5. LiveSound
  BY <1>1 DEF Init, LiveSound
<1> QED
  BY <1>2, <1>3, <1>4, <1>5 DEF IInv

\* A step after which the same blocks are taken, each with its padding and room for its
\* buffer, and the over-aligned ones with their tags, keeps the invariant.
LEMMA BuffersStay ==
  ASSUME IInv, Structure', marks' = marks, DOMAIN live' = DOMAIN live, LiveSound',
         \A c \in Blocks : ~ heap[c].free =>
           /\ c \in DOMAIN heap' /\ ~ heap'[c].free
           /\ heap'[c].padding = heap[c].padding
           /\ Payload(c) + live'[Payload(c)] <= c + HEADER + heap'[c].size
           /\ heap[c].padding > 0 => heap'[c].tag = heap[c].tag,
         \A c \in DOMAIN heap' : ~ heap'[c].free => c \in Blocks /\ ~ heap[c].free
  PROVE  IInv'
<1>1. Blocks' = DOMAIN heap'
  BY DEF Blocks
<1>2. ASSUME NEW c \in Blocks, ~ heap[c].free
      PROVE  /\ c \in Blocks' /\ ~ heap'[c].free
             /\ Payload(c)' = Payload(c) /\ Payload(c) = c + HEADER + heap[c].padding
             /\ Payload(c) + live'[Payload(c)] <= c + HEADER + heap'[c].size
  BY <1>1, <1>2 DEF Payload
<1>3. BuffersOwnBlocks'
  <2>1. ASSUME NEW p \in DOMAIN live'
        PROVE  \E b \in Blocks' : /\ ~ heap'[b].free
                                  /\ p = b + HEADER + heap'[b].padding
                                  /\ p + live'[p] <= b + HEADER + heap'[b].size
    <3>1. PICK b \in Blocks : ~ heap[b].free /\ p = Payload(b)
      BY BlockOfBuffer
    <3> QED
      BY <1>2, <3>1 DEF Payload
  <2>2. ASSUME NEW b \in Blocks', ~ heap'[b].free
        PROVE  b + HEADER + heap'[b].padding \in DOMAIN live'
    BY <1>1, <2>2, BlockOfBuffer DEF Payload
  <2> QED
    BY <2>1, <2>2 DEF BuffersOwnBlocks, End
<1>4. PaddingInside'
  <2>1. SUFFICES ASSUME NEW b \in Blocks', ~ heap'[b].free PROVE heap'[b].padding < heap'[b].size
    BY DEF PaddingInside
  <2>2. b \in Blocks /\ ~ heap[b].free
    BY <1>1, <2>1
  <2>3. Payload(b) \in DOMAIN live' /\ live'[Payload(b)] \in Nat \ {0}
    BY <2>2, BlockOfBuffer DEF LiveSound
  <2>4. /\ b \in Nat /\ heap'[b].size \in Nat /\ heap'[b].padding \in Nat
        /\ Payload(b) = b + HEADER + heap'[b].padding
        /\ Payload(b) + live'[Payload(b)] <= b + HEADER + heap'[b].size
    BY <1>1, <2>2 DEF Structure, Layout, Payload
  <2> QED
    BY <2>3, <2>4, SizesAssumption
<1>5. MarksSound'
  <2>1. ASSUME NEW b \in Blocks', ~ heap'[b].free, heap'[b].padding > 0
        PROVE  marks'[Payload(b)'] = [tag |-> heap'[b].tag, block |-> b]
    <3>1. b \in Blocks /\ ~ heap[b].free
      BY <1>1, <2>1
    <3>2. Payload(b)' = Payload(b) /\ heap'[b].padding = heap[b].padding
      BY <1>2, <3>1
    <3>3. marks[Payload(b)] = [tag |-> heap[b].tag, block |-> b]
      BY <2>1, <3>1, <3>2 DEF IInv, MarksSound
    <3> QED
      BY <2>1, <3>1, <3>2, <3>3
  <2> QED
    BY <2>1 DEF IInv, MarksSound
<1> QED
  BY <1>3, <1>4, <1>5 DEF IInv

\* Taking a block makes it the block of the new buffer, at a payload nobody had.
LEMMA TakeKeeps ==
  ASSUME IInv, Structure', Take
  PROVE  IInv' /\ answer' \notin DOMAIN live
<1>1. Structure
  BY DEF IInv
<1>2. PICK b \in Blocks, padding \in Nat, p \in Addr :
        /\ p = b + HEADER + padding
        /\ request.len \in Nat \ {0} /\ p + request.len <= b + HEADER + heap'[b].size
        /\ heap[b].free /\ ~ heap'[b].free /\ heap'[b].padding = padding
        /\ Blocks \subseteq DOMAIN heap'
        /\ \A c \in Blocks \ {b} : heap'[c] = heap[c]
        /\ \A c \in DOMAIN heap' \ Blocks : heap'[c].free
        /\ Layout(heap', heap_end) /\ \A c \in DOMAIN heap' : Header(heap', c)
        /\ marks' = IF padding > 0
                    THEN [marks EXCEPT ![p] = [tag |-> heap'[b].tag, block |-> b]]
                    ELSE marks
        /\ live' = [q \in DOMAIN live \cup {p} |-> IF q = p THEN request.len ELSE live[q]]
        /\ answer' = p
  BY <1>1, TakeDoes
<1>3. /\ Blocks' = DOMAIN heap' /\ b \in DOMAIN heap'
      /\ b \in Nat /\ p \in Nat /\ heap'[b].size \in Nat
      /\ Payload(b)' = p /\ p = b + HEADER + padding
  BY <1>2 DEF Blocks, Layout, Addr, Payload
<1>4. ASSUME NEW c \in Blocks, ~ heap[c].free
      PROVE  /\ c # b /\ heap'[c] = heap[c] /\ Payload(c)' = Payload(c) /\ Payload(c) # p
             /\ Payload(c) = c + HEADER + heap[c].padding
  <2>1. c # b /\ heap'[c] = heap[c]
    BY <1>2, <1>4
  <2>2. /\ c + HEADER <= Payload(c) /\ Payload(c) < c + HEADER + heap'[c].size
        /\ c \in DOMAIN heap' /\ Payload(c) \in Int
    <3>1. /\ c + HEADER <= Payload(c) /\ live[Payload(c)] \in Nat \ {0} /\ Payload(c) \in Nat
          /\ Payload(c) + live[Payload(c)] <= c + HEADER + heap[c].size
      BY <1>4, BlockOfBuffer DEF Addr
    <3>2. c \in Nat /\ heap[c].size \in Nat /\ c \in DOMAIN heap'
      BY <1>1, <1>2 DEF Structure, Layout, Blocks
    <3> QED
      BY <2>1, <3>1, <3>2, SizesAssumption
  <2>3. b + HEADER <= p /\ p < b + HEADER + heap'[b].size
    BY <1>2, <1>3, SizesAssumption
  <2>4. Payload(c) # p
    BY <1>2, <1>3, <2>1, <2>2, <2>3, PayloadsApart
  <2> QED
    BY <2>1, <2>4 DEF Payload
<1>5. p \notin DOMAIN live
  BY <1>4, BlockOfBuffer
<1>6. ASSUME NEW c \in Blocks', ~ heap'[c].free, c # b
      PROVE  c \in Blocks /\ ~ heap[c].free /\ heap'[c] = heap[c]
  BY <1>2, <1>3, <1>6
<1>7. /\ p \in DOMAIN live' /\ live'[p] = request.len
      /\ \A q \in DOMAIN live : q \in DOMAIN live' /\ live'[q] = live[q]
      /\ \A q \in DOMAIN live' : q = p \/ q \in DOMAIN live
  BY <1>2, <1>5
<1>8. BuffersOwnBlocks'
  <2>1. ASSUME NEW q \in DOMAIN live'
        PROVE  \E c \in Blocks' : /\ ~ heap'[c].free
                                  /\ q = c + HEADER + heap'[c].padding
                                  /\ q + live'[q] <= c + HEADER + heap'[c].size
    <3>1. CASE q = p
      BY <1>2, <1>3, <1>7, <3>1
    <3>2. CASE q # p
      <4>1. q \in DOMAIN live /\ live'[q] = live[q]
        BY <1>7, <3>2
      <4>2. PICK c \in Blocks : /\ ~ heap[c].free
                                /\ q = c + HEADER + heap[c].padding
                                /\ q + live[q] <= c + HEADER + heap[c].size
        BY <4>1 DEF IInv, BuffersOwnBlocks, End
      <4>3. heap'[c] = heap[c] /\ c \in Blocks'
        BY <1>2, <1>3, <1>4, <4>2
      <4> QED
        BY <4>1, <4>2, <4>3
    <3> QED
      BY <3>1, <3>2
  <2>2. ASSUME NEW c \in Blocks', ~ heap'[c].free
        PROVE  c + HEADER + heap'[c].padding \in DOMAIN live'
    <3>1. CASE c = b
      BY <1>2, <1>7, <3>1
    <3>2. CASE c # b
      BY <1>6, <1>7, <2>2, <3>2 DEF IInv, BuffersOwnBlocks
    <3> QED
      BY <3>1, <3>2
  <2> QED
    BY <2>1, <2>2 DEF BuffersOwnBlocks, End
<1>9. PaddingInside'
  <2>1. padding < heap'[b].size
    BY <1>2, <1>3, SizesAssumption
  <2> QED
    BY <1>2, <1>6, <2>1 DEF IInv, PaddingInside
<1>10. MarksSound'
  <2>1. ASSUME NEW q \in Addr, marks'[q] # NULL
        PROVE  \E size \in Nat :
                 marks'[q].tag = computeBlockTag(marks'[q].block, size,
                                                 q - HEADER - marks'[q].block, FALSE)
    <3>1. CASE q = p /\ padding > 0
      <4>1. marks'[q] = [tag |-> heap'[b].tag, block |-> b]
        BY <1>1, <1>2, <3>1 DEF Structure, Range
      <4>2. heap'[b].tag = computeBlockTag(b, heap'[b].size, padding, FALSE)
        BY <1>2, <1>3 DEF Header
      <4>3. q - HEADER - b = padding
        BY <1>3, <3>1, SizesAssumption
      <4>4. marks'[q].tag = heap'[b].tag /\ marks'[q].block = b
        BY <4>1
      <4> QED
        BY <1>3, <4>2, <4>3, <4>4
    <3>2. CASE ~ (q = p /\ padding > 0)
      <4>1. marks'[q] = marks[q]
        BY <1>2, <3>2
      <4> QED
        BY <2>1, <4>1 DEF IInv, MarksSound
    <3> QED
      BY <3>1, <3>2
  <2>2. ASSUME NEW c \in Blocks', ~ heap'[c].free, heap'[c].padding > 0
        PROVE  marks'[Payload(c)'] = [tag |-> heap'[c].tag, block |-> c]
    <3>1. CASE c = b
      BY <1>1, <1>2, <1>3, <2>2, <3>1 DEF Structure, Range
    <3>2. CASE c # b
      <4>1. c \in Blocks /\ ~ heap[c].free /\ heap'[c] = heap[c]
        BY <1>6, <2>2, <3>2
      <4>2. Payload(c)' = Payload(c) /\ Payload(c) # p
        BY <1>4, <4>1
      <4>3. marks[Payload(c)] = [tag |-> heap[c].tag, block |-> c]
        BY <2>2, <4>1 DEF IInv, MarksSound
      <4> QED
        BY <1>2, <4>1, <4>2, <4>3
    <3> QED
      BY <3>1, <3>2
  <2> QED
    BY <2>1, <2>2 DEF MarksSound
<1>11. LiveSound'
  <2>1. live' = [q \in DOMAIN live' |-> live'[q]]
    BY <1>2
  <2>2. \A q \in DOMAIN live' : live'[q] \in Nat \ {0}
    BY <1>2, <1>7 DEF IInv, LiveSound
  <2> QED
    BY <2>1, <2>2 DEF LiveSound
<1> QED
  BY <1>2, <1>5, <1>8, <1>9, <1>10, <1>11 DEF IInv

\* What is freed is a buffer somebody has, and the block given back is its block.
LEMMA FreeKeeps ==
  ASSUME IInv, CallersKeepRules, Structure', NEW p \in Addr, Free(p)
  PROVE  IInv' /\ p \in DOMAIN live
<1>1. p \in DOMAIN live
  BY InvariantRefusesStale DEF Free, StaleFreeRefused
<1>2. PICK b \in Blocks : ~ heap[b].free /\ p = Payload(b)
  BY <1>1, BlockOfBuffer
<1>3. b = getBlockFromPayload(p)
  BY <1>2, HeaderFound
<1>4. /\ DOMAIN heap' = Blocks /\ Blocks' = Blocks
      /\ \A c \in Blocks \ {b} : heap'[c] = heap[c]
      /\ heap'[b].free
  BY <1>3, FreeDoes DEF IInv, Blocks
<1>5. /\ live' = [q \in DOMAIN live \ {p} |-> live[q]] /\ marks' = marks
  BY DEF Free, Forget
<1>6. ASSUME NEW c \in Blocks, ~ heap'[c].free
      PROVE  /\ c # b /\ heap'[c] = heap[c] /\ ~ heap[c].free
             /\ Payload(c)' = Payload(c) /\ Payload(c) \in DOMAIN live'
    <2>1. c # b /\ heap'[c] = heap[c]
      BY <1>4, <1>6
    <2>2. Payload(c) \in DOMAIN live /\ Payload(c) # p
      BY <1>2, <1>6, <2>1, BlockOfBuffer
    <2> QED
      BY <1>5, <1>6, <2>1, <2>2 DEF Payload
<1>7. BuffersOwnBlocks'
  <2>1. ASSUME NEW q \in DOMAIN live'
        PROVE  \E c \in Blocks : /\ ~ heap'[c].free
                                 /\ q = c + HEADER + heap'[c].padding
                                 /\ q + live'[q] <= c + HEADER + heap'[c].size
    <3>1. q \in DOMAIN live /\ live'[q] = live[q] /\ q # p
      BY <1>5
    <3>2. PICK c \in Blocks : /\ ~ heap[c].free
                              /\ q = c + HEADER + heap[c].padding
                              /\ q + live[q] <= c + HEADER + heap[c].size
      BY <3>1 DEF IInv, BuffersOwnBlocks, End
    <3>3. c # b
      BY <1>2, <3>1, <3>2 DEF Payload
    <3> QED
      BY <1>4, <3>1, <3>2, <3>3
  <2>2. ASSUME NEW c \in Blocks, ~ heap'[c].free
        PROVE  c + HEADER + heap'[c].padding \in DOMAIN live'
    BY <1>6, <2>2 DEF Payload
  <2> QED
    BY <1>4, <2>1, <2>2 DEF BuffersOwnBlocks, End
<1>8. PaddingInside'
  BY <1>4, <1>6 DEF IInv, PaddingInside
<1>9. MarksSound'
  <2>1. ASSUME NEW c \in Blocks, ~ heap'[c].free, heap'[c].padding > 0
        PROVE  marks'[Payload(c)'] = [tag |-> heap'[c].tag, block |-> c]
    BY <1>5, <1>6, <2>1 DEF IInv, MarksSound
  <2> QED
    BY <1>4, <1>5, <2>1 DEF IInv, MarksSound
<1>10. LiveSound'
  BY <1>5 DEF IInv, LiveSound
<1> QED
  BY <1>1, <1>7, <1>8, <1>9, <1>10 DEF IInv

\* A buffer is resized in its own block, in front of which there is no padding.
LEMMA ResizeKeeps ==
  ASSUME IInv, CallersKeepRules, Structure', NEW p \in Addr, NEW len \in Length,
         Shrink(p, len) \/ GrowInPlace(p, len)
  PROVE  IInv' /\ p \in DOMAIN live
<1>1. p \in DOMAIN live /\ BackPointer(p) = NULL
  BY DEF Shrink, GrowInPlace, MayResize, CallersKeepRules
<1>2. /\ live' = [live EXCEPT ![p] = len] /\ marks' = marks
      /\ len \in Nat \ {0}
  BY RequestsAssumption DEF Shrink, GrowInPlace, Resized
<1>3. PICK b \in Blocks : ~ heap[b].free /\ p = Payload(b)
  BY <1>1, BlockOfBuffer
<1>4. /\ b = getBlockFromPayload(p) /\ b \in Nat /\ heap[b].padding = 0
      /\ Payload(b) = b + HEADER + heap[b].padding
  BY <1>1, <1>3, HeaderFound DEF IInv, Structure, Layout, Blocks, Payload
<1>5. /\ b \in DOMAIN heap' /\ ~ heap'[b].free /\ heap'[b].padding = 0 /\ heap'[b].size >= len
      /\ \A c \in Blocks \ {b} : ~ heap[c].free => c \in DOMAIN heap' /\ heap'[c] = heap[c]
      /\ \A c \in DOMAIN heap' \ {b} : heap'[c].free \/ (c \in Blocks /\ heap'[c] = heap[c])
      /\ Layout(heap', heap_end)
  BY <1>4, ResizeDoes DEF IInv
<1>6. DOMAIN live' = DOMAIN live /\ LiveSound'
  BY <1>1, <1>2 DEF IInv, LiveSound
<1>7. ASSUME NEW c \in Blocks, ~ heap[c].free
      PROVE  /\ c \in DOMAIN heap' /\ ~ heap'[c].free
             /\ heap'[c].padding = heap[c].padding
             /\ Payload(c) + live'[Payload(c)] <= c + HEADER + heap'[c].size
             /\ heap[c].padding > 0 => heap'[c].tag = heap[c].tag
  <2>1. CASE c = b
    <3>1. live'[p] = len /\ p = b + HEADER
      BY <1>1, <1>2, <1>3, <1>4, SizesAssumption
    <3>2. b + HEADER + len <= b + HEADER + heap'[b].size
      BY <1>2, <1>4, <1>5, SizesAssumption DEF Layout
    <3> QED
      BY <1>3, <1>4, <1>5, <2>1, <3>1, <3>2
  <2>2. CASE c # b
    <3>1. heap'[c] = heap[c] /\ c \in DOMAIN heap'
      BY <1>5, <1>7, <2>2
    <3>2. Payload(c) # p /\ Payload(c) \in DOMAIN live
      BY <1>3, <1>7, <2>2, BlockOfBuffer
    <3>3. live'[Payload(c)] = live[Payload(c)]
      BY <1>2, <3>2
    <3>4. Payload(c) + live[Payload(c)] <= c + HEADER + heap[c].size
      BY <1>7, BlockOfBuffer
    <3> QED
      BY <1>7, <3>1, <3>3, <3>4
  <2> QED
    BY <2>1, <2>2
<1>8. \A c \in DOMAIN heap' : ~ heap'[c].free => c \in Blocks /\ ~ heap[c].free
  BY <1>3, <1>5
<1> QED
  BY <1>1, <1>2, <1>6, <1>7, <1>8, BuffersStay

\* The steps that leave every taken block as it is.
LEMMA RestKeeps ==
  ASSUME IInv, Structure', UNCHANGED <<marks, live>>,
         \A c \in Blocks : ~ heap[c].free =>
           /\ c \in DOMAIN heap' /\ ~ heap'[c].free
           /\ heap'[c].padding = heap[c].padding /\ heap'[c].size = heap[c].size
           /\ heap'[c].tag = heap[c].tag,
         \A c \in DOMAIN heap' : ~ heap'[c].free => c \in Blocks /\ ~ heap[c].free
  PROVE  IInv'
<1>1. LiveSound' /\ DOMAIN live' = DOMAIN live
  BY DEF IInv, LiveSound
<1>2. \A c \in Blocks : ~ heap[c].free =>
        Payload(c) + live'[Payload(c)] <= c + HEADER + heap'[c].size
  BY BlockOfBuffer
<1> QED
  BY <1>1, <1>2, BuffersStay

\* Only what is nobody's buffer is refused.
LEMMA RefusedChangesNothing ==
  ASSUME IInv, NEW p \in Addr, FreeRefused(p)
  PROVE  live' = live
<1>1. p \notin DOMAIN live
  BY InvariantFindsHeader DEF FreeRefused, KfreeFindsHeader
<1>2. live' = [q \in DOMAIN live \ {p} |-> live[q]] /\ live = [q \in DOMAIN live |-> live[q]]
  BY DEF FreeRefused, Forget, IInv, LiveSound
<1>3. DOMAIN live \ {p} = DOMAIN live
  BY <1>1
<1> QED
  BY <1>2, <1>3

\* Every step keeps the invariant.
LEMMA StepKeeps == IInv /\ CallersKeepRules /\ [Next]_vars => IInv'
<1> SUFFICES ASSUME IInv, CallersKeepRules, [Next]_vars PROVE IInv'
  OBVIOUS
<1>0. Structure'
  BY StructureStep DEF IInv
<1>i. ASSUME UNCHANGED <<heap, marks, live>> PROVE IInv'
  BY <1>0, <1>i, RestKeeps DEF Blocks
<1>1. ASSUME NEW len \in Length, NEW align \in Alignment, Alloc(len, align) PROVE IInv'
  BY <1>1, <1>i DEF Alloc
<1>2. ASSUME NEW p \in Addr, Free(p) PROVE IInv'
  BY <1>0, <1>2, FreeKeeps
<1>3. ASSUME NEW p \in Addr, FreeRefused(p) PROVE IInv'
  <2>1. live' = live
    BY <1>3, RefusedChangesNothing
  <2> QED
    BY <1>3, <1>i, <2>1 DEF FreeRefused
<1>4. ASSUME NEW p \in Addr, NEW len \in Length, Shrink(p, len) \/ GrowInPlace(p, len)
      PROVE  IInv'
  BY <1>0, <1>4, ResizeKeeps
<1>5. ASSUME Take PROVE IInv'
  BY <1>0, <1>5, TakeKeeps
<1>6. ASSUME Expand PROVE IInv'
  <2>1. UNCHANGED <<marks, live>>
    BY <1>6 DEF Expand
  <2>2. /\ \A c \in Blocks : ~ heap[c].free =>
             /\ c \in DOMAIN heap' /\ ~ heap'[c].free
             /\ heap'[c].padding = heap[c].padding /\ heap'[c].size = heap[c].size
             /\ heap'[c].tag = heap[c].tag
        /\ \A c \in DOMAIN heap' : ~ heap'[c].free => c \in Blocks /\ ~ heap[c].free
    <3>1. /\ Blocks \subseteq DOMAIN heap'
          /\ \A c \in Blocks : heap'[c].free = heap[c].free
          /\ \A c \in Blocks : ~ heap[c].free => /\ heap'[c].size = heap[c].size
                                                 /\ heap'[c].padding = heap[c].padding
                                                 /\ heap'[c].tag = heap[c].tag
          /\ \A c \in DOMAIN heap' \ Blocks : heap'[c].free
      BY <1>6, ExpandDoes DEF IInv
    <3>2. ASSUME NEW c \in DOMAIN heap', ~ heap'[c].free PROVE c \in Blocks /\ ~ heap[c].free
      <4>1. c \in Blocks
        BY <3>1, <3>2
      <4>2. heap'[c].free = heap[c].free
        BY <3>1, <4>1
      <4> QED
        BY <3>2, <4>1, <4>2
    <3>3. ASSUME NEW c \in Blocks, ~ heap[c].free
          PROVE  /\ c \in DOMAIN heap' /\ ~ heap'[c].free
                 /\ heap'[c].padding = heap[c].padding /\ heap'[c].size = heap[c].size
                 /\ heap'[c].tag = heap[c].tag
      <4>1. heap'[c].free = heap[c].free
        BY <3>1
      <4> QED
        BY <3>1, <3>3, <4>1
    <3> QED
      BY <3>2, <3>3
  <2> QED
    BY <1>0, <2>1, <2>2, RestKeeps
<1>7. ASSUME ExpandFails PROVE IInv'
  BY <1>7, <1>i DEF ExpandFails
<1>8. ASSUME Coalesce PROVE IInv'
  <2>1. UNCHANGED <<marks, live>>
    BY <1>8 DEF Coalesce
  <2>2. /\ \A c \in Blocks : ~ heap[c].free =>
             /\ c \in DOMAIN heap' /\ ~ heap'[c].free
             /\ heap'[c].padding = heap[c].padding /\ heap'[c].size = heap[c].size
             /\ heap'[c].tag = heap[c].tag
        /\ \A c \in DOMAIN heap' : ~ heap'[c].free => c \in Blocks /\ ~ heap[c].free
    BY <1>8, CoalesceDoes DEF IInv
  <2> QED
    BY <1>0, <2>1, <2>2, RestKeeps
<1>9. ASSUME Coalesced PROVE IInv'
  BY <1>9, <1>i DEF Coalesced
<1>10. CASE UNCHANGED vars
  BY <1>10, <1>i DEF vars
<1> QED
  BY <1>1, <1>2, <1>3, <1>4, <1>5, <1>6, <1>7, <1>8, <1>9, <1>10 DEF Next, Call, Proceed

\* The inductive invariant of callers that keep to the rules.
THEOREM Invariant ==
  ASSUME CallersKeepRules
  PROVE  Spec => []IInv
<1>1. IInv /\ [Next]_vars => IInv'
  BY StepKeeps
<1> QED
  BY <1>1, InitInvariant, PTL DEF Spec

\* BuffersOwnBlocks: every buffer has a block of its own that is not free and holds it, and
\* every such block is some buffer's: no memory is handed out twice and none is lost.
THEOREM OwnBlocks ==
  ASSUME CallersKeepRules
  PROVE  Spec => []BuffersOwnBlocks
<1>1. IInv => BuffersOwnBlocks
  BY DEF IInv
<1> QED
  BY <1>1, Invariant, PTL

\* KfreeFindsHeader: the free of a buffer is never refused and finds its block, whatever its
\* alignment and whatever stale mark is in front of it.
THEOREM HeadersFound ==
  ASSUME CallersKeepRules
  PROVE  Spec => []KfreeFindsHeader
BY InvariantFindsHeader, Invariant, PTL

\* StaleFreeRefused: a free of what is nobody's buffer changes nothing.
THEOREM StaleRefused ==
  ASSUME CallersKeepRules
  PROVE  Spec => []StaleFreeRefused
<1>1. IInv => StaleFreeRefused
  BY InvariantRefusesStale
<1> QED
  BY <1>1, Invariant, PTL

------------------------------------------------------------------------------
(* The heap is a memory allocator. *)

\* Buffers lie in mapped memory, each apart from the others.
BuffersApart ==
  /\ \A p \in DOMAIN live : p + live[p] <= heap_end
  /\ \A p, q \in DOMAIN live : p # q => Buffer(p) \cap Buffer(q) = {}

\* The invariant implies it: the blocks of two buffers are different.
LEMMA InvariantSeparates == IInv => BuffersApart
<1> SUFFICES ASSUME IInv PROVE BuffersApart
  OBVIOUS
<1>1. Layout(heap, heap_end) /\ Blocks = DOMAIN heap /\ heap_end \in Nat
  BY SizesAssumption DEF IInv, Structure, Range, Blocks
<1>2. ASSUME NEW p \in DOMAIN live
      PROVE  \E b \in Blocks : /\ p = Payload(b) /\ b + HEADER <= p
                               /\ p + live[p] <= b + HEADER + heap[b].size
                               /\ p \in Nat /\ live[p] \in Nat \ {0}
  BY BlockOfBuffer DEF Addr
<1>3. ASSUME NEW p \in DOMAIN live PROVE p + live[p] <= heap_end
  <2>1. PICK b \in Blocks : /\ p + live[p] <= b + HEADER + heap[b].size
                            /\ p \in Nat /\ live[p] \in Nat \ {0}
    BY <1>2
  <2>2. b + HEADER + heap[b].size <= heap_end /\ b \in Nat /\ heap[b].size \in Nat
    BY <1>1 DEF Layout
  <2> QED
    BY <1>1, <2>1, <2>2, SizesAssumption
<1>4. ASSUME NEW p \in DOMAIN live, NEW q \in DOMAIN live, NEW x \in Buffer(p) \cap Buffer(q)
      PROVE  p = q
  <2>1. PICK b \in Blocks : /\ p = Payload(b) /\ b + HEADER <= p
                            /\ p + live[p] <= b + HEADER + heap[b].size
                            /\ p \in Nat /\ live[p] \in Nat \ {0}
    BY <1>2
  <2>2. PICK c \in Blocks : /\ q = Payload(c) /\ c + HEADER <= q
                            /\ q + live[q] <= c + HEADER + heap[c].size
                            /\ q \in Nat /\ live[q] \in Nat \ {0}
    BY <1>2
  <2>3. x \in p .. p + live[p] - 1 /\ x \in q .. q + live[q] - 1
    BY <1>4 DEF Buffer
  <2>4. /\ b \in Nat /\ heap[b].size \in Nat /\ c \in Nat /\ heap[c].size \in Nat
        /\ x \in Int
    BY <1>1, <2>1, <2>2, <2>3 DEF Layout
  <2>5. /\ b + HEADER <= x /\ x < b + HEADER + heap[b].size
        /\ c + HEADER <= x /\ x < c + HEADER + heap[c].size
    BY <2>1, <2>2, <2>3, <2>4, SizesAssumption
  <2>6. b = c
    BY <1>1, <2>4, <2>5, PayloadsApart
  <2> QED
    BY <2>1, <2>2, <2>6
<1> QED
  BY <1>3, <1>4 DEF BuffersApart

\* What a step makes of the buffers is what the allocator may do if the buffers are apart
\* afterwards.
LEMMA ApartIsClear ==
  ASSUME IInv', NEW p \in DOMAIN live', NEW len, live'[p] = len,
         \A q \in DOMAIN live \ {p} : q \in DOMAIN live' /\ live'[q] = live[q]
  PROVE  p + len <= heap_end' /\ Promise!Clear(p, len)
<1>1. BuffersApart'
  BY InvariantSeparates, PTL
<1>2. p + len <= heap_end'
  BY <1>1 DEF BuffersApart
<1>3. ASSUME NEW q \in DOMAIN live \ {p}
      PROVE  Promise!Buffer(p, len) \cap Promise!Buffer(q, live[q]) = {}
  <2>1. q \in DOMAIN live' /\ live'[q] = live[q] /\ q # p
    OBVIOUS
  <2>2. Buffer(p)' \cap Buffer(q)' = {}
    BY <1>1, <2>1 DEF BuffersApart
  <2>3. Buffer(p)' = Promise!Buffer(p, len) /\ Buffer(q)' = Promise!Buffer(q, live[q])
    BY <2>1 DEF Buffer, Promise!Buffer
  <2> QED
    BY <2>2, <2>3
<1> QED
  BY <1>2, <1>3 DEF Promise!Clear

\* Taking a block grants its payload.
LEMMA TakeGrants ==
  ASSUME IInv, IInv', Take
  PROVE  \E p \in Addr : Promise!Grant(p)
<1>1. PICK p \in Addr :
        /\ p % request.align = 0
        /\ live' = [q \in DOMAIN live \cup {p} |-> IF q = p THEN request.len ELSE live[q]]
        /\ answer' = p
  BY TakeDoes DEF IInv
<1>2. p \notin DOMAIN live
  BY <1>1, TakeKeeps DEF IInv
<1>3. request # NULL /\ request' = NULL /\ heap_end' = heap_end
  BY DEF Take
<1>4. /\ p \in DOMAIN live' /\ live'[p] = request.len
      /\ \A q \in DOMAIN live \ {p} : q \in DOMAIN live' /\ live'[q] = live[q]
  BY <1>1
<1>5. p + request.len <= heap_end /\ Promise!Clear(p, request.len)
  BY <1>3, <1>4, ApartIsClear
<1> QED
  BY <1>1, <1>2, <1>3, <1>5 DEF Promise!Grant, Promise!With

\* A buffer is resized where it is, over no other.
LEMMA ResizeResizes ==
  ASSUME IInv, IInv', CallersKeepRules, NEW p \in Addr, NEW len \in Length,
         Shrink(p, len) \/ GrowInPlace(p, len)
  PROVE  Promise!Resize(p, len)
<1>1. p \in DOMAIN live
  BY ResizeKeeps DEF IInv
<1>2. /\ live' = [live EXCEPT ![p] = len] /\ UNCHANGED <<heap_end, request, answer>>
      /\ request = NULL
  BY DEF Shrink, GrowInPlace, Resized, Idle
<1>3. /\ p \in DOMAIN live' /\ live'[p] = len
      /\ \A q \in DOMAIN live \ {p} : q \in DOMAIN live' /\ live'[q] = live[q]
  BY <1>1, <1>2
<1>4. p + len <= heap_end /\ Promise!Clear(p, len)
  BY <1>2, <1>3, ApartIsClear
<1>5. live' = Promise!With(p, len)
  BY <1>1, <1>2 DEF Promise!With
<1> QED
  BY <1>1, <1>2, <1>4, <1>5 DEF Promise!Resize

\* Every step is one of the allocator's or none.
LEMMA StepIsPromised ==
  ASSUME IInv, CallersKeepRules, [Next]_vars
  PROVE  [Promise!Next]_Promise!vars
<1>0. IInv'
  BY StepKeeps
<1>1. ASSUME NEW len \in Length, NEW align \in Alignment, Alloc(len, align)
      PROVE  Promise!Next
  BY <1>1 DEF Alloc, Idle, Promise!Next, Promise!Ask
<1>2. ASSUME NEW p \in Addr, Free(p) PROVE Promise!Next
  <2>1. p \in DOMAIN live
    BY <1>0, <1>2, FreeKeeps DEF IInv
  <2>2. Promise!Release(p)
    BY <1>2, <2>1 DEF Free, Forget, Idle, Promise!Release
  <2> QED
    BY <2>2 DEF Promise!Next
<1>3. ASSUME NEW p \in Addr, FreeRefused(p) PROVE UNCHANGED Promise!vars
  BY <1>3, RefusedChangesNothing DEF FreeRefused, Promise!vars
<1>4. ASSUME NEW p \in Addr, NEW len \in Length, Shrink(p, len) \/ GrowInPlace(p, len)
      PROVE  Promise!Next
  BY <1>0, <1>4, ResizeResizes DEF Promise!Next
<1>5. ASSUME Take PROVE Promise!Next
  BY <1>0, <1>5, TakeGrants DEF Promise!Next
<1>6. ASSUME Expand PROVE Promise!Next
  <2>1. heap_end' > heap_end
    BY <1>6, ExpandDoes DEF IInv
  <2> QED
    BY <1>6, <2>1 DEF Expand, Promise!Next, Promise!Grow
<1>7. ASSUME ExpandFails PROVE Promise!Next
  <2>1. PICK pages \in 0 .. PagesNeeded(request.len) - 1 : heap_end' = heap_end + pages * PAGE
    BY <1>7 DEF ExpandFails
  <2>2. pages \in Nat /\ pages * PAGE \in Nat /\ heap_end \in Nat
    BY SizesAssumption DEF IInv, Structure, Range
  <2>3. heap_end' >= heap_end
    BY <2>1, <2>2
  <2> QED
    BY <1>7, <2>3 DEF ExpandFails, Promise!Next, Promise!Refuse
<1>8. ASSUME Coalesce \/ Coalesced \/ UNCHANGED vars PROVE UNCHANGED Promise!vars
  BY <1>8 DEF Coalesce, Coalesced, vars, Promise!vars
<1> QED
  BY <1>1, <1>2, <1>3, <1>4, <1>5, <1>6, <1>7, <1>8 DEF Next, Call, Proceed

\* KeepsPromise: the heap is a memory allocator in the sense of MemoryAllocator: what it
\* hands out has the alignment asked for and overlaps nothing, whatever was split, merged,
\* moved to the end of the heap or resized in between.
THEOREM HeapIsAllocator ==
  ASSUME CallersKeepRules
  PROVE  Spec => KeepsPromise
<1>1. Init => Promise!Init
  BY SizesAssumption DEF Init, Promise!Init
<1>2. IInv /\ [Next]_vars => [Promise!Next]_Promise!vars
  BY StepIsPromised
<1> QED
  BY <1>1, <1>2, Invariant, PTL DEF Spec, KeepsPromise, Promise!Spec
==============================================================================
