--------------------------------- MODULE Vmm ---------------------------------
(***************************************************************************)
(* The virtual memory manager (vmm64.zig) and the kernel's own uses of it: *)
(* the test at boot (main64.zig) and the heap (heap64.zig).                *)
(*                                                                         *)
(* Page tables are what they are in memory, four levels of them, each with *)
(* few entries.  Left out are the access rights in the entries, the TLB,   *)
(* and addresses that are not aligned or lie in the identity map of the    *)
(* boot code, where an entry may be a huge page.                           *)
(***************************************************************************)
EXTENDS Integers, Sequences, FiniteSets

CONSTANTS
  MemorySize, \* how many page frames the physical memory manager may have
  Index,      \* of entries in a table
  test_virt,  \* the page mapped and unmapped at boot
  HeapPage,   \* the pages from HEAP_START to HEAP_MAX, a sequence
  MAX_ROOTS,  \* bounds the address spaces that are made
  NULL        \* an entry that is not present, no answer

Frame == UNION {1 .. n : n \in MemorySize}

pml4 == 0        \* of the kernel, made by the boot code
pdpt == -1       \* under its entry 0, which
identity == -2   \* holds the identity map below its entry 0
Boot == {pml4, pdpt}

Page == {<<i, j, k, l>> : i, j, k, l \in Index} \ {<<0, 0, k, l>> : k, l \in Index}

ASSUME SizesAssumption ==
  MemorySize \subseteq Nat /\ MAX_ROOTS \in Nat /\ Index \subseteq Nat /\ 0 \in Index
ASSUME NullAssumption == NULL \notin Int /\ NULL \notin {"AlreadyMapped", "OutOfMemory"}
ASSUME PagesAssumption ==
  /\ test_virt \in Page /\ HeapPage \in Seq(Page) /\ HeapPage # << >>
  /\ test_virt[1] = 0 /\ \A i \in DOMAIN HeapPage : HeapPage[i][1] = 0
  /\ \A i, j \in DOMAIN HeapPage : HeapPage[i] = HeapPage[j] => i = j

VARIABLES
  memory,    \* the frames there are
  free,      \* those nobody holds
  others,    \* those held by other components: one or none, from before the boot
  table,     \* what every frame says if it is read as a table
  phase,     \* of the boot, "up" after it, "halted" after a page fault of the kernel
  heap_end,  \* the heap's pages mapped so far
  roots      \* the tables createUserPML4 has returned

vmVars == <<memory, free, others, table, phase, heap_end, roots>>

Empty == [i \in Index |-> NULL]

VmInit ==
  /\ memory \in {1 .. n : n \in MemorySize}
  /\ others \in {{}, {f \in memory : f = 1}} /\ free = memory \ others
  /\ table = [t \in Frame \cup Boot |->
                CASE t = pml4 -> [Empty EXCEPT ![0] = pdpt]
                  [] t = pdpt -> [Empty EXCEPT ![0] = identity]
                  [] OTHER -> Empty]
  /\ phase = "test" /\ heap_end = 0 /\ roots = {}

------------------------------------------------------------------------------
(* Operations on memory, [free, table].                                    *)
(*                                                                         *)
(* Definitions named Faulty... are not the code's: each is a plausible     *)
(* mistake in the definition after it, put in its place to see that a      *)
(* property notices.                                                       *)

M == [free |-> free, table |-> table]

\* An operation's outcome.
MemoryBecomes(m) == free' = m.free /\ table' = m.table

\* pmm.allocPage.  The manager searches from a hint that a frame given back moves back to
\* itself; where frames are asked for one at a time, this is a search from the front.
Lowest(frames) == CHOOSE f \in frames : \A g \in frames : f <= g

freePage(m, f) == [m EXCEPT !.free = @ \cup {f}]

\* One level down, through entry i of the table reached, making the table that is missing if
\* there is a frame for it.
Descend(w, i) ==
  LET new == Lowest(w.free)
  IN  IF ~ w.ok THEN w
      ELSE IF w.table[w.at][i] # NULL THEN [w EXCEPT !.at = w.table[w.at][i]]
      ELSE IF w.free = {} THEN [w EXCEPT !.ok = FALSE]
      ELSE [ok |-> TRUE, at |-> new, made |-> w.made \cup {<<w.at, i, new>>},
            free |-> w.free \ {new},
            table |-> [w.table EXCEPT ![new] = Empty, ![w.at][i] = new]]

\* From the table root down to the page table for page v; stops where there is no frame for
\* a table.  What it made is in .made, as <<in which table, at which entry, table>>.
Walk(m, root, v) ==
  LET start == [ok |-> TRUE, at |-> root, made |-> {}, free |-> m.free, table |-> m.table]
  IN  Descend(Descend(Descend(start, v[1]), v[2]), v[3])

\* The page table reached maps page v to frame f, unless it maps it to one already.
Mapped(w, v, f) ==
  IF w.table[w.at][v[4]] # NULL
  THEN [err |-> "AlreadyMapped", m |-> [free |-> w.free, table |-> w.table]]
  ELSE [err |-> NULL,
        m |-> [free |-> w.free, table |-> [w.table EXCEPT ![w.at][v[4]] = f]]]

FaultyUndone(w) ==
  [free |-> w.free \cup {x[3] : x \in w.made}, table |-> w.table]

\* The tables made are given back and their entries cleared.
Undone(w) ==
  [free |-> w.free \cup {x[3] : x \in w.made},
   table |-> [t \in DOMAIN w.table |->
                [i \in Index |-> IF \E x \in w.made : x[1] = t /\ x[2] = i THEN NULL
                                 ELSE w.table[t][i]]]]

FaultyMapPage(m, v, f) ==
  LET w == Walk(m, pml4, v)
  IN  IF w.ok
      THEN [err |-> NULL, m |-> [free |-> w.free, table |-> [w.table EXCEPT ![w.at][v[4]] = f]]]
      ELSE [err |-> "OutOfMemory", m |-> Undone(w)]

mapPage(m, v, f) ==
  LET w == Walk(m, pml4, v)
  IN  IF w.ok THEN Mapped(w, v, f) ELSE [err |-> "OutOfMemory", m |-> Undone(w)]

\* The tables that could be made stay.
mapPageInPML4(m, root, v, f) ==
  LET w == Walk(m, root, v)
  IN  IF w.ok THEN Mapped(w, v, f)
      ELSE [err |-> "OutOfMemory", m |-> [free |-> w.free, table |-> w.table]]

isTableEmpty(m, t) == m.table[t] = Empty

Clear(m, t, i) == [m EXCEPT !.table[t][i] = NULL]

\* Table t, under entry i of another, is given back if it is empty.
FreeIfEmpty(m, t, above, i) ==
  IF isTableEmpty(m, t) THEN Clear(freePage(m, t), above, i) ELSE m

\* What the entry i of a table says, in the tables tb; nothing if there is no table.
Entry(tb, t, i) == IF t = NULL THEN NULL ELSE tb[t][i]

\* The page's entry is cleared, and upwards every table that is empty then is given back.
unmapPage(m, v) ==
  LET pdpt_phys == Entry(m.table, pml4, v[1])
      pd_phys == Entry(m.table, pdpt_phys, v[2])
      pt_phys == Entry(m.table, pd_phys, v[3])
      pt == FreeIfEmpty(Clear(m, pt_phys, v[4]), pt_phys, pd_phys, v[3])
      pd == FreeIfEmpty(pt, pd_phys, pdpt_phys, v[2])
  IN  IF pt_phys = NULL THEN m ELSE FreeIfEmpty(pd, pdpt_phys, pml4, v[1])

------------------------------------------------------------------------------
(* What the processor finds. *)

\* The frame that page v is translated to under a root, NULL if there is none.
Lookup(tb, root, v) ==
  Entry(tb, Entry(tb, Entry(tb, Entry(tb, root, v[1]), v[2]), v[3]), v[4])

Translate(root, v) == Lookup(table, root, v)

------------------------------------------------------------------------------
(* The kernel. *)

\* A frame is taken and mapped at a page of the kernel.  Without one the page cannot be
\* mapped, and with an error of mapPage the frame is still there to be given back.
KernelPage(v) ==
  IF free = {} THEN [err |-> "OutOfMemory", frame |-> NULL, m |-> M]
  ELSE LET f == Lowest(free)
           r == mapPage([M EXCEPT !.free = @ \ {f}], v, f)
       IN  [err |-> r.err, frame |-> f, m |-> r.m]

\* kernel_main writes to the page, mapped or not.
TestMap ==
  /\ phase = "test"
  /\ LET r == KernelPage(test_virt)
     IN  /\ MemoryBecomes(r.m)
         /\ phase' = CASE r.frame = NULL -> "heap" [] r.err = NULL -> "tested"
                       [] OTHER -> "halted"
  /\ UNCHANGED <<memory, others, heap_end, roots>>

FaultyTestUnmap ==
  /\ phase = "tested"
  /\ table' = unmapPage(M, test_virt).table
  /\ free' = free \cup {Translate(pml4, test_virt)'}
  /\ phase' = "heap"
  /\ UNCHANGED <<memory, others, heap_end, roots>>

TestUnmap ==
  /\ phase = "tested"
  /\ MemoryBecomes(freePage(unmapPage(M, test_virt), Translate(pml4, test_virt)))
  /\ phase' = "heap"
  /\ UNCHANGED <<memory, others, heap_end, roots>>

FaultyExtendHeap ==
  LET r == KernelPage(HeapPage[heap_end + 1])
  IN  /\ MemoryBecomes(r.m)
      /\ heap_end' = IF r.err = NULL THEN heap_end + 1 ELSE heap_end

\* The next page of the heap is mapped; a frame that cannot be mapped is given back.
ExtendHeap ==
  LET r == KernelPage(HeapPage[heap_end + 1])
  IN  IF r.err = NULL THEN MemoryBecomes(r.m) /\ heap_end' = heap_end + 1
      ELSE /\ MemoryBecomes(IF r.frame = NULL THEN r.m ELSE freePage(r.m, r.frame))
           /\ UNCHANGED heap_end

InitHeap ==
  /\ phase = "heap"
  /\ phase' = "up"
  /\ ExtendHeap
  /\ UNCHANGED <<memory, others, roots>>

\* Only a heap that could be initialized grows.
Expand ==
  /\ phase = "up"
  /\ heap_end \in 1 .. Len(HeapPage) - 1
  /\ ExtendHeap
  /\ UNCHANGED <<memory, others, phase, roots>>

FaultyCopied == [i \in Index |-> IF i = 0 THEN NULL ELSE table[pml4][i]]

\* The entries of the kernel's table that an address space starts with.
Copied == table[pml4]

createUserPML4 ==
  /\ phase = "up" /\ free # {} /\ Cardinality(roots) < MAX_ROOTS
  /\ LET new == Lowest(free)
     IN  /\ free' = free \ {new}
         /\ table' = [table EXCEPT ![new] = Copied]
         /\ roots' = roots \cup {new}
  /\ UNCHANGED <<memory, others, phase, heap_end>>

\* Another component gives its frame back.
OthersReturn ==
  /\ phase = "up" /\ others # {}
  /\ others' = {}
  /\ free' = free \cup others
  /\ UNCHANGED <<memory, table, phase, heap_end, roots>>

VmNext ==
  \/ TestMap \/ TestUnmap \/ InitHeap \/ Expand
  \/ createUserPML4
  \/ OthersReturn

------------------------------------------------------------------------------

Below(tables) == {table[t][i] : t \in tables, i \in Index} \ {NULL, identity}

Roots == roots \cup {pml4}
Pdpts == Below(Roots)
Pds == Below(Pdpts)
Pts == Below(Pds)
Tables == Roots \cup Pdpts \cup Pds \cup Pts
Mapping == Below(Pts)  \* the frames pages are mapped to

==============================================================================
