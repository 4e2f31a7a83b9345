------------------------------ MODULE ElfLoader ------------------------------
(***************************************************************************)
(* The ELF loader (elf_loader.zig) on top of the virtual memory manager:   *)
(* loadElf maps a program in the kernel's page tables, loadElfIntoPML4 in  *)
(* those of an address space and again in the kernel's, through which its  *)
(* segments are copied.                                                    *)
(*                                                                         *)
(* A program is loaded once.  A load is interleaved, page by page, with    *)
(* what else the kernel does.  Programs are valid and have a segment to    *)
(* load; what a segment holds is told apart by program and segment.        *)
(***************************************************************************)
EXTENDS Vmm

CONSTANTS
  Program,
  Segments  \* Segments[p]: the pages of each PT_LOAD segment of p

ASSUME ProgramsAssumption ==
  /\ Segments \in [Program -> Seq(Seq(Page))]
  /\ \A p \in Program : Segments[p] # << >>
  /\ \A p \in Program : \A s \in DOMAIN Segments[p] : \A i, j \in DOMAIN Segments[p][s] :
       Segments[p][s][i] = Segments[p][s][j] => i = j
ASSUME LoadAssumption ==
  NULL \notin [program : Program, root : Nat, segment : Nat, page : Nat]

VARIABLES
  load,     \* the load that runs: [program, root, segment, page], or NULL
  content,  \* content[f]: the <<program, segment>> whose bytes frame f has
  loaded,   \* the loads that succeeded: [program, root, before]
  refused,  \* the programs whose load failed
  dropped   \* the frames lost by loads that failed

loadVars == <<load, content, loaded, refused, dropped>>
vars == <<vmVars, loadVars>>

Init ==
  /\ VmInit
  /\ load = NULL
  /\ content = [f \in Frame |-> {}]
  /\ loaded = {} /\ refused = {} /\ dropped = {}

\* loadElf for the kernel's table, loadElfIntoPML4 for another.
Load(p, root) ==
  /\ phase = "up" /\ load = NULL
  /\ p \notin {l.program : l \in loaded} \cup refused
  /\ load' = [program |-> p, root |-> root, segment |-> 1, page |-> 1]
  /\ UNCHANGED <<vmVars, content, loaded, refused, dropped>>

Segment == Segments[load.program][load.segment]

Fail ==
  /\ refused' = refused \cup {load.program}
  /\ load' = NULL

\* The page is mapped where it is asked for; the frame is not needed when there is one.
MapProgramPage(f, v) ==
  LET m == [M EXCEPT !.free = @ \ {f}]
      r == IF load.root = pml4 THEN mapPage(m, v, f) ELSE mapPageInPML4(m, load.root, v, f)
  IN  IF r.err = "AlreadyMapped" THEN [r EXCEPT !.m = freePage(r.m, f)] ELSE r

\* Then for copying in the kernel's tables, whatever comes of it.
MapForCopying(m, f, v) == IF load.root = pml4 THEN m ELSE mapPage(m, v, f).m

LoadPage ==
  /\ phase = "up" /\ load # NULL
  /\ load.page <= Len(Segment)
  /\ UNCHANGED <<memory, others, phase, heap_end, roots, loaded>>
  /\ IF free = {} THEN Fail /\ UNCHANGED <<free, table, content, dropped>>
     ELSE LET f == Lowest(free)
              v == Segment[load.page]
              r == MapProgramPage(f, v)
          IN  IF r.err = "OutOfMemory"
              THEN /\ MemoryBecomes(r.m)
                   /\ dropped' = dropped \cup {f}
                   /\ Fail
                   /\ UNCHANGED content
              ELSE /\ MemoryBecomes(MapForCopying(r.m, f, v))
                   /\ content' = IF r.err = NULL THEN [content EXCEPT ![f] = {}] ELSE content
                   /\ load' = [load EXCEPT !.page = @ + 1]
                   /\ UNCHANGED <<refused, dropped>>

\* The frames that the kernel finds at the segment's pages.
Destination == {Translate(pml4, Segment[i]) : i \in DOMAIN Segment}

FaultyCopy(f) == {<<load.program, load.segment>>}

\* What frame f has once the segment is copied to it: what another program has there is
\* taken to be overwritten.
Copy(f) ==
  {c \in content[f] : c[1] = load.program} \cup {<<load.program, load.segment>>}

\* The kernel faults if it has not been able to map a page for itself.  Address spaces that
\* there are when a load ends are remembered: they need not inherit the program.
CopySegment ==
  /\ phase = "up" /\ load # NULL
  /\ load.page > Len(Segment)
  /\ UNCHANGED <<memory, free, others, table, heap_end, roots, refused, dropped>>
  /\ IF NULL \in Destination
     THEN phase' = "halted" /\ UNCHANGED <<load, content, loaded>>
     ELSE /\ content' = [f \in Frame |-> IF f \in Destination THEN Copy(f) ELSE content[f]]
          /\ IF load.segment < Len(Segments[load.program])
             THEN /\ load' = [load EXCEPT !.segment = @ + 1, !.page = 1]
                  /\ UNCHANGED loaded
             ELSE /\ load' = NULL
                  /\ loaded' = loaded \cup {[program |-> load.program, root |-> load.root,
                                             before |-> roots]}
          /\ UNCHANGED phase

Next ==
  \/ VmNext /\ UNCHANGED loadVars
  \/ \E p \in Program, root \in Roots : Load(p, root)
  \/ LoadPage \/ CopySegment

Spec == Init /\ [][Next]_vars

------------------------------------------------------------------------------
(* Properties *)

\* Every variable has its type.
TypeOK ==
  /\ memory \subseteq Frame /\ free \subseteq memory /\ others \subseteq memory
  /\ table \in [Frame \cup Boot -> [Index -> memory \cup {pdpt, identity, NULL}]]
  /\ phase \in {"test", "tested", "heap", "up", "halted"}
  /\ heap_end \in 0 .. Len(HeapPage)
  /\ roots \subseteq memory /\ Cardinality(roots) <= MAX_ROOTS
  /\ load # NULL => load.program \in Program /\ load.root \in Roots
  /\ content \in [Frame -> SUBSET (Program \X Nat)]
  /\ refused \subseteq Program /\ dropped \subseteq memory

\* The tables of all address spaces are a tree of four levels but for what the kernel's
\* first level shares with those copied from it: no frame is a table at two places or a
\* table and a page, no two pages of the kernel share a frame, and none of them is free.
\* An address space holds a copy of entries the kernel may change, and tables made for a
\* page that cannot be mapped are given back, some of which are not that page's only.
TablesSound ==
  LET Levels == <<Roots, Pdpts, Pds, Pts, Mapping>>
      Entries(tables) ==
        {x \in tables \X Index : table[x[1]][x[2]] \notin {NULL, identity}}
      Seen(root) == {v \in Page : Translate(root, v) # NULL}
  IN  /\ \A i, j \in DOMAIN Levels : i # j => Levels[i] \cap Levels[j] = {}
      /\ \A x, y \in Entries(Roots) :
           table[x[1]][x[2]] = table[y[1]][y[2]] => x[2] = y[2]
      /\ \A tables \in {Pdpts, Pds} : \A x, y \in Entries(tables) :
           table[x[1]][x[2]] = table[y[1]][y[2]] => x = y
      /\ \A v, w \in Seen(pml4) : Translate(pml4, v) = Translate(pml4, w) => v = w
      /\ (Tables \cup Mapping) \cap (free \cup others) = {}

\* Every frame taken is a table, or mapped somewhere, or held by another component, or
\* was dropped by a load that could not map it: requests that fail for want of memory, on
\* whatever level, lose nothing else.  (A fault of the kernel may come in the middle.)
FramesAccounted ==
  phase # "halted" => memory \ free = ((Tables \cup Mapping) \ Boot) \cup others \cup dropped

\* Every address space sees the pages of the heap as the kernel does, also those the heap
\* got after the address space was made: system calls and interrupts run on it.
HeapEverywhere ==
  \A i \in 1 .. heap_end, root \in roots :
    /\ Translate(pml4, HeapPage[i]) # NULL
    /\ Translate(root, HeapPage[i]) = Translate(pml4, HeapPage[i])

\* A program that was loaded stays whole where it was loaded, and in every address space
\* made after loadElf had returned ("the caller should create a user PML4 AFTER calling
\* loadElf (so the user PML4 inherits the mappings)"), whatever is mapped or loaded at
\* other pages later.
ProgramsIntact ==
  \A l \in loaded :
    \A root \in {l.root} \cup (IF l.root = pml4 THEN roots \ l.before ELSE {}) :
      \A s \in DOMAIN Segments[l.program] :
        \A i \in DOMAIN Segments[l.program][s] :
          LET f == Translate(root, Segments[l.program][s][i])
          IN  f # NULL /\ <<l.program, s>> \in content[f]

\* Once the kernel is up, a page that is mapped stays mapped to its frame in every address
\* space, whatever is mapped besides or fails to be.
TranslationsStay ==
  [][phase = "up" =>
       \A root \in Roots, v \in Page :
         Translate(root, v) \in {NULL, Translate(root, v)'}]_vars

==============================================================================
