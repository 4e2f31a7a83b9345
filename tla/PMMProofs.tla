------------------------------ MODULE PMMProofs ------------------------------
(***************************************************************************)
(* Proofs about the physical memory manager for every number of frames,    *)
(* every memory map and every set of owners.  The inductive invariant is   *)
(* the type invariant, the ownership of frames, the exact count and what   *)
(* each search loop knows: ownership needs the last one, because a run is  *)
(* marked at the end of a search that looked at its frames one at a time.  *)
(***************************************************************************)
EXTENDS PMM, FiniteSetTheorems, TLAPS

IInv == TypeOK /\ Ownership /\ CountExact /\ ScanKnows

------------------------------------------------------------------------------

\* The frames that are out are the marked frames init did not reserve.
LEMMA HeldFrames ==
  ASSUME Ownership
  PROVE  Held = bitmap \ reserved
BY DEF Ownership

\* Handing a set of unmarked frames to one owner keeps the ownership of all.
LEMMA GiveKeepsOwnership ==
  ASSUME TypeOK, Ownership, NEW o \in Owner, NEW S \in SUBSET Page,
         S \cap bitmap = {},
         bitmap' = bitmap \cup S,
         held' = [held EXCEPT ![o] = @ \cup S],
         reserved' = reserved
  PROVE  Ownership'
<1> USE DEF Ownership, TypeOK
<1>1. \A q \in Owner : held[q] \subseteq bitmap
  BY DEF Held
<1>2. \A q \in Owner : held'[q] = IF q = o THEN held[q] \cup S ELSE held[q]
  OBVIOUS
<1>3. Held' = Held \cup S
  BY <1>2 DEF Held
<1>4. \A o1, o2 \in Owner : o1 # o2 => held'[o1] \cap held'[o2] = {}
  BY <1>1, <1>2
<1>5. Held' \cap reserved' = {} /\ bitmap' = reserved' \cup Held'
  BY <1>3
<1>. QED
  BY <1>4, <1>5

\* Taking one frame back from its owner keeps the ownership of the others.
LEMMA TakeKeepsOwnership ==
  ASSUME TypeOK, Ownership, NEW o \in Owner, NEW p \in held[o],
         bitmap' = bitmap \ {p},
         held' = [held EXCEPT ![o] = @ \ {p}],
         reserved' = reserved
  PROVE  Ownership'
<1> USE DEF Ownership, TypeOK
<1>1. \A q \in Owner : held'[q] = held[q] \ {p}
  OBVIOUS
<1>2. p \in Held /\ p \notin reserved
  BY DEF Held
<1>3. Held' = Held \ {p}
  BY <1>1 DEF Held
<1>4. \A o1, o2 \in Owner : o1 # o2 => held'[o1] \cap held'[o2] = {}
  BY <1>1
<1>. QED
  BY <1>2, <1>3, <1>4

\* Marked frames are finitely many, so that they can be counted.
LEMMA Finite ==
  ASSUME TypeOK
  PROVE  IsFiniteSet(bitmap \ reserved)
<1>1. IsFiniteSet(Page)
  BY PagesAssumption, FS_Interval DEF Page
<1>2. bitmap \ reserved \in SUBSET Page
  BY DEF TypeOK
<1>. QED
  BY <1>1, <1>2, FS_Subset

\* The count follows a set of frames of known size that is handed out.
LEMMA GiveKeepsCount ==
  ASSUME TypeOK, Ownership, Ownership', CountExact, NEW S \in SUBSET Page,
         S \cap bitmap = {}, IsFiniteSet(S),
         bitmap' = bitmap \cup S, reserved' = reserved,
         allocated_pages' = allocated_pages + Cardinality(S)
  PROVE  CountExact'
<1>1. /\ Held' = Held \cup S
      /\ Held \cap S = {}
  BY HeldFrames DEF Ownership, TypeOK
<1>2. IsFiniteSet(Held)
  BY Finite, HeldFrames
<1>3. Cardinality(Held \cup S) = Cardinality(Held) + Cardinality(S) - Cardinality({})
  BY <1>1, <1>2, FS_Union
<1>4. Cardinality(Held) \in Nat /\ Cardinality(S) \in Nat
  BY <1>2, FS_CardinalityType
<1>. QED
  BY <1>1, <1>3, <1>4, FS_EmptySet DEF CountExact

\* The count follows a frame that comes back: it is positive then.
LEMMA TakeKeepsCount ==
  ASSUME TypeOK, Ownership, Ownership', CountExact, NEW p \in bitmap \ reserved,
         bitmap' = bitmap \ {p}, reserved' = reserved,
         allocated_pages' = IF allocated_pages > 0 THEN allocated_pages - 1 ELSE 0
  PROVE  CountExact'
<1>1. Held' = Held \ {p} /\ p \in Held
  BY HeldFrames DEF Ownership
<1>2. IsFiniteSet(Held)
  BY Finite, HeldFrames
<1>3. Cardinality(Held \ {p}) = Cardinality(Held) - 1
  BY <1>1, <1>2, FS_RemoveElement
<1>4. Cardinality(Held) \in Nat /\ Cardinality(Held) # 0
  BY <1>1, <1>2, FS_CardinalityType, FS_EmptySet
<1>. QED
  BY <1>1, <1>3, <1>4 DEF CountExact

------------------------------------------------------------------------------

\* What freePage does to a frame its owner returns.
LEMMA UnmarkHeld ==
  ASSUME TypeOK, Ownership, NEW o \in Owner, NEW p \in held[o], Unmark(p)
  PROVE  /\ bitmap' = bitmap \ {p}
         /\ allocated_pages' = IF allocated_pages > 0 THEN allocated_pages - 1 ELSE 0
         /\ p \in bitmap \ reserved
<1>1. p \in Page /\ p \in Held
  BY DEF TypeOK, Held
<1>2. p \in bitmap \ reserved
  BY <1>1, HeldFrames
<1>3. Freeable(p)
  BY <1>1, <1>2, PagesAssumption DEF Freeable, Page
<1>. QED
  BY <1>2, <1>3 DEF Unmark, freePageInternal

\* freePage keeps the bitmap, the count and the hint in range.
LEMMA UnmarkType ==
  ASSUME TypeOK, NEW p \in 0 .. NotAPage, Unmark(p)
  PROVE  bitmap' \in SUBSET Page /\ allocated_pages' \in Nat /\ next_free_hint' \in Page
<1> USE PagesAssumption DEF TypeOK, Page, NotAPage
<1>1. CASE Freeable(p)
  <2>1. bitmap' = bitmap \ {p} /\ p \in Page
    BY <1>1 DEF Unmark, Freeable, freePageInternal
  <2>2. allocated_pages' \in Nat
    BY <1>1 DEF Unmark
  <2>3. next_free_hint' \in Page
    BY <1>1, <2>1 DEF Unmark
  <2>. QED
    BY <2>1, <2>2, <2>3
<1>2. CASE ~ Freeable(p)
  BY <1>2 DEF Unmark
<1>. QED
  BY <1>1, <1>2

\* The run a contiguous search closes is in the bitmap's range and unmarked.
LEMMA RunFound ==
  ASSUME TypeOK, ScanKnows, ContiguousTake
  PROVE  /\ RunStart \in Page
         /\ RunStart + call.count - 1 = call.i
         /\ Run(RunStart, call.count) \subseteq Page
         /\ Run(RunStart, call.count) \cap bitmap = {}
<1> USE PagesAssumption DEF TypeOK, Page
<1>1. /\ RunStart + call.run_len = call.i
      /\ call.run_len < call.count
      /\ Run(RunStart, call.run_len) \cap bitmap = {}
  BY DEF ScanKnows, ContiguousTake, RunStart
<1>2. /\ call.run_len + 1 = call.count
      /\ RunStart \in Nat
      /\ call.i \in Page
  BY <1>1 DEF ContiguousTake, RunStart
<1>3. Run(RunStart, call.count) = Run(RunStart, call.run_len) \cup {call.i}
  BY <1>1, <1>2 DEF Run
<1>4. Run(RunStart, call.count) \cap bitmap = {}
  BY <1>1, <1>3 DEF ContiguousTake
<1>5. RunStart + call.count - 1 = call.i /\ RunStart \in Page
  BY <1>1, <1>2
<1>6. Run(RunStart, call.count) \subseteq Page
  BY <1>2, <1>5 DEF Run
<1>. QED
  BY <1>4, <1>5, <1>6

------------------------------------------------------------------------------

\* Every step keeps the types: the hint and the scan index stay inside the bitmap.
LEMMA TypeStep == TypeOK /\ ScanKnows /\ [Next]_vars => TypeOK'
<1> SUFFICES ASSUME TypeOK, ScanKnows, [Next]_vars PROVE TypeOK'
  OBVIOUS
<1> USE PagesAssumption, NullAssumption
    DEF TypeOK, Page, Ops, Scan, Search, Freeing, NoCall
<1>1. ASSUME NEW o \in Owner, AllocPage(o) PROVE TypeOK'
  BY <1>1 DEF AllocPage
<1>2. ASSUME NEW o \in Owner, NEW count \in 1 .. MAX_PAGES, AllocContiguous(o, count)
      PROVE TypeOK'
  BY <1>2 DEF AllocContiguous
<1>3. ASSUME NEW count \in {0, MAX_PAGES + 1}, RejectContiguous(count) PROVE TypeOK'
  BY <1>3 DEF RejectContiguous, ReturnNull
<1>4. ASSUME NEW o \in Owner, NEW p \in 0 .. NotAPage, FreePage(o, p) PROVE TypeOK'
  <2>1. bitmap' \in SUBSET Page /\ allocated_pages' \in Nat /\ next_free_hint' \in Page
    BY <1>4, UnmarkType DEF FreePage
  <2>2. held' \in [Owner -> SUBSET Page]
    BY <1>4 DEF FreePage
  <2>. QED
    BY <1>4, <2>1, <2>2 DEF FreePage
<1>5. ASSUME NEW o \in Owner, NEW first \in Page, NEW count \in 1 .. MAX_PAGES,
             FreeContiguous(o, first, count)
      PROVE TypeOK'
  BY <1>5 DEF FreeContiguous
<1>6. CASE AllocPageTake
  <2>0. call.i \in Page /\ bitmap' = bitmap \cup {call.i}
    BY <1>6 DEF AllocPageTake, setPageInternal
  <2>1. bitmap' \in SUBSET Page
    BY <2>0
  <2>5. allocated_pages' \in Nat
    BY <1>6 DEF AllocPageTake
  <2>2. next_free_hint' \in Page
    BY <1>6 DEF AllocPageTake, HintAfter
  <2>3. held' \in [Owner -> SUBSET Page]
    BY <1>6 DEF AllocPageTake, Give
  <2>4. answer' \in Page /\ call' = NoCall /\ reserved' = reserved
    BY <1>6 DEF AllocPageTake, Give
  <2>. QED
    BY <2>1, <2>2, <2>3, <2>4, <2>5
<1>7. CASE AllocPageAdvance
  BY <1>7 DEF AllocPageAdvance, ScanEnds
<1>8. CASE AllocPageFail
  BY <1>8 DEF AllocPageFail, ReturnNull
<1>9. CASE ContiguousTake
  <2>1. Run(RunStart, call.count) \subseteq Page /\ RunStart \in Page
        /\ RunStart + call.count - 1 \in Page
    BY <1>9, RunFound DEF ContiguousTake
  <2>2. held' \in [Owner -> SUBSET Page]
    BY <1>9, <2>1 DEF ContiguousTake, Give
  <2>3. bitmap' \in SUBSET Page
    BY <1>9, <2>1 DEF ContiguousTake
  <2>4. next_free_hint' \in Page
    BY <1>9, <2>1 DEF ContiguousTake, HintAfter
  <2>5. allocated_pages' \in Nat /\ answer' \in Page /\ call' = NoCall
        /\ reserved' = reserved
    BY <1>9, <2>1 DEF ContiguousTake, Give
  <2>. QED
    BY <2>2, <2>3, <2>4, <2>5
<1>10. CASE ContiguousExtend
  BY <1>10 DEF ContiguousExtend, RunStart
<1>11. CASE ContiguousReset
  BY <1>11 DEF ContiguousReset
<1>12. CASE ContiguousFail
  BY <1>12 DEF ContiguousFail, ReturnNull
<1>13. CASE FreeContiguousStep
  <2> DEFINE p == call.run_start + call.i
  <2>0. p \in held[call.owner] /\ call.owner \in Owner
    BY <1>13 DEF FreeContiguousStep, ScanKnows, Run
  <2>1. p \in 0 .. NotAPage
    BY <2>0 DEF NotAPage
  <2>2. bitmap' \in SUBSET Page /\ allocated_pages' \in Nat /\ next_free_hint' \in Page
    BY <1>13, <2>1, UnmarkType DEF FreeContiguousStep
  <2>3. held' \in [Owner -> SUBSET Page]
    BY <1>13 DEF FreeContiguousStep
  <2>. QED
    BY <1>13, <2>2, <2>3 DEF FreeContiguousStep
<1>14. CASE FreeContiguousReturn
  BY <1>14 DEF FreeContiguousReturn
<1>15. CASE UNCHANGED vars
  BY <1>15 DEF vars
<1>. QED
  BY <1>1, <1>2, <1>3, <1>4, <1>5, <1>6, <1>7, <1>8, <1>9, <1>10, <1>11, <1>12, <1>13,
     <1>14, <1>15 DEF Next, Start, Step

\* Every step keeps the ownership of the frames and the count of those that are out.
LEMMA OwnershipStep == IInv /\ [Next]_vars => Ownership' /\ CountExact'
<1> SUFFICES ASSUME IInv, [Next]_vars PROVE Ownership' /\ CountExact'
  OBVIOUS
<1> USE DEF IInv
<1>1. ASSUME UNCHANGED <<bitmap, allocated_pages, held, reserved>>
      PROVE  Ownership' /\ CountExact'
  BY <1>1 DEF Ownership, CountExact, Held
<1>2. ASSUME NEW o \in Owner, NEW p \in 0 .. NotAPage, FreePage(o, p)
      PROVE  Ownership' /\ CountExact'
  <2>1. CASE p \in held[o]
    <3>1. Ownership'
      BY <1>2, <2>1, UnmarkHeld, TakeKeepsOwnership DEF FreePage
    <3>. QED
      BY <1>2, <2>1, <3>1, UnmarkHeld, TakeKeepsCount DEF FreePage
  <2>2. CASE p \notin held[o]
    <3>1. p \notin bitmap
      BY <1>2, <2>2 DEF FreePage
    <3>2. UNCHANGED <<bitmap, allocated_pages>>
      BY <1>2, <3>1 DEF FreePage, Unmark, Freeable
    <3>3. held' = held
      BY <1>2, <2>2 DEF FreePage, TypeOK
    <3>. QED
      BY <1>1, <1>2, <3>2, <3>3 DEF FreePage
  <2>. QED
    BY <2>1, <2>2
<1>3. CASE AllocPageTake
  <2>1. {call.i} \in SUBSET Page /\ {call.i} \cap bitmap = {} /\ call.owner \in Owner
    BY <1>3 DEF AllocPageTake, TypeOK
  <2>2. bitmap' = bitmap \cup {call.i} /\ reserved' = reserved
    BY <1>3 DEF AllocPageTake, setPageInternal
  <2>3. Ownership'
    BY <1>3, <2>1, <2>2, GiveKeepsOwnership DEF AllocPageTake, Give
  <2>4. IsFiniteSet({call.i}) /\ Cardinality({call.i}) = 1
    BY FS_Singleton
  <2>. QED
    BY <1>3, <2>1, <2>2, <2>3, <2>4, GiveKeepsCount DEF AllocPageTake
<1>4. CASE ContiguousTake
  <2> DEFINE S == Run(RunStart, call.count)
  <2>1. S \in SUBSET Page /\ S \cap bitmap = {} /\ call.owner \in Owner
    BY <1>4, RunFound DEF ContiguousTake, TypeOK
  <2>2. bitmap' = bitmap \cup S /\ reserved' = reserved
    BY <1>4 DEF ContiguousTake
  <2>3. Ownership'
    BY <1>4, <2>1, <2>2, GiveKeepsOwnership DEF ContiguousTake, Give
  <2>4. RunStart \in Int /\ call.count \in Nat \ {0}
    BY <1>4, RunFound DEF TypeOK, ContiguousTake, Page
  <2>5. IsFiniteSet(S) /\ Cardinality(S) = call.count
    <3> DEFINE last == RunStart + call.count - 1
    <3>1. last \in Int /\ RunStart <= last /\ last - RunStart + 1 = call.count
      BY <2>4
    <3>2. S = RunStart .. last
      BY DEF Run
    <3>3. /\ IsFiniteSet(RunStart .. last)
          /\ Cardinality(RunStart .. last) = IF RunStart > last THEN 0
                                            ELSE last - RunStart + 1
      BY <2>4, <3>1, FS_Interval
    <3>. HIDE DEF last
    <3>. QED
      BY <2>4, <3>1, <3>2, <3>3
  <2>. QED
    BY <1>4, <2>1, <2>2, <2>3, <2>5, GiveKeepsCount DEF ContiguousTake
<1>5. CASE FreeContiguousStep
  <2> DEFINE p == call.run_start + call.i
  <2>1. p \in held[call.owner] /\ call.owner \in Owner
    BY <1>5 DEF FreeContiguousStep, ScanKnows, TypeOK, Run
  <2>2. Ownership'
    BY <1>5, <2>1, UnmarkHeld, TakeKeepsOwnership DEF FreeContiguousStep
  <2>. QED
    BY <1>5, <2>1, <2>2, UnmarkHeld, TakeKeepsCount DEF FreeContiguousStep
<1>6. CASE \/ AllocPageAdvance \/ AllocPageFail
           \/ ContiguousExtend \/ ContiguousReset \/ ContiguousFail
           \/ FreeContiguousReturn
           \/ UNCHANGED vars
  BY <1>1, <1>6 DEF AllocPageAdvance, AllocPageFail, ContiguousExtend, ContiguousReset,
     ContiguousFail, FreeContiguousReturn, ReturnNull, vars
<1>7. CASE Start
  <2>1. PICK o \in Owner :
          \/ AllocPage(o)
          \/ \E count \in 1 .. MAX_PAGES : AllocContiguous(o, count)
          \/ \E count \in {0, MAX_PAGES + 1} : RejectContiguous(count)
          \/ \E p \in 0 .. NotAPage : FreePage(o, p)
          \/ \E first \in Page, count \in 1 .. MAX_PAGES : FreeContiguous(o, first, count)
    BY <1>7, Zenon DEF Start
  <2>2. CASE \E p \in 0 .. NotAPage : FreePage(o, p)
    BY <1>2, <2>2
  <2>3. CASE AllocPage(o)
    BY <1>1, <2>3 DEF AllocPage
  <2>4. CASE \E count \in 1 .. MAX_PAGES : AllocContiguous(o, count)
    BY <1>1, <2>4 DEF AllocContiguous
  <2>5. CASE \E count \in {0, MAX_PAGES + 1} : RejectContiguous(count)
    BY <1>1, <2>5 DEF RejectContiguous, ReturnNull
  <2>6. CASE \E first \in Page, count \in 1 .. MAX_PAGES : FreeContiguous(o, first, count)
    BY <1>1, <2>6 DEF FreeContiguous
  <2>. QED
    BY <2>1, <2>2, <2>3, <2>4, <2>5, <2>6
<1>8. CASE Step
  BY <1>3, <1>4, <1>5, <1>6, <1>8 DEF Step
<1>. QED
  BY <1>6, <1>7, <1>8 DEF Next

\* Every iteration of a loop keeps what the loop knows.
LEMMA KnowledgeStep == IInv /\ [Next]_vars => ScanKnows'
<1> SUFFICES ASSUME IInv, [Next]_vars PROVE ScanKnows'
  OBVIOUS
<1> USE PagesAssumption DEF IInv
<1>1. ASSUME call' = NoCall PROVE ScanKnows'
  BY <1>1 DEF ScanKnows, NoCall
<1>2. ASSUME NEW o \in Owner, AllocPage(o) PROVE ScanKnows'
  BY <1>2 DEF AllocPage, Scan, ScanKnows
<1>3. ASSUME NEW o \in Owner, NEW count \in 1 .. MAX_PAGES, AllocContiguous(o, count)
      PROVE ScanKnows'
  <2>1. call' = Search(o, count, 0, 0, 0)
    BY <1>3 DEF AllocContiguous
  <2>. QED
    BY <2>1 DEF Search, ScanKnows, Run, Page
<1>4. ASSUME NEW o \in Owner, NEW p \in 0 .. NotAPage, FreePage(o, p) PROVE ScanKnows'
  BY <1>1, <1>4 DEF FreePage
<1>5. ASSUME NEW o \in Owner, NEW first \in Page, NEW count \in 1 .. MAX_PAGES,
             FreeContiguous(o, first, count)
      PROVE ScanKnows'
  <2>1. call' = Freeing(o, first, count, 0) /\ held' = held
        /\ Run(first, count) \subseteq held[o]
    BY <1>5 DEF FreeContiguous
  <2>. QED
    BY <2>1 DEF Freeing, ScanKnows, Run, Page
<1>6. CASE AllocPageAdvance
  <2>1. call.i \in Page /\ call.i \in bitmap /\ bitmap' = bitmap
    BY <1>6 DEF AllocPageAdvance, TypeOK
  <2>2. CASE ScanEnds
    <3>1. call' = Scan(call.owner, 0, TRUE)
      BY <1>6, <2>2 DEF AllocPageAdvance
    <3>. QED
      BY <3>1 DEF Scan, ScanKnows, Run
  <2>3. CASE ~ ScanEnds
    <3>1. call' = Scan(call.owner, call.i + 1, call.wrapped)
      BY <1>6, <2>3 DEF AllocPageAdvance
    <3>2. call.wrapped => Run(0, call.i + 1) \subseteq bitmap
      BY <1>6, <2>1 DEF AllocPageAdvance, ScanKnows, Run, Page
    <3>. QED
      BY <2>1, <3>1, <3>2 DEF Scan, ScanKnows
  <2>. QED
    BY <2>2, <2>3
<1>7. CASE ContiguousExtend
  <2>1. /\ RunStart + call.run_len = call.i
        /\ Run(RunStart, call.run_len) \cap bitmap = {}
        /\ RunStart > 0 => RunStart - 1 \in bitmap
        /\ \A first \in Page :
             first < RunStart => Run(first, call.count) \cap bitmap # {}
    BY <1>7 DEF ScanKnows, ContiguousExtend, RunStart
  <2>2. call.i \in Nat /\ call.run_len \in Nat /\ RunStart \in Nat
    BY DEF TypeOK, RunStart
  <2>3. call' = Search(call.owner, call.count, call.i + 1, RunStart, call.run_len + 1)
        /\ bitmap' = bitmap
    BY <1>7 DEF ContiguousExtend
  <2>4. Run(RunStart, call.run_len + 1) = Run(RunStart, call.run_len) \cup {call.i}
    BY <2>1, <2>2 DEF Run
  <2>5. Run(RunStart, call.run_len + 1) \cap bitmap = {}
    BY <1>7, <2>1, <2>4 DEF ContiguousExtend
  <2>6. RunStart + (call.run_len + 1) = call.i + 1 /\ call.run_len + 1 < call.count
        /\ call.run_len + 1 # 0
    BY <1>7, <2>1, <2>2 DEF ContiguousExtend
  <2>. QED
    BY <2>1, <2>3, <2>5, <2>6 DEF Search, ScanKnows
<1>8. CASE ContiguousReset
  <2> DEFINE start == IF call.run_len = 0 THEN call.i ELSE call.run_start
  <2>1. /\ start + call.run_len = call.i
        /\ call.run_len < call.count
        /\ \A first \in Page : first < start => Run(first, call.count) \cap bitmap # {}
    BY <1>8 DEF ScanKnows, ContiguousReset
  <2>2. call.i \in Nat /\ call.run_len \in Nat /\ call.count \in Nat /\ start \in Nat
    BY DEF TypeOK
  <2>3. /\ call' = Search(call.owner, call.count, call.i + 1, call.run_start, 0)
        /\ bitmap' = bitmap
        /\ call.i \in bitmap
    BY <1>8 DEF ContiguousReset
  <2>4. ASSUME NEW first \in Page, first < call.i + 1
        PROVE  Run(first, call.count) \cap bitmap # {}
    <3>1. CASE first < start
      BY <2>1, <3>1
    <3>2. CASE first >= start
      <4>1. call.i \in Run(first, call.count)
        BY <2>1, <2>2, <2>4, <3>2 DEF Run, Page
      <4>. QED
        BY <2>3, <4>1
    <3>. QED
      BY <2>2, <3>1, <3>2 DEF Page
  <2>5. (call.i + 1) - 1 \in bitmap /\ call.count > 0
    BY <2>1, <2>2, <2>3
  <2>6. Run(call.i + 1, 0) = {} /\ (call.i + 1) + 0 = call.i + 1
    BY <2>2 DEF Run
  <2>. QED
    BY <2>3, <2>4, <2>5, <2>6 DEF Search, ScanKnows
<1>9. CASE FreeContiguousStep
  <2> DEFINE p == call.run_start + call.i
  <2>1. /\ call' = Freeing(call.owner, call.run_start, call.count, call.i + 1)
        /\ held' = [held EXCEPT ![call.owner] = @ \ {p}]
        /\ call.owner \in Owner
        /\ Run(p, call.count - call.i) \subseteq held[call.owner]
    BY <1>9 DEF FreeContiguousStep, ScanKnows, TypeOK
  <2>2. call.run_start \in Nat /\ call.i \in Nat /\ call.count \in Nat
    BY DEF TypeOK
  <2>3. Run(call.run_start + (call.i + 1), call.count - (call.i + 1))
          \subseteq Run(p, call.count - call.i) \ {p}
    BY <2>2 DEF Run
  <2>4. held'[call.owner] = held[call.owner] \ {p}
    BY <2>1 DEF TypeOK
  <2>. QED
    BY <2>1, <2>3, <2>4 DEF Freeing, ScanKnows
<1>10. CASE UNCHANGED vars
  BY <1>10 DEF vars, ScanKnows
<1>11. CASE \/ AllocPageTake \/ AllocPageFail \/ ContiguousTake \/ ContiguousFail
            \/ FreeContiguousReturn
            \/ \E count \in {0, MAX_PAGES + 1} : RejectContiguous(count)
  BY <1>1, <1>11 DEF AllocPageTake, AllocPageFail, ContiguousTake, ContiguousFail,
     FreeContiguousReturn, RejectContiguous, ReturnNull, Give
<1>12. CASE Start
  BY <1>2, <1>3, <1>4, <1>5, <1>11, <1>12 DEF Start
<1>13. CASE Step
  BY <1>6, <1>7, <1>8, <1>9, <1>11, <1>13 DEF Step
<1>. QED
  BY <1>10, <1>12, <1>13 DEF Next

\* Init establishes the invariant: nothing is out and no call is in progress.
LEMMA InitIInv == Init => IInv
<1> SUFFICES ASSUME Init PROVE IInv
  OBVIOUS
<1>1. PICK usable \in SUBSET Page, mbi \in Page : bitmap = InitialBitmap(usable, mbi)
  BY DEF Init
<1>2. bitmap \in SUBSET Page
  BY <1>1, PagesAssumption DEF InitialBitmap, Run, Page
<1>3. TypeOK
  BY <1>2, PagesAssumption DEF Init, TypeOK, NoCall, Ops, Page
<1>4. Held = {}
  BY DEF Init, Held
<1>5. Ownership /\ CountExact
  BY <1>4, FS_EmptySet DEF Init, Ownership, CountExact
<1>6. ScanKnows
  BY DEF Init, ScanKnows, NoCall
<1>. QED
  BY <1>3, <1>5, <1>6 DEF IInv

\* The invariant of the manager holds in every reachable state.
THEOREM Invariant == Spec => []IInv
<1>1. IInv /\ [Next]_vars => IInv'
  BY TypeStep, OwnershipStep, KnowledgeStep DEF IInv
<1>. QED
  BY <1>1, InitIInv, PTL DEF Spec

\* Types: in particular no subscript of the bitmap is out of range.
THEOREM TypeCorrect == Spec => []TypeOK
<1>1. IInv => TypeOK
  BY DEF IInv
<1>. QED
  BY <1>1, Invariant, PTL

\* No frame is handed out twice and no reserved frame ever.
THEOREM OwnershipHolds == Spec => []Ownership
<1>1. IInv => Ownership
  BY DEF IInv
<1>. QED
  BY <1>1, Invariant, PTL

\* allocated_pages is exact.
THEOREM CountHolds == Spec => []CountExact
<1>1. IInv => CountExact
  BY DEF IInv
<1>. QED
  BY <1>1, Invariant, PTL

\* The loops know what they need to.
THEOREM KnowledgeHolds == Spec => []ScanKnows
<1>1. IInv => ScanKnows
  BY DEF IInv
<1>. QED
  BY <1>1, Invariant, PTL

------------------------------------------------------------------------------

\* A step of the manager is a step of the abstract allocator or leaves it alone.
LEMMA AllocatorStep == IInv /\ IInv' /\ [Next]_vars => [Allocator!Next]_(Allocator!vars)
<1> SUFFICES ASSUME IInv, IInv', [Next]_vars
             PROVE  [Allocator!Next]_(Allocator!vars)
  OBVIOUS
<1> USE PagesAssumption, NullAssumption DEF IInv
<1> DEFINE req == IF call.op \in {"allocPage", "allocContiguousPages"}
                  THEN [owner |-> call.owner, count |-> call.count]
                  ELSE NULL
<1> DEFINE free == Page \ bitmap
<1>p. Allocator!Page = Page /\ \A a, n : Allocator!Run(a, n) = Run(a, n)
  BY DEF Allocator!Page, Page, Allocator!Run, Run
<1>1. ASSUME NEW o \in Owner, AllocPage(o) PROVE Allocator!Next
  <2>1. req = NULL /\ req' = [owner |-> o, count |-> 1] /\ UNCHANGED <<free, held, answer>>
    BY <1>1 DEF AllocPage, NoCall, Scan
  <2>2. Allocator!Ask(o, 1)
    BY <2>1 DEF Allocator!Ask
  <2>. QED
    BY <2>2 DEF Allocator!Next
<1>2. ASSUME NEW o \in Owner, NEW count \in 1 .. MAX_PAGES, AllocContiguous(o, count)
      PROVE Allocator!Next
  <2>1. req = NULL /\ req' = [owner |-> o, count |-> count]
        /\ UNCHANGED <<free, held, answer>>
    BY <1>2 DEF AllocContiguous, NoCall, Search
  <2>2. Allocator!Ask(o, count)
    BY <2>1 DEF Allocator!Ask
  <2>. QED
    BY <2>2 DEF Allocator!Next
<1>3. ASSUME NEW count \in {0, MAX_PAGES + 1}, RejectContiguous(count)
      PROVE Allocator!Next
  <2>1. req = NULL /\ req' = NULL /\ answer' = NULL /\ UNCHANGED <<free, held>>
    BY <1>3 DEF RejectContiguous, ReturnNull, NoCall
  <2>2. Allocator!Reject
    BY <2>1 DEF Allocator!Reject
  <2>. QED
    BY <2>2 DEF Allocator!Next
<1>4. ASSUME NEW o \in Owner, NEW p \in held[o],
             bitmap' = bitmap \ {p}, held' = [held EXCEPT ![o] = @ \ {p}],
             req = NULL, req' = NULL, answer' = answer
      PROVE  Allocator!Next
  <2>1. p \in Page
    BY <1>4 DEF TypeOK
  <2>2. free' = free \cup {p}
    BY <1>4, <2>1
  <2>3. Allocator!Release(o, p)
    BY <1>4, <2>2 DEF Allocator!Release
  <2>. QED
    BY <1>p, <2>1, <2>3 DEF Allocator!Next
<1>5. ASSUME NEW o \in Owner, NEW p \in 0 .. NotAPage, FreePage(o, p)
      PROVE  Allocator!Next \/ UNCHANGED Allocator!vars
  <2>1. req = NULL /\ req' = NULL /\ answer' = answer
        /\ held' = [held EXCEPT ![o] = @ \ {p}] /\ call' = call
    BY <1>5 DEF FreePage, NoCall
  <2>2. CASE p \in held[o]
    <3>1. bitmap' = bitmap \ {p}
      BY <1>5, <2>2, UnmarkHeld DEF FreePage
    <3>. QED
      BY <1>4, <2>1, <2>2, <3>1
  <2>3. CASE p \notin held[o]
    <3>1. bitmap' = bitmap
      BY <1>5, <2>3 DEF FreePage, Unmark, Freeable
    <3>2. held' = held
      BY <2>1, <2>3 DEF TypeOK
    <3>. QED
      BY <2>1, <3>1, <3>2 DEF Allocator!vars
  <2>. QED
    BY <2>2, <2>3
<1>6. CASE AllocPageTake
  <2>1. call.i \in Page /\ call.i \notin bitmap /\ call.owner \in Owner
        /\ call.count = 1 /\ call.op = "allocPage"
    BY <1>6 DEF AllocPageTake, TypeOK
  <2>2. Run(call.i, 1) = {call.i}
    BY <2>1 DEF Run, Page
  <2>3. req = [owner |-> call.owner, count |-> 1] /\ req # NULL
    BY <2>1
  <2>4. /\ free' = free \ {call.i}
        /\ held' = [held EXCEPT ![call.owner] = @ \cup {call.i}]
        /\ answer' = call.i /\ req' = NULL
    BY <1>6 DEF AllocPageTake, setPageInternal, Give, NoCall
  <2>5. Allocator!Grant(call.i)
    BY <1>p, <2>1, <2>2, <2>3, <2>4 DEF Allocator!Grant
  <2>. QED
    BY <1>p, <2>1, <2>5 DEF Allocator!Next
<1>7. CASE ContiguousTake
  <2> DEFINE S == Run(RunStart, call.count)
  <2>1. RunStart \in Page /\ S \subseteq Page /\ S \cap bitmap = {}
    BY <1>7, RunFound
  <2>2. call.owner \in Owner /\ call.count \in 1 .. MAX_PAGES
        /\ call.op = "allocContiguousPages"
    BY <1>7 DEF ContiguousTake, TypeOK
  <2>3. req = [owner |-> call.owner, count |-> call.count] /\ req # NULL
    BY <2>2
  <2>4. /\ free' = free \ S
        /\ held' = [held EXCEPT ![call.owner] = @ \cup S]
        /\ answer' = RunStart /\ req' = NULL
    BY <1>7 DEF ContiguousTake, Give, NoCall
  <2>5. Allocator!Grant(RunStart)
    BY <1>p, <2>1, <2>3, <2>4 DEF Allocator!Grant
  <2>. QED
    BY <1>p, <2>1, <2>5 DEF Allocator!Next
<1>8. CASE AllocPageFail
  <2>1. call.op = "allocPage" /\ call.count = 1 /\ call.owner \in Owner
        /\ call.i \in Page /\ call.i \in bitmap
        /\ Run(0, call.i) \subseteq bitmap /\ call.i + 1 >= MAX_PAGES
    BY <1>8 DEF AllocPageFail, ScanEnds, ScanKnows, TypeOK
  <2>2. Page \subseteq bitmap
    BY <2>1 DEF Run, Page
  <2>3. \A first \in Page : first \in Run(first, 1)
    BY DEF Run, Page
  <2>4. req = [owner |-> call.owner, count |-> 1] /\ req # NULL
    BY <2>1
  <2>5. answer' = NULL /\ req' = NULL /\ UNCHANGED <<free, held>>
    BY <1>8 DEF AllocPageFail, ReturnNull, NoCall
  <2>6. Allocator!Refuse
    BY <1>p, <2>2, <2>3, <2>4, <2>5 DEF Allocator!Refuse
  <2>. QED
    BY <2>6 DEF Allocator!Next
<1>9. CASE ContiguousFail
  <2>1. call.op = "allocContiguousPages" /\ call.i = MAX_PAGES /\ call.owner \in Owner
        /\ call.count \in 1 .. MAX_PAGES
    BY <1>9 DEF ContiguousFail, TypeOK
  <2> DEFINE start == IF call.run_len = 0 THEN call.i ELSE call.run_start
  <2>2. /\ start + call.run_len = MAX_PAGES
        /\ call.run_len < call.count
        /\ \A first \in Page : first < start => Run(first, call.count) \cap bitmap # {}
    BY <2>1 DEF ScanKnows
  <2>3. ASSUME NEW first \in Page PROVE ~ (Run(first, call.count) \subseteq free)
    <3>1. CASE first < start
      BY <2>2, <3>1
    <3>2. CASE first >= start
      <4>1. start \in Nat /\ call.run_len \in Nat
        BY DEF TypeOK
      <4>2. MAX_PAGES \in Run(first, call.count)
        BY <2>1, <2>2, <3>2, <4>1 DEF Run, Page
      <4>. QED
        BY <4>2 DEF Page
    <3>. QED
      BY <3>1, <3>2 DEF TypeOK, Page
  <2>4. req = [owner |-> call.owner, count |-> call.count] /\ req # NULL
    BY <2>1
  <2>5. answer' = NULL /\ req' = NULL /\ UNCHANGED <<free, held>>
    BY <1>9 DEF ContiguousFail, ReturnNull, NoCall
  <2>6. Allocator!Refuse
    BY <1>p, <2>3, <2>4, <2>5 DEF Allocator!Refuse
  <2>. QED
    BY <2>6 DEF Allocator!Next
<1>10. CASE FreeContiguousStep
  <2> DEFINE p == call.run_start + call.i
  <2>1. p \in held[call.owner] /\ call.owner \in Owner
    BY <1>10 DEF FreeContiguousStep, ScanKnows, TypeOK, Run
  <2>2. req = NULL /\ req' = NULL /\ answer' = answer
    BY <1>10 DEF FreeContiguousStep, Freeing
  <2>. QED
    BY <1>4, <1>10, <2>1, <2>2, UnmarkHeld DEF FreeContiguousStep
<1>11. ASSUME UNCHANGED <<bitmap, held, answer>>, req' = req
       PROVE  UNCHANGED Allocator!vars
  BY <1>11 DEF Allocator!vars
<1>12. CASE AllocPageAdvance
  <2>1. call.op = "allocPage" /\ call.count = 1
    BY <1>12 DEF AllocPageAdvance, TypeOK
  <2>2. call'.op = "allocPage" /\ call'.owner = call.owner /\ call'.count = 1
    BY <1>12 DEF AllocPageAdvance, Scan
  <2>. QED
    BY <1>11, <1>12, <2>1, <2>2 DEF AllocPageAdvance
<1>13. CASE ContiguousExtend \/ ContiguousReset
  <2>1. call.op = "allocContiguousPages" /\ call'.op = call.op
        /\ call'.owner = call.owner /\ call'.count = call.count
    BY <1>13 DEF ContiguousExtend, ContiguousReset, Search
  <2>. QED
    BY <1>11, <1>13, <2>1 DEF ContiguousExtend, ContiguousReset
<1>14. ASSUME NEW o \in Owner, NEW first \in Page, NEW count \in 1 .. MAX_PAGES,
              FreeContiguous(o, first, count)
       PROVE  UNCHANGED Allocator!vars
  BY <1>11, <1>14 DEF FreeContiguous, NoCall, Freeing
<1>15. CASE FreeContiguousReturn
  BY <1>11, <1>15 DEF FreeContiguousReturn, NoCall
<1>16. CASE UNCHANGED vars
  BY <1>11, <1>16 DEF vars
<1>17. CASE Start
  BY <1>1, <1>2, <1>3, <1>5, <1>14, <1>17 DEF Start
<1>18. CASE Step
  BY <1>6, <1>7, <1>8, <1>9, <1>10, <1>12, <1>13, <1>15, <1>18 DEF Step
<1>. QED
  BY <1>16, <1>17, <1>18 DEF Next

\* pmm64.zig implements the abstract allocator: what it returns is free and as long
\* as asked, and it returns null only when there is nothing to return.
THEOREM Implements == Spec => ImplementsAllocator
<1>1. Init => Allocator!Init
  BY PagesAssumption DEF Init, Allocator!Init, NoCall, Allocator!Page, Page
<1>2. IInv /\ IInv' /\ [Next]_vars => [Allocator!Next]_(Allocator!vars)
  BY AllocatorStep
<1>. QED
  BY <1>1, <1>2, Invariant, PTL DEF Spec, ImplementsAllocator, Allocator!Spec

==============================================================================
