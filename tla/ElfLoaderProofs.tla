--------------------------- MODULE ElfLoaderProofs ---------------------------
(***************************************************************************)
(* Proofs about the virtual memory manager and the ELF loader, for every   *)
(* size of memory and of a table, any number of address spaces, heap pages *)
(* and programs, as long as different programs have no page in common.     *)
(***************************************************************************)
EXTENDS ElfLoader, FiniteSetTheorems, WellFoundedInduction, TLAPS

------------------------------------------------------------------------------
(***************************************************************************)
(* What the operations of the virtual memory manager do to page tables:    *)
(* lemmas about tables as values, of which the proofs about the system's   *)
(* states are made.                                                        *)
(***************************************************************************)

Place == Frame \cup Boot  \* where a table or a page's frame can be

\* Memory read as tables, when the manager has the frames mem.
Typed(tb, mem) ==
  mem \subseteq Frame /\ tb \in [Place -> [Index -> mem \cup {pdpt, identity, NULL}]]

\* The tables tb have the levels L[1], the roots, to L[4], the page tables, and L[5] are the
\* frames that pages are mapped to.  No frame is on two levels; the entries 0 of all roots
\* are the boot code's table; other than those, what is under two roots is at one index,
\* and what is further down has one entry that leads to it.
Tree(tb, L) ==
  /\ L \in [1 .. 5 -> SUBSET Place]
  /\ \A j, k \in 1 .. 5 : j # k => L[j] \cap L[k] = {}
  /\ \A k \in 1 .. 4 : \A t \in L[k], i \in Index :
       tb[t][i] \in L[k + 1] \/ tb[t][i] = NULL \/ (t = pdpt /\ i = 0)
  /\ \A k \in 1 .. 4 : \A n \in L[k + 1] : \E t \in L[k], i \in Index : tb[t][i] = n
  /\ pml4 \in L[1] /\ \A t \in L[1] : tb[t][0] = pdpt
  /\ tb[pdpt][0] = identity
  /\ \A s, t \in L[1] : \A i, j \in Index : tb[s][i] = tb[t][j] /\ tb[s][i] # NULL => i = j
  /\ \A k \in 2 .. 3 : \A s, t \in L[k] : \A i, j \in Index :
       tb[s][i] = tb[t][j] /\ tb[s][i] # NULL => s = t /\ i = j

\* The levels with n as a new member of the k-th.
Added(L, k, n) == [j \in 1 .. 5 |-> IF j = k THEN L[j] \cup {n} ELSE L[j]]

\* The table of level k + 1 that the walk for page v reaches from a root.
Reach(tb, root, v, k) ==
  IF k = 1 THEN root
  ELSE IF k = 2 THEN Entry(tb, root, v[1])
  ELSE IF k = 3 THEN Entry(tb, Entry(tb, root, v[1]), v[2])
  ELSE Entry(tb, Entry(tb, Entry(tb, root, v[1]), v[2]), v[3])

------------------------------------------------------------------------------
(* Pages and frames. *)

\* Frames, the boot code's tables, the identity map and NULL are told apart.
LEMMA Places ==
  /\ Frame \subseteq Nat \ {0} /\ Place \subseteq Int
  /\ pml4 \in Place /\ pdpt \in Place /\ pml4 # pdpt
  /\ pml4 \notin Frame /\ pdpt \notin Frame
  /\ identity \notin Place /\ NULL \notin Place /\ NULL # identity
  /\ 0 \in Index
<1>1. Frame \subseteq Nat \ {0}
  BY SizesAssumption DEF Frame
<1>2. pml4 = 0 /\ pdpt = -1 /\ identity = -2 /\ Boot = {0, -1}
  BY DEF Boot, pml4, pdpt, identity
<1>3. Place \subseteq Int /\ pml4 \in Place /\ pdpt \in Place /\ identity \notin Place
  BY <1>1, <1>2 DEF Place
<1>4. pml4 # pdpt /\ pml4 \notin Frame /\ pdpt \notin Frame
  BY <1>1, <1>2
<1>5. NULL \notin Place /\ NULL # identity
  <2>1. identity \in Int
    BY <1>2
  <2> QED
    BY ONLY <1>3, <2>1, NullAssumption
<1> QED
  BY <1>1, <1>3, <1>4, <1>5, SizesAssumption

\* A page is told by its four indices, of which the first two are not both 0.
LEMMA PageParts ==
  /\ \A v \in Page : /\ v[1] \in Index /\ v[2] \in Index /\ v[3] \in Index /\ v[4] \in Index
                     /\ ~ (v[1] = 0 /\ v[2] = 0)
  /\ \A v, w \in Page :
       v[1] = w[1] /\ v[2] = w[2] /\ v[3] = w[3] /\ v[4] = w[4] => v = w
<1>1. ASSUME NEW v \in Page
      PROVE  /\ v[1] \in Index /\ v[2] \in Index /\ v[3] \in Index /\ v[4] \in Index
             /\ ~ (v[1] = 0 /\ v[2] = 0)
             /\ v = <<v[1], v[2], v[3], v[4]>>
  <2>1. PICK i \in Index, j \in Index, k \in Index, l \in Index : v = <<i, j, k, l>>
    BY DEF Page
  <2>2. ~ (i = 0 /\ j = 0)
    BY <2>1 DEF Page
  <2> QED
    BY <2>1, <2>2
<1>2. ASSUME NEW v \in Page, NEW w \in Page,
             v[1] = w[1], v[2] = w[2], v[3] = w[3], v[4] = w[4]
      PROVE  v = w
  <2>1. v = <<v[1], v[2], v[3], v[4]>> /\ w = <<w[1], w[2], w[3], w[4]>>
    BY <1>1
  <2> QED
    BY <1>2, <2>1
<1> QED
  BY <1>1, <1>2

\* The lowest of some frames is one of them.
LEMMA LowestIn ==
  ASSUME NEW S \in SUBSET Nat, S # {}
  PROVE  Lowest(S) \in S
<1> DEFINE R == OpToRel(<, Nat)
<1>1. \A a, b \in Nat : <<a, b>> \in R <=> a < b
  BY DEF OpToRel
<1>2. IsWellFoundedOn(R, Nat)
  BY NatLessThanWellFounded DEF OpToRel
<1> HIDE DEF R
<1>3. \E m \in S : \A y \in S : ~ (<<y, m>> \in R)
  BY <1>2, WFMin
<1>4. PICK m \in S : \A y \in S : ~ (<<y, m>> \in R)
  BY <1>3
<1>5. \A y \in S : y \in Nat /\ m \in Nat /\ ~ (y < m)
  BY <1>1, <1>4
<1>6. \A y \in S : m <= y
  BY <1>5
<1> QED
  BY <1>6 DEF Lowest

------------------------------------------------------------------------------
(* Putting entries into tables. *)

\* A new, empty table n under the entry i of t.
WithTable(tb, t, i, n) == [tb EXCEPT ![n] = Empty, ![t][i] = n]

\* What the memory says after a table was put in.
LEMMA WithTableSays ==
  ASSUME NEW mem, NEW tb, Typed(tb, mem), NEW n \in mem, NEW t \in Place, t # n,
         NEW i \in Index
  PROVE  /\ Typed(WithTable(tb, t, i, n), mem)
         /\ WithTable(tb, t, i, n)[t][i] = n
         /\ \A j \in Index : WithTable(tb, t, i, n)[n][j] = NULL
         /\ \A s \in Place \ {n} : \A j \in Index :
              s # t \/ j # i => WithTable(tb, t, i, n)[s][j] = tb[s][j]
<1> DEFINE tb2 == WithTable(tb, t, i, n)
<1>1. n \in Place /\ mem \subseteq Frame /\ mem \subseteq Place
  BY DEF Typed, Place
<1>2. tb \in [Place -> [Index -> mem \cup {pdpt, identity, NULL}]]
  BY DEF Typed
<1>3. Empty \in [Index -> mem \cup {pdpt, identity, NULL}] /\ \A j \in Index : Empty[j] = NULL
  BY DEF Empty
<1>4. tb2 = [s \in Place |-> IF s = t THEN [tb[t] EXCEPT ![i] = n]
                             ELSE IF s = n THEN Empty ELSE tb[s]]
  BY <1>1, <1>2 DEF WithTable
<1>5. [tb[t] EXCEPT ![i] = n] \in [Index -> mem \cup {pdpt, identity, NULL}]
  BY <1>2
<1>6. Typed(tb2, mem)
  BY <1>1, <1>2, <1>3, <1>4, <1>5 DEF Typed
<1> HIDE DEF tb2
<1>7. tb2[t] = [tb[t] EXCEPT ![i] = n] /\ tb2[n] = Empty
      /\ \A s \in Place \ {n, t} : tb2[s] = tb[s]
  BY <1>1, <1>4
<1>8. tb2[t][i] = n /\ \A j \in Index : j # i => tb2[t][j] = tb[t][j]
  BY <1>2, <1>7
<1> QED
  BY <1>3, <1>6, <1>7, <1>8 DEF tb2

\* A new table in an empty entry of a level makes the level below it one larger.
LEMMA TreeGrows ==
  ASSUME NEW mem, NEW tb, Typed(tb, mem), NEW L, Tree(tb, L), NEW k \in 1 .. 3,
         NEW t \in L[k], NEW i \in Index, tb[t][i] = NULL, NEW n \in mem,
         \A j \in 1 .. 5 : n \notin L[j]
  PROVE  /\ Typed(WithTable(tb, t, i, n), mem)
         /\ Tree(WithTable(tb, t, i, n), Added(L, k + 1, n))
<1> DEFINE tb2 == WithTable(tb, t, i, n)
           L2 == Added(L, k + 1, n)
<1>1. /\ L \in [1 .. 5 -> SUBSET Place] /\ t \in Place /\ t # n /\ n \in Place
      /\ n \in Frame /\ n # NULL /\ n # pdpt /\ n # pml4 /\ n # identity
  BY Places DEF Tree, Typed, Place
<1>2. /\ Typed(tb2, mem) /\ tb2[t][i] = n
      /\ \A j \in Index : tb2[n][j] = NULL
      /\ \A s \in Place \ {n} : \A j \in Index : s # t \/ j # i => tb2[s][j] = tb[s][j]
  BY <1>1, WithTableSays
<1>3. /\ L2 \in [1 .. 5 -> SUBSET Place]
      /\ L2[k + 1] = L[k + 1] \cup {n} /\ k + 1 \in 2 .. 4
      /\ \A j \in 1 .. 5 : j # k + 1 => L2[j] = L[j]
      /\ \A j \in 1 .. 5 : L[j] \subseteq L2[j]
  BY <1>1 DEF Added
<1> HIDE DEF tb2, L2
<1>4. \A j, l \in 1 .. 5 : j # l => L2[j] \cap L2[l] = {}
  <2>1. \A j, l \in 1 .. 5 : j # l => L[j] \cap L[l] = {}
    BY DEF Tree
  <2> QED
    BY <1>3, <2>1
<1>5. \A j \in 1 .. 5 : j # k => t \notin L[j]
  BY DEF Tree
<1>6. \A j \in 1 .. 4 : \A s \in L[j] : s \in Place \ {n}
  BY <1>1
<1>7. \A j \in 1 .. 4 : \A s \in L2[j], c \in Index :
        tb2[s][c] \in L2[j + 1] \/ tb2[s][c] = NULL \/ (s = pdpt /\ c = 0)
  <2>1. SUFFICES ASSUME NEW j \in 1 .. 4, NEW s \in L2[j], NEW c \in Index
                 PROVE  tb2[s][c] \in L2[j + 1] \/ tb2[s][c] = NULL \/ (s = pdpt /\ c = 0)
    OBVIOUS
  <2>2. CASE s = n
    BY <1>2, <2>2
  <2>3. CASE s = t /\ c = i
    <3>1. s # n /\ j + 1 \in 1 .. 5
      BY <1>1, <2>3
    <3>2. j = k
      BY <1>3, <1>5, <2>3, <3>1
    <3> QED
      BY <1>2, <1>3, <2>3, <3>2
  <2>4. CASE s # n /\ ~ (s = t /\ c = i)
    <3>1. s \in L[j] /\ j + 1 \in 1 .. 5
      BY <1>3, <2>4
    <3>2. tb2[s][c] = tb[s][c]
      BY <1>2, <1>6, <2>4, <3>1
    <3>3. tb[s][c] \in L[j + 1] \/ tb[s][c] = NULL \/ (s = pdpt /\ c = 0)
      BY <3>1 DEF Tree
    <3> QED
      BY <1>3, <3>1, <3>2, <3>3
  <2> QED
    BY <2>2, <2>3, <2>4
<1>8. \A j \in 1 .. 4 : \A x \in L2[j + 1] : \E s \in L2[j], c \in Index : tb2[s][c] = x
  <2>1. SUFFICES ASSUME NEW j \in 1 .. 4, NEW x \in L2[j + 1]
                 PROVE  \E s \in L2[j], c \in Index : tb2[s][c] = x
    OBVIOUS
  <2>2. CASE x = n
    <3>1. j = k
      <4>1. j + 1 \in 1 .. 5 /\ n \in L2[j + 1]
        BY <2>2
      <4> QED
        BY <1>3, <4>1
    <3> QED
      BY <1>2, <1>3, <2>2, <3>1
  <2>3. CASE x # n
    <3>1. x \in L[j + 1] /\ j + 1 \in 1 .. 5
      BY <1>3, <2>3
    <3>2. PICK s \in L[j], c \in Index : tb[s][c] = x
      BY <3>1 DEF Tree
    <3>3. x # NULL
      BY <1>1, <3>1, Places
    <3>4. tb2[s][c] = x
      BY <1>2, <1>6, <3>2, <3>3
    <3> QED
      BY <1>3, <3>2, <3>4
  <2> QED
    BY <2>2, <2>3
<1>9. pml4 \in L2[1] /\ \A s \in L2[1] : tb2[s][0] = pdpt
  <2>1. L2[1] = L[1] /\ \A s \in L[1] : tb[s][0] = pdpt /\ pdpt # NULL
    BY <1>3, Places DEF Tree
  <2>2. pml4 \in L2[1]
    BY <2>1 DEF Tree
  <2>3. ASSUME NEW s \in L[1] PROVE tb2[s][0] = pdpt
    <3>1. s \in Place \ {n} /\ 0 \in Index /\ (s # t \/ 0 # i)
      BY <1>6, <2>1, Places
    <3> QED
      BY <1>2, <2>1, <3>1
  <2> QED
    BY <2>1, <2>2, <2>3
<1>10. tb2[pdpt][0] = identity
  <2>1. tb[pdpt][0] = identity /\ identity # NULL /\ pdpt \in Place \ {n} /\ 0 \in Index
    BY <1>1, Places DEF Tree
  <2>2. pdpt # t \/ 0 # i
    BY <2>1
  <2> QED
    BY <1>2, <2>1, <2>2
<1>11. \A j \in 1 .. 3 : \A x, y \in L2[j] : \A c, d \in Index :
         tb2[x][c] = tb2[y][d] /\ tb2[x][c] # NULL =>
           \/ x \in L[j] /\ y \in L[j] /\ tb[x][c] = tb[y][d] /\ tb[x][c] # NULL
           \/ x = y /\ c = d
  <2>1. SUFFICES ASSUME NEW j \in 1 .. 3, NEW x \in L2[j], NEW y \in L2[j],
                        NEW c \in Index, NEW d \in Index,
                        tb2[x][c] = tb2[y][d], tb2[x][c] # NULL
                 PROVE  \/ x \in L[j] /\ y \in L[j] /\ tb[x][c] = tb[y][d] /\ tb[x][c] # NULL
                        \/ x = y /\ c = d
    OBVIOUS
  <2>2. x # n /\ y # n
    BY <1>2, <2>1
  <2>3. x \in L[j] /\ y \in L[j]
    BY <1>3, <2>2
  <2>4. \A s \in L[j], e \in Index : tb[s][e] # n
    <3>1. SUFFICES ASSUME NEW s \in L[j], NEW e \in Index, tb[s][e] = n PROVE FALSE
      OBVIOUS
    <3>2. tb[s][e] \in L[j + 1] \/ tb[s][e] = NULL \/ (s = pdpt /\ e = 0)
      BY DEF Tree
    <3>3. tb[pdpt][0] = identity /\ j + 1 \in 1 .. 5
      BY DEF Tree
    <3> QED
      BY <1>1, <3>1, <3>2, <3>3
  <2>5. \A s \in L[j], e \in Index :
          \/ s = t /\ e = i /\ tb2[s][e] = n
          \/ ~ (s = t /\ e = i) /\ tb2[s][e] = tb[s][e]
    BY <1>2, <1>6
  <2> QED
    BY <2>1, <2>3, <2>4, <2>5
<1>12. \A x, y \in L2[1] : \A c, d \in Index :
         tb2[x][c] = tb2[y][d] /\ tb2[x][c] # NULL => c = d
  <2>1. \A x, y \in L[1] : \A c, d \in Index : tb[x][c] = tb[y][d] /\ tb[x][c] # NULL => c = d
    BY DEF Tree
  <2> QED
    BY <1>11, <2>1
<1>13. \A j \in 2 .. 3 : \A x, y \in L2[j] : \A c, d \in Index :
         tb2[x][c] = tb2[y][d] /\ tb2[x][c] # NULL => x = y /\ c = d
  <2>1. \A j \in 2 .. 3 : \A x, y \in L[j] : \A c, d \in Index :
          tb[x][c] = tb[y][d] /\ tb[x][c] # NULL => x = y /\ c = d
    BY DEF Tree
  <2>2. 2 .. 3 \subseteq 1 .. 3
    OBVIOUS
  <2> QED
    BY <1>11, <2>1, <2>2
<1> QED
  <2>1. Tree(tb2, L2)
    BY <1>3, <1>4, <1>7, <1>8, <1>9, <1>10, <1>12, <1>13 DEF Tree
  <2> QED
    BY <1>2, <2>1 DEF tb2, L2

------------------------------------------------------------------------------
(* Walking the tables. *)

\* The tables that the walk for a page reaches from a root are each on their level.
LEMMA PathOnLevels ==
  ASSUME NEW tb, NEW L, Tree(tb, L), NEW r \in L[1], NEW v \in Page
  PROVE  /\ Reach(tb, r, v, 1) = r
         /\ Reach(tb, r, v, 2) = tb[r][v[1]]
         /\ \A k \in 2 .. 4 : Reach(tb, r, v, k) \in L[k] \cup {NULL}
         /\ \A k \in 1 .. 3 : Reach(tb, r, v, k + 1) = Entry(tb, Reach(tb, r, v, k), v[k])
         /\ Lookup(tb, r, v) = Entry(tb, Reach(tb, r, v, 4), v[4])
         /\ Lookup(tb, r, v) \in L[5] \cup {NULL}
         /\ v[1] = 0 => Reach(tb, r, v, 2) = pdpt
         /\ Reach(tb, r, v, 2) = pdpt => v[1] = 0
         /\ Reach(tb, r, v, 3) # pdpt /\ Reach(tb, r, v, 4) # pdpt
<1>1. /\ v[1] \in Index /\ v[2] \in Index /\ v[3] \in Index /\ v[4] \in Index
      /\ ~ (v[1] = 0 /\ v[2] = 0) /\ 0 \in Index
  BY PageParts, Places
<1>2. /\ NULL \notin Place /\ pdpt \in Place /\ L \in [1 .. 5 -> SUBSET Place]
      /\ \A t \in L[1] : t # NULL /\ t \in Place
  BY Places DEF Tree
<1>3. /\ Reach(tb, r, v, 1) = r
      /\ Reach(tb, r, v, 2) = tb[r][v[1]]
      /\ Reach(tb, r, v, 3) = Entry(tb, Reach(tb, r, v, 2), v[2])
      /\ Reach(tb, r, v, 4) = Entry(tb, Reach(tb, r, v, 3), v[3])
      /\ Lookup(tb, r, v) = Entry(tb, Reach(tb, r, v, 4), v[4])
  <2>1. Entry(tb, r, v[1]) = tb[r][v[1]]
    BY <1>2 DEF Entry
  <2> QED
    BY <2>1 DEF Reach, Lookup
<1>4. pdpt \in L[2]
  <2>1. pml4 \in L[1] /\ tb[pml4][0] = pdpt /\ pml4 # pdpt /\ pdpt # NULL
    BY Places, <1>2 DEF Tree
  <2>2. tb[pml4][0] \in L[2] \/ tb[pml4][0] = NULL \/ (pml4 = pdpt /\ 0 = 0)
    BY <1>1, <2>1 DEF Tree
  <2> QED
    BY <2>1, <2>2
<1>5. \A j \in {1, 3, 4} : pdpt \notin L[j]
  <2>1. \A j \in 1 .. 5 : j # 2 => L[j] \cap L[2] = {}
    BY DEF Tree
  <2> QED
    BY <1>4, <2>1
<1>6. \A k \in 1 .. 4 : \A t \in L[k], i \in Index :
        k # 2 \/ t # pdpt \/ i # 0 => Entry(tb, t, i) \in L[k + 1] \cup {NULL}
  <2>1. SUFFICES ASSUME NEW k \in 1 .. 4, NEW t \in L[k], NEW i \in Index,
                        k # 2 \/ t # pdpt \/ i # 0
                 PROVE  Entry(tb, t, i) \in L[k + 1] \cup {NULL}
    OBVIOUS
  <2>2. Entry(tb, t, i) = tb[t][i]
    BY <1>2 DEF Entry
  <2>3. ~ (t = pdpt /\ i = 0)
    BY <1>5, <2>1
  <2>4. tb[t][i] \in L[k + 1] \/ tb[t][i] = NULL \/ (t = pdpt /\ i = 0)
    BY DEF Tree
  <2> QED
    BY <2>2, <2>3, <2>4
<1>7. Reach(tb, r, v, 2) \in L[2] \cup {NULL}
  <2>1. Entry(tb, r, v[1]) \in L[2] \cup {NULL}
    <3>1. 1 \in 1 .. 4 /\ 1 # 2 /\ 1 + 1 = 2
      OBVIOUS
    <3> QED
      BY <1>1, <1>6, <3>1
  <2> QED
    BY <2>1 DEF Reach
<1>8. v[1] = 0 <=> Reach(tb, r, v, 2) = pdpt
  <2>1. v[1] = 0 => tb[r][v[1]] = pdpt
    BY DEF Tree
  <2>2. ASSUME tb[r][v[1]] = pdpt PROVE v[1] = 0
    <3>1. tb[r][0] = pdpt /\ pdpt # NULL
      BY <1>2 DEF Tree
    <3> QED
      BY <1>1, <2>2, <3>1 DEF Tree
  <2> QED
    BY <1>3, <2>1, <2>2
<1>9. Reach(tb, r, v, 3) \in L[3] \cup {NULL}
  <2>1. CASE Reach(tb, r, v, 2) = NULL
    BY <1>3, <2>1 DEF Entry
  <2>2. CASE Reach(tb, r, v, 2) # NULL
    <3>1. Reach(tb, r, v, 2) \in L[2] /\ (Reach(tb, r, v, 2) # pdpt \/ v[2] # 0)
      BY <1>1, <1>7, <1>8, <2>2
    <3>2. 2 \in 1 .. 4 /\ 2 + 1 = 3
      OBVIOUS
    <3> QED
      BY <1>1, <1>3, <1>6, <3>1, <3>2
  <2> QED
    BY <2>1, <2>2
<1>10. Reach(tb, r, v, 4) \in L[4] \cup {NULL}
  <2>1. CASE Reach(tb, r, v, 3) = NULL
    BY <1>3, <2>1 DEF Entry
  <2>2. CASE Reach(tb, r, v, 3) # NULL
    <3>1. 3 \in 1 .. 4 /\ 3 + 1 = 4 /\ 3 # 2
      OBVIOUS
    <3> QED
      BY <1>1, <1>3, <1>6, <1>9, <2>2, <3>1
  <2> QED
    BY <2>1, <2>2
<1>11. Lookup(tb, r, v) \in L[5] \cup {NULL}
  <2>1. CASE Reach(tb, r, v, 4) = NULL
    BY <1>3, <2>1 DEF Entry
  <2>2. CASE Reach(tb, r, v, 4) # NULL
    <3>1. 4 \in 1 .. 4 /\ 4 + 1 = 5 /\ 4 # 2
      OBVIOUS
    <3> QED
      BY <1>1, <1>3, <1>6, <1>10, <2>2, <3>1
  <2> QED
    BY <2>1, <2>2
<1>12. \A k \in 2 .. 4 : Reach(tb, r, v, k) \in L[k] \cup {NULL}
  <2>1. \A k \in 2 .. 4 : k = 2 \/ k = 3 \/ k = 4
    OBVIOUS
  <2> QED
    BY <1>7, <1>9, <1>10, <2>1
<1>13. \A k \in 1 .. 3 : Reach(tb, r, v, k + 1) = Entry(tb, Reach(tb, r, v, k), v[k])
  <2>1. \A k \in 1 .. 3 : (k = 1 /\ k + 1 = 2) \/ (k = 2 /\ k + 1 = 3) \/ (k = 3 /\ k + 1 = 4)
    OBVIOUS
  <2>2. Reach(tb, r, v, 2) = Entry(tb, Reach(tb, r, v, 1), v[1])
    BY DEF Reach
  <2> QED
    BY <1>3, <2>1, <2>2
<1>14. Reach(tb, r, v, 3) # pdpt /\ Reach(tb, r, v, 4) # pdpt
  BY <1>2, <1>5, <1>9, <1>10
<1> QED
  BY <1>3, <1>8, <1>11, <1>12, <1>13, <1>14

\* Two walks that reach the same page table are for pages that differ in the last index only.
LEMMA PathsApart ==
  ASSUME NEW tb, NEW L, Tree(tb, L), NEW r \in L[1], NEW s \in L[1],
         NEW v \in Page, NEW w \in Page,
         Reach(tb, r, v, 4) = Reach(tb, s, w, 4), Reach(tb, r, v, 4) # NULL
  PROVE  v[1] = w[1] /\ v[2] = w[2] /\ v[3] = w[3]
<1>1. /\ v[1] \in Index /\ v[2] \in Index /\ v[3] \in Index
      /\ w[1] \in Index /\ w[2] \in Index /\ w[3] \in Index
  BY PageParts
<1>2. \A k \in 2 .. 3 : \A a, b \in L[k] : \A i, j \in Index :
        tb[a][i] = tb[b][j] /\ tb[a][i] # NULL => a = b /\ i = j
  BY DEF Tree
<1>3. /\ Reach(tb, r, v, 3) \in L[3] \cup {NULL} /\ Reach(tb, s, w, 3) \in L[3] \cup {NULL}
      /\ Reach(tb, r, v, 2) \in L[2] \cup {NULL} /\ Reach(tb, s, w, 2) \in L[2] \cup {NULL}
      /\ Reach(tb, r, v, 4) = Entry(tb, Reach(tb, r, v, 3), v[3])
      /\ Reach(tb, s, w, 4) = Entry(tb, Reach(tb, s, w, 3), w[3])
      /\ Reach(tb, r, v, 3) = Entry(tb, Reach(tb, r, v, 2), v[2])
      /\ Reach(tb, s, w, 3) = Entry(tb, Reach(tb, s, w, 2), w[2])
      /\ Reach(tb, r, v, 2) = tb[r][v[1]] /\ Reach(tb, s, w, 2) = tb[s][w[1]]
  <2>1. 2 \in 2 .. 4 /\ 3 \in 2 .. 4 /\ 2 \in 1 .. 3 /\ 3 \in 1 .. 3 /\ 2 + 1 = 3 /\ 3 + 1 = 4
    OBVIOUS
  <2>2. /\ Reach(tb, r, v, 3) \in L[3] \cup {NULL} /\ Reach(tb, r, v, 2) \in L[2] \cup {NULL}
        /\ Reach(tb, r, v, 4) = Entry(tb, Reach(tb, r, v, 3), v[3])
        /\ Reach(tb, r, v, 3) = Entry(tb, Reach(tb, r, v, 2), v[2])
        /\ Reach(tb, r, v, 2) = tb[r][v[1]]
    BY <2>1, PathOnLevels
  <2>3. /\ Reach(tb, s, w, 3) \in L[3] \cup {NULL} /\ Reach(tb, s, w, 2) \in L[2] \cup {NULL}
        /\ Reach(tb, s, w, 4) = Entry(tb, Reach(tb, s, w, 3), w[3])
        /\ Reach(tb, s, w, 3) = Entry(tb, Reach(tb, s, w, 2), w[2])
        /\ Reach(tb, s, w, 2) = tb[s][w[1]]
    BY <2>1, PathOnLevels
  <2> QED
    BY <2>2, <2>3
<1>4. /\ Reach(tb, r, v, 3) # NULL /\ Reach(tb, s, w, 3) # NULL
      /\ Reach(tb, r, v, 2) # NULL /\ Reach(tb, s, w, 2) # NULL
      /\ Reach(tb, r, v, 4) = tb[Reach(tb, r, v, 3)][v[3]]
      /\ Reach(tb, s, w, 4) = tb[Reach(tb, s, w, 3)][w[3]]
      /\ Reach(tb, r, v, 3) = tb[Reach(tb, r, v, 2)][v[2]]
      /\ Reach(tb, s, w, 3) = tb[Reach(tb, s, w, 2)][w[2]]
  BY <1>3 DEF Entry
<1>5. Reach(tb, r, v, 3) = Reach(tb, s, w, 3) /\ v[3] = w[3]
  <2>1. 3 \in 2 .. 3
    OBVIOUS
  <2> QED
    BY <1>1, <1>2, <1>3, <1>4, <2>1
<1>6. Reach(tb, r, v, 2) = Reach(tb, s, w, 2) /\ v[2] = w[2]
  <2>1. 2 \in 2 .. 3
    OBVIOUS
  <2> QED
    BY <1>1, <1>2, <1>3, <1>4, <1>5, <2>1
<1>7. v[1] = w[1]
  <2>1. tb[r][v[1]] = tb[s][w[1]] /\ tb[r][v[1]] # NULL
    BY <1>3, <1>4, <1>6
  <2> QED
    BY <1>1, <2>1 DEF Tree
<1> QED
  BY <1>5, <1>6, <1>7

\* A new table translates no page; all other translations stay.
LEMMA TableTranslatesNothing ==
  ASSUME NEW mem, NEW tb, Typed(tb, mem), NEW L, Tree(tb, L), NEW k \in 1 .. 3,
         NEW t \in L[k], NEW i \in Index, tb[t][i] = NULL, NEW n \in mem,
         \A j \in 1 .. 5 : n \notin L[j], NEW r \in L[1], NEW v \in Page
  PROVE  Lookup(WithTable(tb, t, i, n), r, v) = Lookup(tb, r, v)
<1> DEFINE tb2 == WithTable(tb, t, i, n)
           L2 == Added(L, k + 1, n)
           A(m) == Reach(tb, r, v, m)
           B(m) == Reach(tb2, r, v, m)
           Like(m) == B(m) = A(m) \/ (A(m) = NULL /\ B(m) = n)
<1>1. /\ L \in [1 .. 5 -> SUBSET Place] /\ t \in Place /\ t # n /\ n \in Place
      /\ NULL \notin Place /\ r \in Place /\ r # n /\ r # NULL
  BY Places DEF Tree, Typed, Place
<1>2. /\ tb2[t][i] = n
      /\ \A j \in Index : tb2[n][j] = NULL
      /\ \A s \in Place \ {n} : \A j \in Index : s # t \/ j # i => tb2[s][j] = tb[s][j]
  BY <1>1, WithTableSays
<1>3. Tree(tb2, L2) /\ r \in L2[1]
  <2>1. L2[1] = L[1]
    BY DEF Added
  <2> QED
    BY <2>1, TreeGrows
<1>4. v[1] \in Index /\ v[2] \in Index /\ v[3] \in Index /\ v[4] \in Index
  BY PageParts
<1>5. /\ \A m \in 1 .. 3 : A(m + 1) = Entry(tb, A(m), v[m])
      /\ \A m \in 2 .. 4 : A(m) \in L[m] \cup {NULL}
      /\ A(1) = r /\ Lookup(tb, r, v) = Entry(tb, A(4), v[4])
  BY PathOnLevels
<1>6. /\ \A m \in 1 .. 3 : B(m + 1) = Entry(tb2, B(m), v[m])
      /\ B(1) = r /\ Lookup(tb2, r, v) = Entry(tb2, B(4), v[4])
  BY <1>3, PathOnLevels
<1>7. \A a, c : c \in Index /\ (a \in Place \ {n} \/ a = NULL) =>
        \/ Entry(tb2, a, c) = Entry(tb, a, c)
        \/ a = t /\ Entry(tb, a, c) = NULL /\ Entry(tb2, a, c) = n
  BY <1>1, <1>2 DEF Entry
<1>8. \A c \in Index : Entry(tb2, n, c) = NULL /\ Entry(tb, NULL, c) = NULL
  BY <1>1, <1>2 DEF Entry
<1>9. \A m \in 1 .. 4 : A(m) \in Place \ {n} \/ A(m) = NULL
  <2>1. \A m \in 2 .. 4 : L[m] \subseteq Place \ {n}
    BY <1>1
  <2>2. A(1) \in Place \ {n}
    BY <1>1, <1>5
  <2>3. \A m \in 1 .. 4 : m = 1 \/ m \in 2 .. 4
    OBVIOUS
  <2> QED
    BY <1>5, <2>1, <2>2, <2>3
<1> HIDE DEF tb2, L2, A, B
<1>10. ASSUME NEW m \in 1 .. 3, Like(m), v[m] \in Index PROVE Like(m + 1)
  BY <1>5, <1>6, <1>7, <1>8, <1>9, <1>10
<1>11. Like(4)
  <2>1. Like(1)
    BY <1>5, <1>6
  <2>2. Like(2)
    <3>1. 1 \in 1 .. 3 /\ 1 + 1 = 2
      OBVIOUS
    <3> QED
      BY <1>4, <1>10, <2>1, <3>1
  <2>3. Like(3)
    <3>1. 2 \in 1 .. 3 /\ 2 + 1 = 3
      OBVIOUS
    <3> QED
      BY <1>4, <1>10, <2>2, <3>1
  <2>4. 3 \in 1 .. 3 /\ 3 + 1 = 4
    OBVIOUS
  <2> QED
    BY <1>4, <1>10, <2>3, <2>4
<1>12. A(4) # t
  <2>1. L[4] \cap L[k] = {}
    BY DEF Tree
  <2>2. 4 \in 2 .. 4
    OBVIOUS
  <2> QED
    BY <1>1, <1>5, <2>1, <2>2
<1>13. Entry(tb2, B(4), v[4]) = Entry(tb, A(4), v[4])
  <2>1. CASE B(4) = A(4)
    <3>1. 4 \in 1 .. 4
      OBVIOUS
    <3> QED
      BY <1>4, <1>7, <1>9, <1>12, <2>1, <3>1
  <2>2. CASE A(4) = NULL /\ B(4) = n
    BY <1>4, <1>8, <2>2
  <2> QED
    BY <1>11, <2>1, <2>2
<1> QED
  BY <1>5, <1>6, <1>13 DEF tb2

\* A page's entry.
WithPage(tb, t, i, f) == [tb EXCEPT ![t][i] = f]

\* A frame put into an empty entry of a page table is one more that pages are mapped to.
LEMMA PagePut ==
  ASSUME NEW mem, NEW tb, Typed(tb, mem), NEW L, Tree(tb, L),
         NEW t \in L[4], NEW i \in Index, tb[t][i] = NULL, NEW f \in mem,
         \A j \in 1 .. 4 : f \notin L[j]
  PROVE  /\ Typed(WithPage(tb, t, i, f), mem)
         /\ WithPage(tb, t, i, f)[t][i] = f
         /\ \A s \in Place : \A j \in Index :
              s # t \/ j # i => WithPage(tb, t, i, f)[s][j] = tb[s][j]
         /\ Tree(WithPage(tb, t, i, f), Added(L, 5, f))
<1> DEFINE tb2 == WithPage(tb, t, i, f)
           L2 == Added(L, 5, f)
<1>1. /\ L \in [1 .. 5 -> SUBSET Place] /\ t \in Place /\ f \in Place
      /\ f # NULL /\ f # pdpt /\ f # pml4 /\ f # identity
  BY Places DEF Tree, Typed, Place
<1>2. /\ Typed(tb2, mem) /\ tb2[t][i] = f
      /\ \A s \in Place : \A j \in Index : s # t \/ j # i => tb2[s][j] = tb[s][j]
  BY <1>1 DEF Typed, WithPage
<1>3. /\ L2 \in [1 .. 5 -> SUBSET Place]
      /\ L2[5] = L[5] \cup {f}
      /\ \A j \in 1 .. 4 : L2[j] = L[j]
  BY <1>1 DEF Added
<1> HIDE DEF tb2, L2
<1>4. \A j, l \in 1 .. 5 : j # l => L2[j] \cap L2[l] = {}
  <2>1. \A j, l \in 1 .. 5 : j # l => L[j] \cap L[l] = {}
    BY DEF Tree
  <2> QED
    BY <1>3, <2>1
<1>5. \A j \in 1 .. 3 : \A s \in L[j], c \in Index : s \in Place /\ s # t /\ tb2[s][c] = tb[s][c]
  <2>1. \A j \in 1 .. 3 : t \notin L[j] /\ L[j] \subseteq Place
    BY <1>1 DEF Tree
  <2> QED
    BY <1>2, <2>1
<1>6. \A j \in 1 .. 4 : \A s \in L2[j], c \in Index :
        tb2[s][c] \in L2[j + 1] \/ tb2[s][c] = NULL \/ (s = pdpt /\ c = 0)
  <2>1. SUFFICES ASSUME NEW j \in 1 .. 4, NEW s \in L2[j], NEW c \in Index
                 PROVE  tb2[s][c] \in L2[j + 1] \/ tb2[s][c] = NULL \/ (s = pdpt /\ c = 0)
    OBVIOUS
  <2>2. tb[s][c] \in L[j + 1] \/ tb[s][c] = NULL \/ (s = pdpt /\ c = 0)
    BY <1>3 DEF Tree
  <2>3. CASE j # 4
    <3>1. j \in 1 .. 3 /\ j + 1 \in 1 .. 4
      BY <2>3
    <3> QED
      BY <1>3, <1>5, <2>2, <3>1
  <2>4. CASE j = 4
    <3>1. j + 1 = 5 /\ s \in Place
      BY <1>1, <1>3, <2>4
    <3> QED
      BY <1>2, <1>3, <2>2, <3>1
  <2> QED
    BY <2>3, <2>4
<1>7. \A j \in 1 .. 4 : \A x \in L2[j + 1] : \E s \in L2[j], c \in Index : tb2[s][c] = x
  <2>1. SUFFICES ASSUME NEW j \in 1 .. 4, NEW x \in L2[j + 1]
                 PROVE  \E s \in L2[j], c \in Index : tb2[s][c] = x
    OBVIOUS
  <2>2. CASE j # 4
    <3>1. j \in 1 .. 3 /\ j + 1 \in 1 .. 4
      BY <2>2
    <3>2. PICK s \in L[j], c \in Index : tb[s][c] = x
      BY <1>3, <3>1 DEF Tree
    <3> QED
      BY <1>3, <1>5, <3>1, <3>2
  <2>3. CASE j = 4 /\ x = f
    BY <1>2, <1>3, <2>3
  <2>4. CASE j = 4 /\ x # f
    <3>1. j + 1 = 5 /\ x \in L[j + 1]
      BY <1>3, <2>4
    <3>2. PICK s \in L[j], c \in Index : tb[s][c] = x
      BY <3>1 DEF Tree
    <3>3. x # NULL /\ s \in Place
      BY <1>1, <3>1, Places
    <3>4. tb2[s][c] = x
      BY <1>2, <3>2, <3>3
    <3> QED
      BY <1>3, <2>4, <3>2, <3>4
  <2> QED
    BY <2>2, <2>3, <2>4
<1>8. pml4 \in L2[1] /\ \A s \in L2[1] : tb2[s][0] = pdpt
  <2>1. L2[1] = L[1] /\ 1 \in 1 .. 3 /\ 0 \in Index
    BY <1>3, Places
  <2>2. pml4 \in L[1] /\ \A s \in L[1] : tb[s][0] = pdpt
    BY DEF Tree
  <2> QED
    BY <1>5, <2>1, <2>2
<1>9. tb2[pdpt][0] = identity
  <2>1. tb[pdpt][0] = identity /\ identity # NULL /\ pdpt \in Place /\ 0 \in Index
    BY Places DEF Tree
  <2>2. pdpt # t \/ 0 # i
    BY <2>1
  <2> QED
    BY <1>2, <2>1, <2>2
<1>10. \A x, y \in L2[1] : \A c, d \in Index :
         tb2[x][c] = tb2[y][d] /\ tb2[x][c] # NULL => c = d
  <2>1. \A x, y \in L[1] : \A c, d \in Index : tb[x][c] = tb[y][d] /\ tb[x][c] # NULL => c = d
    BY DEF Tree
  <2>2. L2[1] = L[1] /\ 1 \in 1 .. 3
    BY <1>3
  <2>3. \A x \in L2[1], c \in Index : tb2[x][c] = tb[x][c]
    BY <1>5, <2>2
  <2> QED
    BY ONLY <2>1, <2>2, <2>3
<1>11. \A j \in 2 .. 3 : \A x, y \in L2[j] : \A c, d \in Index :
         tb2[x][c] = tb2[y][d] /\ tb2[x][c] # NULL => x = y /\ c = d
  <2>1. \A j \in 2 .. 3 : \A x, y \in L[j] : \A c, d \in Index :
          tb[x][c] = tb[y][d] /\ tb[x][c] # NULL => x = y /\ c = d
    BY DEF Tree
  <2>2. \A j \in 2 .. 3 : L2[j] = L[j] /\ \A x \in L[j], c \in Index : tb2[x][c] = tb[x][c]
    BY <1>3, <1>5
  <2> QED
    BY ONLY <2>1, <2>2
<1> QED
  <2>1. Tree(tb2, L2)
    BY <1>3, <1>4, <1>6, <1>7, <1>8, <1>9, <1>10, <1>11 DEF Tree
  <2> QED
    BY <1>2, <2>1 DEF tb2, L2

\* A walk looks at the three upper levels only.
LEMMA SameWalk ==
  ASSUME NEW tb, NEW tb2, NEW L, Tree(tb, L), NEW r \in L[1], NEW v \in Page,
         \A j \in 1 .. 3 : \A s \in L[j], c \in Index : tb2[s][c] = tb[s][c]
  PROVE  \A m \in 1 .. 4 : Reach(tb2, r, v, m) = Reach(tb, r, v, m)
<1>1. v[1] \in Index /\ v[2] \in Index /\ v[3] \in Index /\ v[4] \in Index
  BY PageParts
<1>2. /\ Reach(tb, r, v, 2) \in L[2] \cup {NULL} /\ Reach(tb, r, v, 3) \in L[3] \cup {NULL}
  <2>1. 2 \in 2 .. 4 /\ 3 \in 2 .. 4
    OBVIOUS
  <2> QED
    BY <2>1, PathOnLevels
<1>3. \A m \in 1 .. 3 : \A x \in L[m] \cup {NULL}, c \in Index : Entry(tb2, x, c) = Entry(tb, x, c)
  BY DEF Entry
<1>4. Entry(tb2, r, v[1]) = Entry(tb, r, v[1])
  <2>1. 1 \in 1 .. 3
    OBVIOUS
  <2> QED
    BY <1>1, <1>3, <2>1
<1>5. Entry(tb2, Reach(tb, r, v, 2), v[2]) = Entry(tb, Reach(tb, r, v, 2), v[2])
  <2>1. 2 \in 1 .. 3
    OBVIOUS
  <2> QED
    BY <1>1, <1>2, <1>3, <2>1
<1>6. Entry(tb2, Reach(tb, r, v, 3), v[3]) = Entry(tb, Reach(tb, r, v, 3), v[3])
  <2>1. 3 \in 1 .. 3
    OBVIOUS
  <2> QED
    BY <1>1, <1>2, <1>3, <2>1
<1>7. /\ Reach(tb2, r, v, 1) = Reach(tb, r, v, 1)
      /\ Reach(tb2, r, v, 2) = Reach(tb, r, v, 2)
      /\ Reach(tb2, r, v, 3) = Reach(tb, r, v, 3)
      /\ Reach(tb2, r, v, 4) = Reach(tb, r, v, 4)
  BY <1>4, <1>5, <1>6 DEF Reach
<1>8. \A m \in 1 .. 4 : m = 1 \/ m = 2 \/ m = 3 \/ m = 4
  OBVIOUS
<1> QED
  BY <1>7, <1>8

\* A frame put where the walk for page v ends is what v, and no other page, is translated
\* to, under every root that reaches that table.
LEMMA PageTranslated ==
  ASSUME NEW mem, NEW tb, Typed(tb, mem), NEW L, Tree(tb, L), NEW r \in L[1], NEW v \in Page,
         NEW t, t = Reach(tb, r, v, 4), t # NULL, tb[t][v[4]] = NULL, NEW f \in mem,
         \A j \in 1 .. 4 : f \notin L[j], NEW s \in L[1], NEW w \in Page
  PROVE  Lookup(WithPage(tb, t, v[4], f), s, w) =
           IF w = v /\ Reach(tb, s, w, 4) = t THEN f ELSE Lookup(tb, s, w)
<1> DEFINE tb2 == WithPage(tb, t, v[4], f)
           L2 == Added(L, 5, f)
<1>1. /\ v[4] \in Index /\ w[4] \in Index /\ t \in L[4]
      /\ L \in [1 .. 5 -> SUBSET Place] /\ NULL \notin Place
  <2>1. 4 \in 2 .. 4
    OBVIOUS
  <2>2. t \in L[4]
    BY <2>1, PathOnLevels
  <2> QED
    BY <2>2, PageParts, Places DEF Tree
<1>2. /\ tb2[t][v[4]] = f
      /\ \A x \in Place : \A j \in Index : x # t \/ j # v[4] => tb2[x][j] = tb[x][j]
      /\ Tree(tb2, L2)
  BY <1>1, PagePut
<1>3. s \in L2[1]
  BY DEF Added
<1> HIDE DEF tb2, L2
<1>4. \A j \in 1 .. 3 : \A x \in L[j], c \in Index : tb2[x][c] = tb[x][c]
  <2>1. \A j \in 1 .. 3 : t \notin L[j] /\ L[j] \subseteq Place
    BY <1>1 DEF Tree
  <2> QED
    BY <1>2, <2>1
<1>5. Reach(tb2, s, w, 4) = Reach(tb, s, w, 4)
  <2>1. 4 \in 1 .. 4
    OBVIOUS
  <2>2. \A m \in 1 .. 4 : Reach(tb2, s, w, m) = Reach(tb, s, w, m)
    BY <1>4, SameWalk
  <2> QED
    BY <2>1, <2>2
<1>6. /\ Lookup(tb, s, w) = Entry(tb, Reach(tb, s, w, 4), w[4])
      /\ Lookup(tb2, s, w) = Entry(tb2, Reach(tb, s, w, 4), w[4])
      /\ Reach(tb, s, w, 4) \in L[4] \cup {NULL}
  <2>1. Lookup(tb2, s, w) = Entry(tb2, Reach(tb2, s, w, 4), w[4])
    BY <1>2, <1>3, PathOnLevels
  <2>2. 4 \in 2 .. 4
    OBVIOUS
  <2> QED
    BY <1>5, <2>1, <2>2, PathOnLevels
<1>7. CASE Reach(tb, s, w, 4) = t /\ w[4] = v[4]
  <2>1. v[1] = w[1] /\ v[2] = w[2] /\ v[3] = w[3]
    BY <1>7, PathsApart
  <2>2. w = v
    BY <1>7, <2>1, PageParts
  <2> QED
    BY <1>2, <1>6, <1>7, <2>2 DEF Entry, tb2
<1>8. CASE ~ (Reach(tb, s, w, 4) = t /\ w[4] = v[4])
  <2>1. ~ (w = v /\ Reach(tb, s, w, 4) = t)
    BY <1>8
  <2>2. Entry(tb2, Reach(tb, s, w, 4), w[4]) = Entry(tb, Reach(tb, s, w, 4), w[4])
    <3>1. CASE Reach(tb, s, w, 4) = NULL
      BY <3>1 DEF Entry
    <3>2. CASE Reach(tb, s, w, 4) # NULL
      <4>1. Reach(tb, s, w, 4) \in Place
        BY <1>1, <1>6, <3>2
      <4> QED
        BY <1>1, <1>2, <1>8, <3>2, <4>1 DEF Entry
    <3> QED
      BY <3>1, <3>2
  <2> QED
    BY <1>6, <2>1, <2>2 DEF tb2
<1> QED
  BY <1>7, <1>8

\* On the levels L the tables tb2 say what tb say.
SaysSame(tb2, tb, L) ==
  \A k \in 1 .. 4 : \A t \in L[k], i \in Index : tb2[t][i] = tb[t][i]

\* Under every root of L pages are translated as before.
SeesSame(tb2, tb, L) == \A r \in L[1], v \in Page : Lookup(tb2, r, v) = Lookup(tb, r, v)

\* Tables that say the same where the levels are have the same levels and translations.
LEMMA SameTree ==
  ASSUME NEW tb, NEW tb2, NEW L, Tree(tb, L), SaysSame(tb2, tb, L)
  PROVE  Tree(tb2, L) /\ SeesSame(tb2, tb, L)
<1>0. \A k \in 1 .. 4 : \A t \in L[k], i \in Index : tb2[t][i] = tb[t][i]
  BY DEF SaysSame
<1>1. Tree(tb2, L)
  <2>1. /\ L \in [1 .. 5 -> SUBSET Place]
        /\ \A j, k \in 1 .. 5 : j # k => L[j] \cap L[k] = {}
        /\ pml4 \in L[1]
    BY DEF Tree
  <2>2. \A k \in 1 .. 4 : \A t \in L[k], i \in Index :
          tb2[t][i] \in L[k + 1] \/ tb2[t][i] = NULL \/ (t = pdpt /\ i = 0)
    BY <1>0 DEF Tree
  <2>3. \A k \in 1 .. 4 : \A n \in L[k + 1] : \E t \in L[k], i \in Index : tb2[t][i] = n
    <3>1. \A k \in 1 .. 4 : \A n \in L[k + 1] : \E t \in L[k], i \in Index : tb[t][i] = n
      BY DEF Tree
    <3> QED
      BY ONLY <1>0, <3>1
  <2>4. \A t \in L[1] : tb2[t][0] = pdpt
    <3>1. 1 \in 1 .. 4 /\ 0 \in Index
      BY Places
    <3> QED
      BY <1>0, <3>1 DEF Tree
  <2>5. tb2[pdpt][0] = identity
    <3>1. pml4 \in L[1] /\ tb[pml4][0] = pdpt /\ 0 \in Index /\ pml4 # pdpt /\ pdpt # NULL
      BY Places DEF Tree
    <3>2. pdpt \in L[1 + 1]
      <4>1. 1 \in 1 .. 4
        OBVIOUS
      <4> QED
        BY <3>1, <4>1 DEF Tree
    <3>3. 1 + 1 \in 1 .. 4
      OBVIOUS
    <3> QED
      BY <1>0, <3>1, <3>2, <3>3 DEF Tree
  <2>6. \A s, t \in L[1] : \A i, j \in Index : tb2[s][i] = tb2[t][j] /\ tb2[s][i] # NULL => i = j
    <3>1. \A s, t \in L[1] : \A i, j \in Index : tb[s][i] = tb[t][j] /\ tb[s][i] # NULL => i = j
      BY DEF Tree
    <3>2. 1 \in 1 .. 4
      OBVIOUS
    <3>3. \A s \in L[1], i \in Index : tb2[s][i] = tb[s][i]
      BY <1>0, <3>2
    <3> QED
      BY ONLY <3>1, <3>3
  <2>7. \A k \in 2 .. 3 : \A s, t \in L[k] : \A i, j \in Index :
          tb2[s][i] = tb2[t][j] /\ tb2[s][i] # NULL => s = t /\ i = j
    <3>1. \A k \in 2 .. 3 : \A s, t \in L[k] : \A i, j \in Index :
            tb[s][i] = tb[t][j] /\ tb[s][i] # NULL => s = t /\ i = j
      BY DEF Tree
    <3>2. \A k \in 2 .. 3 : \A s \in L[k], i \in Index : tb2[s][i] = tb[s][i]
      <4>1. 2 .. 3 \subseteq 1 .. 4
        OBVIOUS
      <4> QED
        BY <1>0, <4>1
    <3> QED
      BY ONLY <3>1, <3>2
  <2> QED
    BY <2>1, <2>2, <2>3, <2>4, <2>5, <2>6, <2>7 DEF Tree
<1>2. ASSUME NEW r \in L[1], NEW v \in Page PROVE Lookup(tb2, r, v) = Lookup(tb, r, v)
  <2>1. Reach(tb2, r, v, 4) = Reach(tb, r, v, 4)
    <3>1. 4 \in 1 .. 4 /\ 1 .. 3 \subseteq 1 .. 4
      OBVIOUS
    <3>2. \A m \in 1 .. 4 : Reach(tb2, r, v, m) = Reach(tb, r, v, m)
      BY <1>0, <3>1, SameWalk
    <3> QED
      BY <3>1, <3>2
  <2>2. /\ Lookup(tb2, r, v) = Entry(tb2, Reach(tb, r, v, 4), v[4])
        /\ Lookup(tb, r, v) = Entry(tb, Reach(tb, r, v, 4), v[4])
    BY <1>1, <2>1, PathOnLevels
  <2>3. Reach(tb, r, v, 4) \in L[4] \cup {NULL} /\ v[4] \in Index
    <3>1. 4 \in 2 .. 4
      OBVIOUS
    <3> QED
      BY <3>1, PageParts, PathOnLevels
  <2>4. 4 \in 1 .. 4
    OBVIOUS
  <2> QED
    BY <1>0, <2>2, <2>3, <2>4 DEF Entry
<1> QED
  BY <1>1, <1>2 DEF SeesSame

------------------------------------------------------------------------------
(* The walk that makes what is missing. *)

\* What a walk on memory m for page v has done when it stands at level k: the tables are as
\* the levels L say, and the levels K were those of m.
Walked(w, m, mem, root, v, k, K, L) ==
  /\ w.ok \in BOOLEAN
  /\ w = [ok |-> w.ok, at |-> w.at, made |-> w.made, free |-> w.free, table |-> w.table]
  /\ w.free \subseteq m.free
  /\ Typed(w.table, mem) /\ Tree(w.table, L)
  /\ L[1] = K[1] /\ L[5] = K[5]
  /\ L[2] \cup L[3] \cup L[4] = K[2] \cup K[3] \cup K[4] \cup (m.free \ w.free)
  /\ \A j \in 1 .. 5 : L[j] \cap w.free = {}
  /\ \A r \in K[1], u \in Page : Lookup(w.table, r, u) = Lookup(m.table, r, u)
  /\ w.ok => w.at = Reach(w.table, root, v, k) /\ w.at \in L[k]
  /\ ~ w.ok => Lookup(m.table, root, v) = NULL
  /\ (w.free = m.free /\ w.table = m.table) \/ Lookup(m.table, root, v) = NULL

\* What its list of the tables it made is good for: elsewhere than in frames that were free
\* the entries are as before, but for empty ones that the list names.
MadeKnown(w, m) ==
  /\ m.free = w.free \cup {x[3] : x \in w.made}
  /\ \A x \in w.made : x[1] \notin m.free => m.table[x[1]][x[2]] = NULL
  /\ \A t \in Place \ m.free, i \in Index :
       w.table[t][i] = m.table[t][i] \/ \E x \in w.made : x[1] = t /\ x[2] = i

\* One level further.
LEMMA DescendWalks ==
  ASSUME NEW m, NEW mem, NEW root, NEW v \in Page, NEW K, NEW L, NEW w, NEW k \in 1 .. 3,
         K[1] \subseteq Place, root \in K[1], m.free \subseteq mem,
         Walked(w, m, mem, root, v, k, K, L), MadeKnown(w, m)
  PROVE  \E L2 : /\ Walked(Descend(w, v[k]), m, mem, root, v, k + 1, K, L2)
                 /\ MadeKnown(Descend(w, v[k]), m)
<1> DEFINE i == v[k]
           w2 == Descend(w, i)
<1>1. /\ w.ok \in BOOLEAN
      /\ w = [ok |-> w.ok, at |-> w.at, made |-> w.made, free |-> w.free, table |-> w.table]
      /\ w.free \subseteq m.free
      /\ Typed(w.table, mem) /\ Tree(w.table, L)
      /\ L[1] = K[1] /\ L[5] = K[5]
      /\ L[2] \cup L[3] \cup L[4] = K[2] \cup K[3] \cup K[4] \cup (m.free \ w.free)
      /\ \A j \in 1 .. 5 : L[j] \cap w.free = {}
      /\ \A r \in K[1], u \in Page : Lookup(w.table, r, u) = Lookup(m.table, r, u)
      /\ w.ok => w.at = Reach(w.table, root, v, k) /\ w.at \in L[k]
      /\ ~ w.ok => Lookup(m.table, root, v) = NULL
      /\ (w.free = m.free /\ w.table = m.table) \/ Lookup(m.table, root, v) = NULL
  BY DEF Walked
<1>2. i \in Index
  <2>1. k = 1 \/ k = 2 \/ k = 3
    OBVIOUS
  <2> QED
    BY <2>1, PageParts
<1>3. /\ root \in L[1]
      /\ Reach(w.table, root, v, k + 1) = Entry(w.table, Reach(w.table, root, v, k), i)
      /\ Reach(w.table, root, v, k + 1) \in L[k + 1] \cup {NULL}
      /\ k + 1 \in 2 .. 4
  <2>1. root \in L[1] /\ k + 1 \in 2 .. 4
    BY <1>1
  <2> QED
    BY <1>1, <2>1, PathOnLevels
<1>4. /\ mem \subseteq Nat /\ mem \subseteq Place /\ NULL \notin Place
      /\ L \in [1 .. 5 -> SUBSET Place]
  <2>1. mem \subseteq Frame
    BY <1>1 DEF Typed
  <2> QED
    BY <1>1, <2>1, Places DEF Tree, Place
<1>5. CASE ~ w.ok
  <2>1. w2 = w
    BY <1>5 DEF Descend
  <2>2. Walked(w, m, mem, root, v, k + 1, K, L)
    BY <1>1, <1>5 DEF Walked
  <2> QED
    BY <2>1, <2>2
<1>6. CASE w.ok /\ w.table[w.at][i] # NULL
  <2>1. w2 = [w EXCEPT !.at = w.table[w.at][i]]
    BY <1>6 DEF Descend
  <2>2. /\ w2.ok = w.ok /\ w2.at = w.table[w.at][i] /\ w2.made = w.made
        /\ w2.free = w.free /\ w2.table = w.table
        /\ w2 = [ok |-> w2.ok, at |-> w2.at, made |-> w2.made, free |-> w2.free,
                 table |-> w2.table]
    BY <1>1, <2>1
  <2>3. w.at # NULL
    BY <1>1, <1>4, <1>6
  <2>4. w2.at = Reach(w.table, root, v, k + 1) /\ w2.at \in L[k + 1]
    BY <1>1, <1>3, <1>6, <2>2, <2>3 DEF Entry
  <2> HIDE DEF w2, i
  <2>5. Walked(w2, m, mem, root, v, k + 1, K, L)
    BY <1>1, <1>6, <2>2, <2>4 DEF Walked
  <2>6. MadeKnown(w2, m)
    BY <2>2 DEF MadeKnown
  <2> QED
    BY <2>5, <2>6 DEF w2, i
<1>7. ASSUME w.ok, w.table[w.at][i] = NULL PROVE Lookup(m.table, root, v) = NULL
  <2>1. w.at # NULL /\ w.at = Reach(w.table, root, v, k)
    BY <1>1, <1>4, <1>7
  <2>2. Reach(w.table, root, v, k + 1) = NULL
    BY <1>3, <1>7, <2>1 DEF Entry
  <2>3. Reach(w.table, root, v, 4) = NULL
    <3> DEFINE e2 == Entry(w.table, root, v[1])
               e3 == Entry(w.table, e2, v[2])
               e4 == Entry(w.table, e3, v[3])
    <3>1. /\ k = 1 => e2 = NULL
          /\ k = 2 => e3 = NULL
          /\ k = 3 => e4 = NULL
      BY <2>2 DEF Reach
    <3>2. (e2 = NULL => e3 = NULL) /\ (e3 = NULL => e4 = NULL)
      BY DEF Entry
    <3>3. Reach(w.table, root, v, 4) = e4
      BY DEF Reach
    <3>4. k = 1 \/ k = 2 \/ k = 3
      OBVIOUS
    <3> HIDE DEF e2, e3, e4
    <3> QED
      BY <3>1, <3>2, <3>3, <3>4
  <2>4. Lookup(w.table, root, v) = NULL
    <3>1. Lookup(w.table, root, v) = Entry(w.table, Reach(w.table, root, v, 4), v[4])
      BY <1>1, <1>3, PathOnLevels
    <3> QED
      BY <2>3, <3>1 DEF Entry
  <2> QED
    BY <1>1, <2>4
<1>8. CASE w.ok /\ w.table[w.at][i] = NULL /\ w.free = {}
  <2>1. w2 = [w EXCEPT !.ok = FALSE]
    BY <1>8 DEF Descend
  <2>2. /\ w2.ok = FALSE /\ w2.made = w.made
        /\ w2.free = w.free /\ w2.table = w.table
        /\ w2 = [ok |-> w2.ok, at |-> w2.at, made |-> w2.made, free |-> w2.free,
                 table |-> w2.table]
    BY <1>1, <2>1
  <2> HIDE DEF w2, i
  <2>3. Walked(w2, m, mem, root, v, k + 1, K, L)
    BY <1>1, <1>7, <1>8, <2>2 DEF Walked
  <2>4. MadeKnown(w2, m)
    BY <2>2 DEF MadeKnown
  <2> QED
    BY <2>3, <2>4 DEF w2, i
<1>9. CASE w.ok /\ w.table[w.at][i] = NULL /\ w.free # {}
  <2> DEFINE n == Lowest(w.free)
             t == w.at
             L2 == Added(L, k + 1, n)
  <2>1. n \in w.free /\ n \in mem
    <3>1. w.free \in SUBSET Nat
      BY <1>1, <1>4
    <3> QED
      BY <1>1, <1>9, <3>1, LowestIn
  <2>2. /\ w2.ok = TRUE /\ w2.at = n /\ w2.made = w.made \cup {<<t, i, n>>}
        /\ w2.free = w.free \ {n} /\ w2.table = WithTable(w.table, t, i, n)
        /\ w2 = [ok |-> w2.ok, at |-> w2.at, made |-> w2.made, free |-> w2.free,
                 table |-> w2.table]
    BY <1>9 DEF Descend, WithTable
  <2>3. t \in L[k] /\ w.table[t][i] = NULL /\ \A j \in 1 .. 5 : n \notin L[j]
    BY <1>1, <1>9, <2>1
  <2> HIDE DEF w2, i, n, t
  <2>4. Typed(w2.table, mem) /\ Tree(w2.table, L2)
    BY <1>1, <1>2, <2>1, <2>2, <2>3, TreeGrows
  <2>5. \A r \in K[1], u \in Page : Lookup(w2.table, r, u) = Lookup(w.table, r, u)
    <3>1. SUFFICES ASSUME NEW r \in K[1], NEW u \in Page
                   PROVE  Lookup(w2.table, r, u) = Lookup(w.table, r, u)
      OBVIOUS
    <3>2. r \in L[1]
      BY <1>1
    <3> QED
      BY <1>1, <1>2, <2>1, <2>2, <2>3, <3>2, TableTranslatesNothing
  <2>6. /\ \A j \in 1 .. 5 : j # k + 1 => L2[j] = L[j]
        /\ L2[k + 1] = L[k + 1] \cup {n}
    BY DEF Added
  <2>7. L2[1] = K[1] /\ L2[5] = K[5]
    <3>1. 1 # k + 1 /\ 5 # k + 1 /\ 1 \in 1 .. 5 /\ 5 \in 1 .. 5
      OBVIOUS
    <3> QED
      BY <1>1, <2>6, <3>1
  <2>8. L2[2] \cup L2[3] \cup L2[4] = K[2] \cup K[3] \cup K[4] \cup (m.free \ w2.free)
    <3>1. L2[2] \cup L2[3] \cup L2[4] = L[2] \cup L[3] \cup L[4] \cup {n}
      <4>1. k + 1 = 2 \/ k + 1 = 3 \/ k + 1 = 4
        OBVIOUS
      <4>2. 2 \in 1 .. 5 /\ 3 \in 1 .. 5 /\ 4 \in 1 .. 5
        OBVIOUS
      <4> QED
        BY <2>6, <4>1, <4>2
    <3>2. m.free \ w2.free = (m.free \ w.free) \cup {n}
      BY <1>1, <2>1, <2>2
    <3> QED
      BY <1>1, <3>1, <3>2
  <2>9. \A j \in 1 .. 5 : L2[j] \cap w2.free = {}
    BY <1>1, <2>2, <2>6
  <2>10. n = Reach(w2.table, root, v, k + 1) /\ n \in L2[k + 1]
    <3>1. n \in L2[k + 1]
      BY <2>6
    <3>2. w2.table[t][i] = n /\ n # t /\ t \in Place
      <4>1. t \in Place /\ n # t
        BY <1>4, <2>3
      <4> QED
        BY <1>1, <1>2, <2>1, <2>2, <4>1, WithTableSays
    <3>3. Reach(w2.table, root, v, k) = Reach(w.table, root, v, k)
      <4>1. \A s \in Place \ {n} : \A j \in Index : s # t \/ j # i => w2.table[s][j] = w.table[s][j]
        BY <1>1, <1>2, <2>1, <2>2, <3>2, WithTableSays
      <4>2. \A j \in 1 .. 3 : \A s \in L[j], c \in Index :
              j # k => w2.table[s][c] = w.table[s][c]
        <5>1. \A j \in 1 .. 3 : j # k => t \notin L[j]
          BY <1>1, <2>3 DEF Tree
        <5>2. \A j \in 1 .. 3 : L[j] \subseteq Place \ {n}
          BY <1>4, <2>3
        <5> QED
          BY <4>1, <5>1, <5>2
      <4>3. CASE k = 1
        BY <4>3 DEF Reach
      <4>4. \A c \in Index : k # 1 => Entry(w2.table, root, c) = Entry(w.table, root, c)
        <5>1. 1 \in 1 .. 3
          OBVIOUS
        <5> QED
          BY <1>3, <4>2, <5>1 DEF Entry
      <4>5. CASE k = 2
        BY <4>4, <4>5, PageParts DEF Reach
      <4>6. CASE k = 3
        <5>1. Entry(w2.table, root, v[1]) = Entry(w.table, root, v[1])
          BY <4>4, <4>6, PageParts
        <5>2. Entry(w.table, root, v[1]) \in L[2] \cup {NULL}
          <6>1. 2 \in 2 .. 4 /\ Reach(w.table, root, v, 2) = Entry(w.table, root, v[1])
            BY DEF Reach
          <6> QED
            BY <1>1, <1>3, <6>1, PathOnLevels
        <5>3. 2 \in 1 .. 3 /\ 2 # k /\ v[2] \in Index
          BY <4>6, PageParts
        <5>4. Entry(w2.table, Entry(w.table, root, v[1]), v[2])
                = Entry(w.table, Entry(w.table, root, v[1]), v[2])
          BY <4>2, <5>2, <5>3 DEF Entry
        <5> QED
          BY <4>6, <5>1, <5>4 DEF Reach
      <4>7. k = 1 \/ k = 2 \/ k = 3
        OBVIOUS
      <4> QED
        BY <4>3, <4>5, <4>6, <4>7
    <3>4. /\ root \in L2[1]
          /\ Reach(w2.table, root, v, k + 1) = Entry(w2.table, Reach(w2.table, root, v, k), v[k])
      BY <1>3, <1>1, <2>4, <2>7, PathOnLevels
    <3>5. Reach(w.table, root, v, k) = t /\ t # NULL
      BY <1>1, <1>4, <1>9, <3>2 DEF t
    <3> QED
      BY <3>1, <3>2, <3>3, <3>4, <3>5 DEF Entry, i
  <2>11. Walked(w2, m, mem, root, v, k + 1, K, L2)
    <3>1. w2.free \subseteq m.free /\ w2.ok \in BOOLEAN /\ Lookup(m.table, root, v) = NULL
      BY <1>1, <1>7, <1>9, <2>2
    <3>2. \A r \in K[1], u \in Page : Lookup(w2.table, r, u) = Lookup(m.table, r, u)
      BY <1>1, <2>5
    <3> HIDE DEF L2
    <3> QED
      BY <2>2, <2>4, <2>7, <2>8, <2>9, <2>10, <3>1, <3>2 DEF Walked
  <2>12. MadeKnown(w2, m)
    <3>1. /\ m.free = w.free \cup {x[3] : x \in w.made}
          /\ \A x \in w.made : x[1] \notin m.free => m.table[x[1]][x[2]] = NULL
          /\ \A s \in Place \ m.free, c \in Index :
               w.table[s][c] = m.table[s][c] \/ \E x \in w.made : x[1] = s /\ x[2] = c
      BY DEF MadeKnown
    <3>2. m.free = w2.free \cup {x[3] : x \in w2.made}
      <4> DEFINE new == <<t, i, n>>
      <4>1. new[3] = n /\ w2.made = w.made \cup {new}
        BY <2>2
      <4> HIDE DEF new
      <4>2. {x[3] : x \in w2.made} = {x[3] : x \in w.made} \cup {n}
        BY ONLY <4>1
      <4> QED
        BY <2>1, <2>2, <3>1, <4>2
    <3>3. t \in Place /\ t # n
      BY <1>4, <2>3
    <3>4. /\ \A s \in Place \ {n} : \A j \in Index :
               s # t \/ j # i => w2.table[s][j] = w.table[s][j]
      BY <1>1, <1>2, <2>1, <2>2, <3>3, WithTableSays
    <3>5. ASSUME t \notin m.free PROVE m.table[t][i] = NULL \/ \E x \in w.made : x[1] = t /\ x[2] = i
      BY <1>2, <2>3, <3>1, <3>3, <3>5
    <3>6. \A x \in w2.made : x[1] \notin m.free => m.table[x[1]][x[2]] = NULL
      BY <2>2, <3>1, <3>5
    <3>7. ASSUME NEW s \in Place \ m.free, NEW c \in Index
          PROVE  w2.table[s][c] = m.table[s][c] \/ \E x \in w2.made : x[1] = s /\ x[2] = c
      <4>1. CASE s = t /\ c = i
        <5> DEFINE new == <<t, i, n>>
        <5>1. new[1] = t /\ new[2] = i /\ new \in w2.made
          BY <2>2
        <5> HIDE DEF new
        <5> QED
          BY <4>1, <5>1
      <4>2. CASE ~ (s = t /\ c = i)
        <5>1. s # n
          BY <1>1, <2>1
        <5>2. w2.table[s][c] = w.table[s][c]
          BY <3>4, <4>2, <5>1
        <5>3. w.made \subseteq w2.made
          BY <2>2
        <5> QED
          BY <3>1, <5>2, <5>3
      <4> QED
        BY <4>1, <4>2
    <3> QED
      BY <3>2, <3>6, <3>7 DEF MadeKnown
  <2> QED
    BY <2>11, <2>12 DEF w2, i
<1> QED
  BY <1>1, <1>5, <1>6, <1>8, <1>9

\* A walk down to the page table.
LEMMA WalkWalks ==
  ASSUME NEW m, NEW mem, NEW K, NEW root \in K[1], NEW v \in Page,
         Typed(m.table, mem), Tree(m.table, K), m.free \subseteq mem,
         \A j \in 1 .. 5 : K[j] \cap m.free = {}
  PROVE  \E L : Walked(Walk(m, root, v), m, mem, root, v, 4, K, L) /\ MadeKnown(Walk(m, root, v), m)
<1> DEFINE w0 == [ok |-> TRUE, at |-> root, made |-> {}, free |-> m.free, table |-> m.table]
           w1 == Descend(w0, v[1])
           w2 == Descend(w1, v[2])
           w3 == Descend(w2, v[3])
<1>1. K[1] \subseteq Place
  BY DEF Tree
<1>2. Walked(w0, m, mem, root, v, 1, K, K)
  <2>1. K[2] \cup K[3] \cup K[4] = K[2] \cup K[3] \cup K[4] \cup (m.free \ w0.free)
    OBVIOUS
  <2>2. root = Reach(w0.table, root, v, 1)
    BY DEF Reach
  <2> QED
    BY <2>1, <2>2 DEF Walked
<1>3. MadeKnown(w0, m)
  BY DEF MadeKnown
<1> HIDE DEF w0
<1>4. \E L : Walked(w1, m, mem, root, v, 2, K, L) /\ MadeKnown(w1, m)
  <2>1. 1 \in 1 .. 3 /\ 1 + 1 = 2
    OBVIOUS
  <2> QED
    BY <1>1, <1>2, <1>3, <2>1, DescendWalks
<1> HIDE DEF w1
<1>5. \E L : Walked(w2, m, mem, root, v, 3, K, L) /\ MadeKnown(w2, m)
  <2>1. 2 \in 1 .. 3 /\ 2 + 1 = 3
    OBVIOUS
  <2> QED
    BY <1>1, <1>4, <2>1, DescendWalks
<1> HIDE DEF w2
<1>6. \E L : Walked(w3, m, mem, root, v, 4, K, L) /\ MadeKnown(w3, m)
  <2>1. 3 \in 1 .. 3 /\ 3 + 1 = 4
    OBVIOUS
  <2> QED
    BY <1>1, <1>5, <2>1, DescendWalks
<1> QED
  BY <1>6 DEF Walk, w0, w1, w2

\* Undone gives back what the walk took, and the tables are what they were.
LEMMA UndoneRestores ==
  ASSUME NEW m, NEW mem, NEW K, NEW root, NEW v, NEW L, NEW w, Typed(m.table, mem),
         Tree(m.table, K), \A j \in 1 .. 5 : K[j] \cap m.free = {},
         Walked(w, m, mem, root, v, 4, K, L), MadeKnown(w, m)
  PROVE  /\ Undone(w) = [free |-> m.free, table |-> Undone(w).table]
         /\ Typed(Undone(w).table, mem) /\ Tree(Undone(w).table, K)
         /\ \A r \in K[1], u \in Page : Lookup(Undone(w).table, r, u) = Lookup(m.table, r, u)
<1> DEFINE tb == Undone(w).table
<1>1. w.table \in [Place -> [Index -> mem \cup {pdpt, identity, NULL}]] /\ mem \subseteq Frame
  BY DEF Walked, Typed
<1>2. /\ m.free = w.free \cup {x[3] : x \in w.made}
      /\ \A x \in w.made : x[1] \notin m.free => m.table[x[1]][x[2]] = NULL
      /\ \A t \in Place \ m.free, i \in Index :
           w.table[t][i] = m.table[t][i] \/ \E x \in w.made : x[1] = t /\ x[2] = i
  BY DEF MadeKnown
<1>3. tb = [t \in Place |-> [i \in Index |-> IF \E x \in w.made : x[1] = t /\ x[2] = i THEN NULL
                                            ELSE w.table[t][i]]]
  BY <1>1 DEF Undone
<1>4. Undone(w) = [free |-> m.free, table |-> tb]
  BY <1>2 DEF Undone
<1> HIDE DEF tb
<1>5. Typed(tb, mem)
  <2>1. \A t \in Place, i \in Index :
          (IF \E x \in w.made : x[1] = t /\ x[2] = i THEN NULL ELSE w.table[t][i])
            \in mem \cup {pdpt, identity, NULL}
    BY <1>1
  <2> QED
    BY ONLY <1>1, <1>3, <2>1 DEF Typed
<1>6. \A t \in Place \ m.free, i \in Index : tb[t][i] = m.table[t][i]
  BY <1>2, <1>3
<1>7. \A k \in 1 .. 4 : \A t \in K[k], i \in Index : tb[t][i] = m.table[t][i]
  <2>1. \A k \in 1 .. 4 : K[k] \subseteq Place \ m.free
    BY DEF Tree
  <2> QED
    BY <1>6, <2>1
<1> DEFINE old == m.table
<1>8. Tree(tb, K) /\ SeesSame(tb, old, K)
  <2>1. SaysSame(tb, old, K)
    BY <1>7 DEF SaysSame
  <2>2. Tree(old, K)
    OBVIOUS
  <2> HIDE DEF old
  <2> QED
    BY ONLY <2>1, <2>2, SameTree
<1> QED
  BY <1>4, <1>5, <1>8 DEF tb, SeesSame

------------------------------------------------------------------------------
(* What mapping a page comes to. *)

\* Memory n has what memory m, with the levels K, has, some frames more as tables and the
\* frames F as pages.
Extended(m, n, mem, K, F) ==
  /\ n = [free |-> n.free, table |-> n.table]
  /\ n.free \subseteq m.free
  /\ Typed(n.table, mem)
  /\ \E L : /\ Tree(n.table, L)
            /\ L[1] = K[1] /\ L[5] = K[5] \cup F
            /\ L[2] \cup L[3] \cup L[4] = K[2] \cup K[3] \cup K[4] \cup (m.free \ n.free)

\* The page was mapped already, or is mapped now and no other page is translated otherwise,
\* or could not be mapped and none is.
MapOutcome(r, m, mem, K, root, v, f) ==
  \/ r.err = "AlreadyMapped" /\ r.m = m /\ Lookup(m.table, root, v) # NULL
  \/ /\ r.err = NULL
     /\ Lookup(m.table, root, v) = NULL /\ Lookup(r.m.table, root, v) = f
     /\ Extended(m, r.m, mem, K, {f})
     /\ \A s \in K[1], u \in Page :
          \/ Lookup(r.m.table, s, u) = Lookup(m.table, s, u)
          \/ u = v /\ Lookup(m.table, s, u) = NULL /\ Lookup(r.m.table, s, u) = f
  \/ /\ r.err = "OutOfMemory"
     /\ Lookup(m.table, root, v) = NULL
     /\ Extended(m, r.m, mem, K, {})
     /\ \A s \in K[1], u \in Page : Lookup(r.m.table, s, u) = Lookup(m.table, s, u)

\* The last step of a mapping, at the page table.
LEMMA MappedMaps ==
  ASSUME NEW m, NEW mem, NEW K, NEW root \in K[1], NEW v \in Page, NEW f \in mem, NEW w, NEW L,
         m = [free |-> m.free, table |-> m.table], Tree(m.table, K),
         \A j \in 1 .. 4 : f \notin K[j], f \notin m.free,
         Walked(w, m, mem, root, v, 4, K, L), w.ok
  PROVE  MapOutcome(Mapped(w, v, f), m, mem, K, root, v, f)
<1> DEFINE t == w.at
           i == v[4]
           r == Mapped(w, v, f)
<1>1. /\ w.free \subseteq m.free /\ Typed(w.table, mem) /\ Tree(w.table, L)
      /\ L[1] = K[1] /\ L[5] = K[5]
      /\ L[2] \cup L[3] \cup L[4] = K[2] \cup K[3] \cup K[4] \cup (m.free \ w.free)
      /\ \A s \in K[1], u \in Page : Lookup(w.table, s, u) = Lookup(m.table, s, u)
      /\ t = Reach(w.table, root, v, 4) /\ t \in L[4]
      /\ (w.free = m.free /\ w.table = m.table) \/ Lookup(m.table, root, v) = NULL
  BY DEF Walked
<1>2. i \in Index /\ t # NULL /\ root \in L[1] /\ t \in Place
  BY <1>1, PageParts, Places DEF Tree
<1>3. Lookup(m.table, root, v) = w.table[t][i]
  <2>1. Lookup(w.table, root, v) = Entry(w.table, t, i)
    BY <1>1, <1>2, PathOnLevels
  <2> QED
    BY <1>1, <1>2, <2>1 DEF Entry
<1> HIDE DEF t, i
<1>4. CASE w.table[t][i] # NULL
  <2>1. r = [err |-> "AlreadyMapped", m |-> [free |-> w.free, table |-> w.table]]
    BY <1>4 DEF Mapped, t, i
  <2>2. w.free = m.free /\ w.table = m.table
    BY <1>1, <1>3, <1>4
  <2>3. r.err = "AlreadyMapped" /\ r.m = m
    BY <2>1, <2>2
  <2> QED
    BY <1>3, <1>4, <2>3 DEF MapOutcome
<1>5. CASE w.table[t][i] = NULL
  <2> DEFINE tb == WithPage(w.table, t, i, f)
             L2 == Added(L, 5, f)
  <2>1. r = [err |-> NULL, m |-> [free |-> w.free, table |-> tb]]
    BY <1>5 DEF Mapped, WithPage, t, i
  <2>2. \A j \in 1 .. 4 : f \notin L[j]
    <3>1. f \notin L[1] /\ f \notin L[2] \cup L[3] \cup L[4]
      BY <1>1
    <3>2. \A j \in 1 .. 4 : j = 1 \/ j = 2 \/ j = 3 \/ j = 4
      OBVIOUS
    <3> QED
      BY <3>1, <3>2
  <2>3. Typed(tb, mem) /\ Tree(tb, L2)
    BY <1>1, <1>2, <1>5, <2>2, PagePut
  <2>4. /\ L2[1] = K[1] /\ L2[5] = K[5] \cup {f}
        /\ L2[2] \cup L2[3] \cup L2[4] = K[2] \cup K[3] \cup K[4] \cup (m.free \ w.free)
    BY <1>1 DEF Added
  <2>5. ASSUME NEW s \in K[1], NEW u \in Page
        PROVE  Lookup(tb, s, u) =
                 IF u = v /\ Reach(w.table, s, u, 4) = t THEN f ELSE Lookup(w.table, s, u)
    <3>1. s \in L[1]
      BY <1>1
    <3> QED
      BY <1>1, <1>2, <1>5, <2>2, <3>1, PageTranslated DEF i
  <2>6. ASSUME NEW s \in K[1], Reach(w.table, s, v, 4) = t PROVE Lookup(w.table, s, v) = NULL
    <3>1. s \in L[1]
      BY <1>1
    <3>2. Lookup(w.table, s, v) = Entry(w.table, t, i)
      BY <1>1, <2>6, <3>1, PathOnLevels DEF i
    <3> QED
      BY <1>2, <1>5, <3>2 DEF Entry
  <2> HIDE DEF r, tb, L2
  <2>7. r.err = NULL /\ r.m = [free |-> w.free, table |-> tb] /\ r.m.free = w.free /\ r.m.table = tb
    BY <2>1
  <2>8. Extended(m, r.m, mem, K, {f})
    BY <1>1, <2>3, <2>4, <2>7 DEF Extended
  <2>9. Lookup(r.m.table, root, v) = f
    BY <1>1, <2>5, <2>7
  <2>10. ASSUME NEW s \in K[1], NEW u \in Page
         PROVE  \/ Lookup(r.m.table, s, u) = Lookup(m.table, s, u)
                \/ u = v /\ Lookup(m.table, s, u) = NULL /\ Lookup(r.m.table, s, u) = f
    BY <1>1, <2>5, <2>6, <2>7
  <2> QED
    BY <1>3, <1>5, <2>7, <2>8, <2>9, <2>10 DEF MapOutcome, r
<1> QED
  BY <1>4, <1>5

\* mapPage takes no frame for good if it fails.
LEMMA MapPageMaps ==
  ASSUME NEW m, NEW mem, NEW K, NEW v \in Page, NEW f \in mem,
         m = [free |-> m.free, table |-> m.table], Typed(m.table, mem), Tree(m.table, K),
         m.free \subseteq mem, \A j \in 1 .. 5 : K[j] \cap m.free = {},
         \A j \in 1 .. 4 : f \notin K[j], f \notin m.free
  PROVE  /\ MapOutcome(mapPage(m, v, f), m, mem, K, pml4, v, f)
         /\ mapPage(m, v, f).err = "OutOfMemory" => mapPage(m, v, f).m.free = m.free
<1> DEFINE w == Walk(m, pml4, v)
           r == mapPage(m, v, f)
<1>1. pml4 \in K[1]
  BY DEF Tree
<1>2. PICK L : Walked(w, m, mem, pml4, v, 4, K, L) /\ MadeKnown(w, m)
  BY <1>1, WalkWalks
<1> HIDE DEF w
<1>3. CASE w.ok
  <2>1. MapOutcome(Mapped(w, v, f), m, mem, K, pml4, v, f)
    BY <1>1, <1>2, <1>3, MappedMaps
  <2>2. r = Mapped(w, v, f)
    BY <1>3 DEF mapPage, w
  <2>3. r.err # "OutOfMemory"
    BY <2>2, NullAssumption DEF Mapped
  <2> HIDE DEF r
  <2> QED
    BY <2>1, <2>2, <2>3 DEF r
<1>4. CASE ~ w.ok
  <2>1. r = [err |-> "OutOfMemory", m |-> Undone(w)]
    BY <1>4 DEF mapPage, w
  <2>2. /\ Undone(w) = [free |-> m.free, table |-> Undone(w).table]
        /\ Typed(Undone(w).table, mem) /\ Tree(Undone(w).table, K)
        /\ \A s \in K[1], u \in Page : Lookup(Undone(w).table, s, u) = Lookup(m.table, s, u)
    BY <1>2, UndoneRestores
  <2> HIDE DEF r
  <2>3. r.err = "OutOfMemory" /\ r.m = Undone(w) /\ r.m.free = m.free
    <3>1. Undone(w).free = m.free
      BY <2>2
    <3> QED
      BY <2>1, <3>1
  <2>4. Extended(m, r.m, mem, K, {})
    <3>1. /\ K[5] = K[5] \cup {}
          /\ K[2] \cup K[3] \cup K[4] = K[2] \cup K[3] \cup K[4] \cup (m.free \ r.m.free)
      BY <2>3
    <3> QED
      BY <2>2, <2>3, <3>1 DEF Extended
  <2>5. Lookup(m.table, pml4, v) = NULL
    BY <1>2, <1>4 DEF Walked
  <2> QED
    BY <2>2, <2>3, <2>4, <2>5 DEF MapOutcome, r
<1> QED
  BY <1>2, <1>3, <1>4 DEF Walked

\* mapPageInPML4 keeps the tables it made.
LEMMA MapPageInPML4Maps ==
  ASSUME NEW m, NEW mem, NEW K, NEW root \in K[1], NEW v \in Page, NEW f \in mem,
         m = [free |-> m.free, table |-> m.table], Typed(m.table, mem), Tree(m.table, K),
         m.free \subseteq mem, \A j \in 1 .. 5 : K[j] \cap m.free = {},
         \A j \in 1 .. 4 : f \notin K[j], f \notin m.free
  PROVE  MapOutcome(mapPageInPML4(m, root, v, f), m, mem, K, root, v, f)
<1> DEFINE w == Walk(m, root, v)
           r == mapPageInPML4(m, root, v, f)
<1>1. PICK L : Walked(w, m, mem, root, v, 4, K, L) /\ MadeKnown(w, m)
  BY WalkWalks
<1> HIDE DEF w
<1>2. CASE w.ok
  <2>1. MapOutcome(Mapped(w, v, f), m, mem, K, root, v, f)
    BY <1>1, <1>2, MappedMaps
  <2>2. r = Mapped(w, v, f)
    BY <1>2 DEF mapPageInPML4, w
  <2> QED
    BY <2>1, <2>2
<1>3. CASE ~ w.ok
  <2>1. r = [err |-> "OutOfMemory", m |-> [free |-> w.free, table |-> w.table]]
    BY <1>3 DEF mapPageInPML4, w
  <2> HIDE DEF r
  <2>2. r.err = "OutOfMemory" /\ r.m = [free |-> w.free, table |-> w.table]
        /\ r.m.free = w.free /\ r.m.table = w.table
    BY <2>1
  <2>3. /\ w.free \subseteq m.free /\ Typed(w.table, mem) /\ Tree(w.table, L)
        /\ L[1] = K[1] /\ L[5] = K[5]
        /\ L[2] \cup L[3] \cup L[4] = K[2] \cup K[3] \cup K[4] \cup (m.free \ w.free)
        /\ \A s \in K[1], u \in Page : Lookup(w.table, s, u) = Lookup(m.table, s, u)
        /\ Lookup(m.table, root, v) = NULL
    BY <1>1, <1>3 DEF Walked
  <2>4. Extended(m, r.m, mem, K, {})
    <3>1. K[5] = K[5] \cup {}
      OBVIOUS
    <3> QED
      BY <2>2, <2>3, <3>1 DEF Extended
  <2> QED
    BY <2>2, <2>3, <2>4 DEF MapOutcome, r
<1> QED
  BY <1>1, <1>2, <1>3 DEF Walked

------------------------------------------------------------------------------
(* A new root, and taking entries out. *)

\* The kernel's first level copied to n.
WithRoot(tb, n) == [tb EXCEPT ![n] = tb[pml4]]

\* A copy of the kernel's first level is one more root, under which every page is where the
\* kernel has it.
LEMMA RootAdded ==
  ASSUME NEW mem, NEW tb, Typed(tb, mem), NEW L, Tree(tb, L), NEW n \in mem,
         \A j \in 1 .. 5 : n \notin L[j]
  PROVE  /\ Typed(WithRoot(tb, n), mem) /\ Tree(WithRoot(tb, n), Added(L, 1, n))
         /\ \A r \in L[1], v \in Page : Lookup(WithRoot(tb, n), r, v) = Lookup(tb, r, v)
         /\ \A v \in Page : Lookup(WithRoot(tb, n), n, v) = Lookup(tb, pml4, v)
<1> DEFINE L2 == Added(L, 1, n)
           tb2 == WithRoot(tb, n)
<1>1. /\ mem \subseteq Place /\ n \in Place /\ pml4 \in L[1] /\ pml4 \in Place /\ n # pml4
      /\ L \in [1 .. 5 -> SUBSET Place] /\ n # NULL /\ n # pdpt
  <2>1. mem \subseteq Frame /\ pml4 \in L[1]
    BY DEF Typed, Tree
  <2>2. 1 \in 1 .. 5
    OBVIOUS
  <2> QED
    BY <2>1, <2>2, Places DEF Place, Tree
<1>2. /\ Typed(tb2, mem) /\ \A c \in Index : tb2[n][c] = tb[pml4][c]
      /\ \A s \in Place \ {n} : tb2[s] = tb[s]
  BY <1>1 DEF Typed, WithRoot
<1> HIDE DEF tb2
<1>3. \A k \in 1 .. 4 : \A t \in L[k], i \in Index : tb2[t][i] = tb[t][i]
  BY <1>1, <1>2
<1>4. Tree(tb2, L) /\ \A r \in L[1], v \in Page : Lookup(tb2, r, v) = Lookup(tb, r, v)
  <2>1. Tree(tb, L) /\ SaysSame(tb2, tb, L)
    BY <1>3 DEF SaysSame
  <2>2. Tree(tb2, L) /\ SeesSame(tb2, tb, L)
    BY ONLY <2>1, SameTree
  <2> QED
    BY <2>2 DEF SeesSame
<1>5. \A c \in Index : tb2[n][c] = tb2[pml4][c]
  BY <1>1, <1>2
<1>6. /\ L2 \in [1 .. 5 -> SUBSET Place]
      /\ L2[1] = L[1] \cup {n}
      /\ \A j \in 2 .. 5 : L2[j] = L[j]
  BY <1>1 DEF Added
<1> HIDE DEF L2
<1>7. Tree(tb2, L2)
  <2>1. \A j, l \in 1 .. 5 : j # l => L2[j] \cap L2[l] = {}
    <3>1. \A j, l \in 1 .. 5 : j # l => L[j] \cap L[l] = {}
      BY DEF Tree
    <3>2. \A j \in 1 .. 5 : j = 1 \/ j \in 2 .. 5
      OBVIOUS
    <3> QED
      BY <1>6, <3>1, <3>2
  <2>2. \A k \in 1 .. 4 : \A t \in L2[k], i \in Index :
          tb2[t][i] \in L2[k + 1] \/ tb2[t][i] = NULL \/ (t = pdpt /\ i = 0)
    <3>1. SUFFICES ASSUME NEW k \in 1 .. 4, NEW t \in L2[k], NEW i \in Index
                   PROVE  tb2[t][i] \in L2[k + 1] \/ tb2[t][i] = NULL \/ (t = pdpt /\ i = 0)
      OBVIOUS
    <3>2. k + 1 \in 2 .. 5 /\ L2[k + 1] = L[k + 1]
      BY <1>6
    <3>3. CASE t = n
      <4>1. k = 1
        <5>1. k \in 1 .. 5 /\ (k = 1 \/ k \in 2 .. 5)
          OBVIOUS
        <5> QED
          BY <1>6, <3>3, <5>1
      <4>2. tb2[pml4][i] \in L[k + 1] \/ tb2[pml4][i] = NULL \/ (pml4 = pdpt /\ i = 0)
        BY <1>1, <1>4, <4>1 DEF Tree
      <4> QED
        BY <1>5, <3>2, <3>3, <4>2, Places
    <3>4. CASE t # n
      <4>1. t \in L[k]
        <5>1. k = 1 \/ k \in 2 .. 5
          OBVIOUS
        <5> QED
          BY <1>6, <3>4, <5>1
      <4> QED
        BY <1>4, <3>2, <4>1 DEF Tree
    <3> QED
      BY <3>3, <3>4
  <2>3. \A k \in 1 .. 4 : \A x \in L2[k + 1] : \E t \in L2[k], i \in Index : tb2[t][i] = x
    <3>1. \A k \in 1 .. 4 : k + 1 \in 2 .. 5 /\ L2[k + 1] = L[k + 1] /\ L[k] \subseteq L2[k]
      <4>1. \A k \in 1 .. 4 : k + 1 \in 2 .. 5 /\ (k = 1 \/ k \in 2 .. 5)
        OBVIOUS
      <4> QED
        BY <1>6, <4>1
    <3>2. \A k \in 1 .. 4 : \A x \in L[k + 1] : \E t \in L[k], i \in Index : tb2[t][i] = x
      BY <1>4 DEF Tree
    <3> QED
      BY <3>1, <3>2
  <2>4. pml4 \in L2[1] /\ \A t \in L2[1] : tb2[t][0] = pdpt
    <3>1. tb2[n][0] = pdpt
      BY <1>1, <1>4, <1>5, Places DEF Tree
    <3> QED
      BY <1>1, <1>4, <1>6, <3>1 DEF Tree
  <2>5. tb2[pdpt][0] = identity
    BY <1>4 DEF Tree
  <2>6. \A s, t \in L2[1] : \A i, j \in Index : tb2[s][i] = tb2[t][j] /\ tb2[s][i] # NULL => i = j
    <3>1. \A s, t \in L[1] : \A i, j \in Index : tb2[s][i] = tb2[t][j] /\ tb2[s][i] # NULL => i = j
      BY <1>4 DEF Tree
    <3>2. \A s \in L2[1] : \E x \in L[1] : \A i \in Index : tb2[s][i] = tb2[x][i]
      BY <1>1, <1>5, <1>6
    <3> QED
      BY ONLY <3>1, <3>2
  <2>7. \A k \in 2 .. 3 : \A s, t \in L2[k] : \A i, j \in Index :
          tb2[s][i] = tb2[t][j] /\ tb2[s][i] # NULL => s = t /\ i = j
    <3>1. \A k \in 2 .. 3 : L2[k] = L[k]
      BY <1>6
    <3>2. \A k \in 2 .. 3 : \A s, t \in L[k] : \A i, j \in Index :
            tb2[s][i] = tb2[t][j] /\ tb2[s][i] # NULL => s = t /\ i = j
      BY <1>4 DEF Tree
    <3> QED
      BY ONLY <3>1, <3>2
  <2> QED
    BY <1>6, <2>1, <2>2, <2>3, <2>4, <2>5, <2>6, <2>7 DEF Tree
<1>8. ASSUME NEW v \in Page PROVE Lookup(tb2, n, v) = Lookup(tb, pml4, v)
  <2>1. Entry(tb2, n, v[1]) = Entry(tb2, pml4, v[1])
    BY <1>1, <1>5, PageParts, Places DEF Entry
  <2>2. Lookup(tb2, n, v) = Lookup(tb2, pml4, v)
    BY <2>1 DEF Lookup
  <2> QED
    BY <1>1, <1>4, <2>2
<1> QED
  BY <1>2, <1>4, <1>7, <1>8 DEF L2, tb2

\* The levels with n no longer on the k-th.
Removed(L, k, n) == [j \in 1 .. 5 |-> IF j = k THEN L[j] \ {n} ELSE L[j]]

\* An entry cleared.
WithoutEntry(tb, t, i) == [tb EXCEPT ![t][i] = NULL]

\* An empty table, or a frame, that one entry leads to leaves its level when the entry is
\* cleared.
LEMMA TreeShrinks ==
  ASSUME NEW mem, NEW tb, Typed(tb, mem), NEW L, Tree(tb, L), NEW k \in 2 .. 4,
         NEW t \in L[k], NEW i \in Index, t # pdpt \/ i # 0, NEW n, tb[t][i] = n, n # NULL,
         \A s \in L[k], c \in Index : tb[s][c] = n => s = t /\ c = i,
         k # 4 => \A c \in Index : tb[n][c] = NULL
  PROVE  /\ Typed(WithoutEntry(tb, t, i), mem)
         /\ Tree(WithoutEntry(tb, t, i), Removed(L, k + 1, n))
         /\ WithoutEntry(tb, t, i)[t][i] = NULL
         /\ \A s \in Place, c \in Index :
              s # t \/ c # i => WithoutEntry(tb, t, i)[s][c] = tb[s][c]
<1> DEFINE tb2 == WithoutEntry(tb, t, i)
           L2 == Removed(L, k + 1, n)
<1>1. L \in [1 .. 5 -> SUBSET Place] /\ t \in Place /\ n \in L[k + 1]
  <2>1. k \in 1 .. 4 /\ k \in 1 .. 5
    OBVIOUS
  <2> QED
    BY <2>1 DEF Tree
<1>2. /\ Typed(tb2, mem) /\ tb2[t][i] = NULL
      /\ \A s \in Place, c \in Index : s # t \/ c # i => tb2[s][c] = tb[s][c]
  BY <1>1 DEF Typed, WithoutEntry
<1>3. /\ L2 \in [1 .. 5 -> SUBSET Place]
      /\ L2[k + 1] = L[k + 1] \ {n} /\ k + 1 \in 3 .. 5
      /\ \A j \in 1 .. 5 : j # k + 1 => L2[j] = L[j]
      /\ \A j \in 1 .. 5 : L2[j] \subseteq L[j]
  BY <1>1 DEF Removed
<1> HIDE DEF tb2, L2
<1>4. \A j, l \in 1 .. 5 : j # l => L2[j] \cap L2[l] = {}
  <2>1. \A j, l \in 1 .. 5 : j # l => L[j] \cap L[l] = {}
    BY DEF Tree
  <2> QED
    BY <1>3, <2>1
<1>5. \A j \in 1 .. 5 : j # k => t \notin L[j]
  BY DEF Tree
<1>6. \A j \in 1 .. 4 : \A s \in L2[j], c \in Index :
        /\ s \in L[j] /\ s \in Place
        /\ tb2[s][c] = IF s = t /\ c = i THEN NULL ELSE tb[s][c]
  BY <1>1, <1>2, <1>3
<1>7. \A j \in 1 .. 4 : \A s \in L2[j], c \in Index :
        tb2[s][c] \in L2[j + 1] \/ tb2[s][c] = NULL \/ (s = pdpt /\ c = 0)
  <2>1. SUFFICES ASSUME NEW j \in 1 .. 4, NEW s \in L2[j], NEW c \in Index,
                        ~ (s = t /\ c = i)
                 PROVE  tb2[s][c] \in L2[j + 1] \/ tb2[s][c] = NULL \/ (s = pdpt /\ c = 0)
    BY <1>6
  <2>2. tb2[s][c] = tb[s][c] /\ s \in L[j]
    BY <1>6, <2>1
  <2>3. tb[s][c] \in L[j + 1] \/ tb[s][c] = NULL \/ (s = pdpt /\ c = 0)
    BY <2>2 DEF Tree
  <2>4. CASE j = k
    <3>1. tb[s][c] # n
      BY <2>1, <2>2, <2>4
    <3> QED
      BY <1>3, <2>2, <2>3, <2>4, <3>1
  <2>5. CASE j # k
    <3>1. j + 1 # k + 1 /\ j + 1 \in 1 .. 5
      BY <2>5
    <3> QED
      BY <1>3, <2>2, <2>3, <3>1
  <2> QED
    BY <2>4, <2>5
<1>8. \A j \in 1 .. 4 : \A x \in L2[j + 1] : \E s \in L2[j], c \in Index : tb2[s][c] = x
  <2>1. SUFFICES ASSUME NEW j \in 1 .. 4, NEW x \in L2[j + 1]
                 PROVE  \E s \in L2[j], c \in Index : tb2[s][c] = x
    OBVIOUS
  <2>2. x \in L[j + 1] /\ j + 1 \in 1 .. 5 /\ j \in 1 .. 5
    BY <1>3
  <2>3. PICK s \in L[j], c \in Index : tb[s][c] = x
    BY <2>2 DEF Tree
  <2>4. x # NULL /\ s \in Place
    BY <1>1, <2>2, Places
  <2>5. x # n
    <3>1. CASE j = k
      BY <1>3, <3>1
    <3>2. CASE j # k
      <4>1. L[j + 1] \cap L[k + 1] = {}
        <5>1. j + 1 # k + 1 /\ k + 1 \in 1 .. 5
          BY <3>2
        <5> QED
          BY <2>2, <5>1 DEF Tree
      <4> QED
        BY <1>1, <2>2, <4>1
    <3> QED
      BY <3>1, <3>2
  <2>6. ~ (s = t /\ c = i)
    BY <2>3, <2>5
  <2>7. s \in L2[j]
    <3>1. CASE j = k + 1
      <4>1. s # n
        <5>1. k # 4
          BY <3>1
        <5> QED
          BY <2>3, <2>4, <5>1
      <4> QED
        BY <1>3, <3>1, <4>1
    <3>2. CASE j # k + 1
      BY <1>3, <2>2, <3>2
    <3> QED
      BY <3>1, <3>2
  <2>8. tb2[s][c] = x
    BY <1>2, <2>3, <2>4, <2>6
  <2> QED
    BY <2>7, <2>8
<1>9. pml4 \in L2[1] /\ \A s \in L2[1] : tb2[s][0] = pdpt
  <2>1. 1 \in 1 .. 5 /\ 1 # k + 1 /\ 1 # k /\ 1 \in 1 .. 4 /\ L2[1] = L[1]
    BY <1>3
  <2>2. \A s \in L[1] : s # t
    BY <1>5, <2>1
  <2>3. pml4 \in L[1] /\ \A s \in L[1] : tb[s][0] = pdpt
    BY DEF Tree
  <2>4. \A s \in L2[1] : tb2[s][0] = tb[s][0]
    BY <1>6, <2>1, <2>2, Places
  <2> QED
    BY ONLY <2>1, <2>3, <2>4
<1>10. tb2[pdpt][0] = identity
  BY <1>2, Places DEF Tree
<1>11. \A s, u \in L2[1] : \A c, d \in Index : tb2[s][c] = tb2[u][d] /\ tb2[s][c] # NULL => c = d
  <2>1. \A s, u \in L[1] : \A c, d \in Index : tb[s][c] = tb[u][d] /\ tb[s][c] # NULL => c = d
    BY DEF Tree
  <2>2. \A s \in L2[1], c \in Index : s \in L[1] /\ (tb2[s][c] = NULL \/ tb2[s][c] = tb[s][c])
    <3>1. 1 \in 1 .. 4
      OBVIOUS
    <3> QED
      BY <1>6, <3>1
  <2> QED
    BY ONLY <2>1, <2>2
<1>12. \A j \in 2 .. 3 : \A s, u \in L2[j] : \A c, d \in Index :
         tb2[s][c] = tb2[u][d] /\ tb2[s][c] # NULL => s = u /\ c = d
  <2>1. \A j \in 2 .. 3 : \A s, u \in L[j] : \A c, d \in Index :
          tb[s][c] = tb[u][d] /\ tb[s][c] # NULL => s = u /\ c = d
    BY DEF Tree
  <2>2. \A j \in 2 .. 3 : \A s \in L2[j], c \in Index :
          s \in L[j] /\ (tb2[s][c] = NULL \/ tb2[s][c] = tb[s][c])
    <3>1. 2 .. 3 \subseteq 1 .. 4
      OBVIOUS
    <3> QED
      BY <1>6, <3>1
  <2> QED
    BY ONLY <2>1, <2>2
<1> QED
  <2>1. Tree(tb2, L2)
    BY <1>3, <1>4, <1>7, <1>8, <1>9, <1>10, <1>11, <1>12 DEF Tree
  <2> QED
    BY <1>2, <2>1 DEF tb2, L2

\* Nothing that is translated anew.
LEMMA FewerTranslations ==
  ASSUME NEW tb, NEW tb2, NEW L, Tree(tb, L), NEW r \in L[1], NEW v \in Page,
         \A s \in Place, c \in Index : tb2[s][c] \in {NULL, tb[s][c]}
  PROVE  Lookup(tb2, r, v) \in {NULL, Lookup(tb, r, v)}
<1> DEFINE A(m) == Reach(tb, r, v, m)
           B(m) == Reach(tb2, r, v, m)
           Less(m) == B(m) \in {NULL, A(m)}
<1>1. v[1] \in Index /\ v[2] \in Index /\ v[3] \in Index /\ v[4] \in Index
  BY PageParts
<1>2. \A m \in 1 .. 4 : A(m) \in Place \cup {NULL}
  <2>1. A(1) \in Place /\ \A m \in 2 .. 4 : L[m] \subseteq Place
    BY PathOnLevels DEF Tree
  <2>2. \A m \in 1 .. 4 : m = 1 \/ m \in 2 .. 4
    OBVIOUS
  <2>3. \A m \in 2 .. 4 : A(m) \in L[m] \cup {NULL}
    BY PathOnLevels
  <2> HIDE DEF A
  <2> QED
    BY <2>1, <2>2, <2>3
<1>3. \A x \in Place \cup {NULL}, c \in Index : \A y \in {NULL, x} :
        Entry(tb2, y, c) \in {NULL, Entry(tb, x, c)}
  BY DEF Entry
<1>4. /\ B(1) = r /\ A(1) = r
      /\ B(2) = Entry(tb2, B(1), v[1]) /\ A(2) = Entry(tb, A(1), v[1])
      /\ B(3) = Entry(tb2, B(2), v[2]) /\ A(3) = Entry(tb, A(2), v[2])
      /\ B(4) = Entry(tb2, B(3), v[3]) /\ A(4) = Entry(tb, A(3), v[3])
      /\ Lookup(tb2, r, v) = Entry(tb2, B(4), v[4]) /\ Lookup(tb, r, v) = Entry(tb, A(4), v[4])
  BY DEF Reach, Lookup
<1>5. /\ A(1) \in Place \cup {NULL} /\ A(2) \in Place \cup {NULL}
      /\ A(3) \in Place \cup {NULL} /\ A(4) \in Place \cup {NULL}
  <2>1. 1 \in 1 .. 4 /\ 2 \in 1 .. 4 /\ 3 \in 1 .. 4 /\ 4 \in 1 .. 4
    OBVIOUS
  <2> QED
    BY <1>2, <2>1
<1> HIDE DEF A, B
<1>6. Less(2)
  BY <1>1, <1>3, <1>4, <1>5
<1>7. Less(3)
  BY <1>1, <1>3, <1>4, <1>5, <1>6
<1>8. Less(4)
  BY <1>1, <1>3, <1>4, <1>5, <1>7
<1> QED
  BY <1>1, <1>3, <1>4, <1>5, <1>8

\* Memory n is memory m, with the levels L, in which table t under an entry of another one
\* on level k may have been given back.
TableFreed(m, n, mem, L, k, above, i, t) ==
  /\ n = [free |-> n.free, table |-> n.table]
  /\ Typed(n.table, mem)
  /\ m.free \subseteq n.free /\ n.free \ m.free \subseteq {t}
  /\ \E L2 : /\ Tree(n.table, L2)
             /\ \A j \in 1 .. 5 : j # k + 1 => L2[j] = L[j]
             /\ L2[k + 1] = L[k + 1] \ (n.free \ m.free)
  /\ \A s \in Place, c \in Index :
       /\ n.table[s][c] \in {NULL, m.table[s][c]}
       /\ s # above \/ c # i => n.table[s][c] = m.table[s][c]

\* A table that is empty is given back and the entry that led to it cleared; one that is
\* not stays.
LEMMA FreesTable ==
  ASSUME NEW m, NEW mem, NEW L, m = [free |-> m.free, table |-> m.table],
         Typed(m.table, mem), Tree(m.table, L), NEW k \in 2 .. 3, NEW above \in L[k],
         NEW i \in Index, above # pdpt \/ i # 0, NEW t, m.table[above][i] = t, t # NULL,
         t \notin m.free
  PROVE  TableFreed(m, FreeIfEmpty(m, t, above, i), mem, L, k, above, i, t)
<1> DEFINE n == FreeIfEmpty(m, t, above, i)
           tb == m.table
<1>1. CASE tb[t] = Empty
  <2>1. /\ n = [free |-> m.free \cup {t}, table |-> WithoutEntry(tb, above, i)]
    <3>1. n = Clear(freePage(m, t), above, i)
      BY <1>1 DEF FreeIfEmpty, isTableEmpty
    <3>2. freePage(m, t) = [free |-> m.free \cup {t}, table |-> tb]
      BY DEF freePage
    <3>3. ASSUME NEW F, NEW T
          PROVE  Clear([free |-> F, table |-> T], above, i)
                   = [free |-> F, table |-> WithoutEntry(T, above, i)]
      BY DEF Clear, WithoutEntry
    <3> QED
      BY ONLY <3>1, <3>2, <3>3
  <2> HIDE DEF n
  <2>2. n.free = m.free \cup {t} /\ n.table = WithoutEntry(tb, above, i)
        /\ n = [free |-> n.free, table |-> n.table]
    BY <2>1
  <2>3. \A c \in Index : tb[t][c] = NULL
    BY <1>1 DEF Empty
  <2>4. \A s \in L[k], c \in Index : tb[s][c] = t => s = above /\ c = i
    BY DEF Tree
  <2>5. Typed(tb, mem) /\ Tree(tb, L) /\ tb[above][i] = t
    OBVIOUS
  <2>6. k \in 2 .. 4 /\ k + 1 \in 1 .. 5
    OBVIOUS
  <2> HIDE DEF tb
  <2>7. /\ Typed(n.table, mem) /\ Tree(n.table, Removed(L, k + 1, t))
        /\ n.table[above][i] = NULL
        /\ \A s \in Place, c \in Index : s # above \/ c # i => n.table[s][c] = tb[s][c]
    BY <2>2, <2>3, <2>4, <2>5, <2>6, TreeShrinks
  <2>8. /\ \A j \in 1 .. 5 : j # k + 1 => Removed(L, k + 1, t)[j] = L[j]
        /\ Removed(L, k + 1, t)[k + 1] = L[k + 1] \ {t}
    BY <2>6 DEF Removed
  <2>9. n.free \ m.free = {t}
    BY <2>2
  <2>10. \A s \in Place, c \in Index :
           /\ n.table[s][c] \in {NULL, tb[s][c]}
           /\ s # above \/ c # i => n.table[s][c] = tb[s][c]
    BY <2>7
  <2> QED
    BY <2>2, <2>7, <2>8, <2>9, <2>10 DEF n, tb, TableFreed
<1>2. CASE tb[t] # Empty
  <2>1. n = m
    BY <1>2 DEF FreeIfEmpty, isTableEmpty
  <2>2. n.free \ m.free = {} /\ L[k + 1] = L[k + 1] \ (n.free \ m.free)
    BY <2>1
  <2> HIDE DEF n
  <2> QED
    BY <2>1, <2>2 DEF n, TableFreed
<1> QED
  BY <1>1, <1>2

\* What pages are mapped to is told apart by the entries alone: so it is until there are
\* address spaces.
LeavesApart(tb, L) ==
  \A s, t \in L[4] : \A i, j \in Index : tb[s][i] = tb[t][j] /\ tb[s][i] # NULL => s = t /\ i = j

\* What unmapPage makes of memory with the levels K: the page's frame is mapped nowhere, and
\* the tables given back are those that are none any more.
LEMMA UnmapPageUnmaps ==
  ASSUME NEW m, NEW mem, NEW K, NEW v \in Page, v[1] = 0,
         m = [free |-> m.free, table |-> m.table], Typed(m.table, mem), Tree(m.table, K),
         \A j \in 1 .. 5 : K[j] \cap m.free = {}, LeavesApart(m.table, K),
         Lookup(m.table, pml4, v) # NULL
  PROVE  LET n == unmapPage(m, v)
         IN  /\ n = [free |-> n.free, table |-> n.table]
             /\ Typed(n.table, mem) /\ m.free \subseteq n.free
             /\ \E L : /\ Tree(n.table, L)
                       /\ L[1] = K[1] /\ L[5] = K[5] \ {Lookup(m.table, pml4, v)}
                       /\ L[2] \cup L[3] \cup L[4] = (K[2] \cup K[3] \cup K[4]) \ (n.free \ m.free)
             /\ n.free \ m.free \subseteq K[3] \cup K[4]
             /\ \A u \in Page : Lookup(n.table, pml4, u) \in {NULL, Lookup(m.table, pml4, u)}
<1> DEFINE tb == m.table
           pd == Reach(tb, pml4, v, 3)
           pt == Reach(tb, pml4, v, 4)
           f == Lookup(tb, pml4, v)
           m1 == Clear(m, pt, v[4])
           m2 == FreeIfEmpty(m1, pt, pd, v[3])
           m3 == FreeIfEmpty(m2, pd, pdpt, v[2])
           m4 == FreeIfEmpty(m3, pdpt, pml4, v[1])
<1>1. /\ pml4 \in K[1] /\ v[2] \in Index /\ v[3] \in Index /\ v[4] \in Index /\ v[2] # 0
      /\ K \in [1 .. 5 -> SUBSET Place]
      /\ NULL \notin Place /\ pdpt # NULL /\ pml4 # NULL /\ 0 \in Index
  BY PageParts, Places DEF Tree
<1>2. /\ Reach(tb, pml4, v, 2) = pdpt
      /\ pd = Entry(tb, pdpt, v[2]) /\ pt = Entry(tb, pd, v[3])
      /\ f = Entry(tb, pt, v[4])
      /\ pdpt \in K[2] \cup {NULL} /\ pd \in K[3] \cup {NULL} /\ pt \in K[4] \cup {NULL}
      /\ pd # pdpt /\ pt # pdpt
  <2>1. 2 \in 1 .. 3 /\ 3 \in 1 .. 3 /\ 2 + 1 = 3 /\ 3 + 1 = 4 /\ 2 \in 2 .. 4 /\ 3 \in 2 .. 4 /\ 4 \in 2 .. 4
    OBVIOUS
  <2>2. /\ Reach(tb, pml4, v, 2) = pdpt /\ pd # pdpt /\ pt # pdpt
        /\ f = Entry(tb, pt, v[4])
        /\ \A k \in 2 .. 4 : Reach(tb, pml4, v, k) \in K[k] \cup {NULL}
        /\ \A k \in 1 .. 3 : Reach(tb, pml4, v, k + 1) = Entry(tb, Reach(tb, pml4, v, k), v[k])
    BY <1>1, PathOnLevels
  <2> QED
    BY ONLY <2>1, <2>2
<1> HIDE DEF pd, pt, f
<1>3. /\ pt # NULL /\ pd # NULL
      /\ pdpt \in K[2] /\ pd \in K[3] /\ pt \in K[4]
      /\ tb[pdpt][v[2]] = pd /\ tb[pd][v[3]] = pt /\ tb[pt][v[4]] = f /\ f # NULL
  <2>1. f # NULL
    BY DEF f
  <2>2. pt # NULL /\ pd # NULL
    BY ONLY <1>2, <2>1 DEF Entry
  <2> QED
    BY ONLY <1>1, <1>2, <2>1, <2>2 DEF Entry
<1>4. /\ pd \in Place /\ pt \in Place /\ pdpt \in Place /\ pd # pt
      /\ pd \notin m.free /\ pt \notin m.free
  <2>1. 2 \in 1 .. 5 /\ 3 \in 1 .. 5 /\ 4 \in 1 .. 5 /\ K[3] \cap K[4] = {}
    BY DEF Tree
  <2> QED
    BY <1>1, <1>3, <2>1
<1>5. /\ m1 = [free |-> m.free, table |-> WithoutEntry(tb, pt, v[4])]
      /\ m1.free = m.free /\ m1 = [free |-> m1.free, table |-> m1.table]
      /\ Typed(m1.table, mem) /\ Tree(m1.table, Removed(K, 5, f))
      /\ \A s \in Place, c \in Index :
           /\ m1.table[s][c] \in {NULL, tb[s][c]}
           /\ s # pt => m1.table[s][c] = tb[s][c]
  <2>1. m1 = [free |-> m.free, table |-> WithoutEntry(tb, pt, v[4])]
    BY DEF Clear, WithoutEntry
  <2> HIDE DEF m1
  <2>2. m1.free = m.free /\ m1 = [free |-> m1.free, table |-> m1.table]
        /\ m1.table = WithoutEntry(tb, pt, v[4])
    BY <2>1
  <2>3. Typed(tb, mem) /\ Tree(tb, K)
    OBVIOUS
  <2>4. \A s \in K[4], c \in Index : tb[s][c] = f => s = pt /\ c = v[4]
    BY <1>1, <1>3 DEF LeavesApart
  <2>5. 4 \in 2 .. 4 /\ 4 + 1 = 5
    OBVIOUS
  <2> HIDE DEF tb
  <2>6. /\ Typed(WithoutEntry(tb, pt, v[4]), mem)
        /\ Tree(WithoutEntry(tb, pt, v[4]), Removed(K, 5, f))
        /\ WithoutEntry(tb, pt, v[4])[pt][v[4]] = NULL
        /\ \A s \in Place, c \in Index :
             s # pt \/ c # v[4] => WithoutEntry(tb, pt, v[4])[s][c] = tb[s][c]
    BY ONLY <1>1, <1>2, <1>3, <2>3, <2>4, <2>5, TreeShrinks
  <2> QED
    BY <2>1, <2>2, <2>6
<1> HIDE DEF m1
<1> DEFINE L1 == Removed(K, 5, f)
<1>6. \A j \in 1 .. 4 : L1[j] = K[j]
  BY DEF Removed
<1>7. L1[5] = K[5] \ {f}
  BY DEF Removed
<1> HIDE DEF L1
<1>8. TableFreed(m1, m2, mem, L1, 3, pd, v[3], pt)
  <2>1. 3 \in 2 .. 3 /\ 3 \in 1 .. 4
    OBVIOUS
  <2>2. pd \in L1[3] /\ m1.table[pd][v[3]] = pt /\ pt \notin m1.free
    BY <1>1, <1>3, <1>4, <1>5, <1>6, <2>1
  <2>3. Tree(m1.table, L1)
    BY <1>5 DEF L1
  <2> QED
    BY ONLY <1>1, <1>2, <1>3, <1>5, <2>1, <2>2, <2>3, FreesTable DEF m2
<1> HIDE DEF m2
<1>i. /\ m2 = [free |-> m2.free, table |-> m2.table]
      /\ Typed(m2.table, mem)
      /\ m1.free \subseteq m2.free /\ m2.free \ m1.free \subseteq {pt}
      /\ \A s \in Place, c \in Index :
           /\ m2.table[s][c] \in {NULL, m1.table[s][c]}
           /\ s # pd \/ c # v[3] => m2.table[s][c] = m1.table[s][c]
  BY <1>8 DEF TableFreed
<1>9. PICK L2 : /\ Tree(m2.table, L2)
                /\ \A j \in 1 .. 5 : j # 4 => L2[j] = L1[j]
                /\ L2[4] = L1[4] \ (m2.free \ m1.free)
  <2>1. 3 + 1 = 4
    OBVIOUS
  <2> QED
    BY <1>8, <2>1 DEF TableFreed
<1>10. TableFreed(m2, m3, mem, L2, 2, pdpt, v[2], pd)
  <2>1. 2 \in 2 .. 3 /\ 2 \in 1 .. 5 /\ 2 # 4 /\ 2 \in 1 .. 4
    OBVIOUS
  <2>2. L2[2] = K[2]
    BY <1>6, <1>9, <2>1
  <2>3. pdpt \in L2[2] /\ m2.table[pdpt][v[2]] = pd
    <3>1. pdpt \in Place /\ pdpt # pt /\ pdpt # pd /\ v[2] \in Index
      BY <1>1, <1>2, <1>4
    <3>2. m1.table[pdpt][v[2]] = tb[pdpt][v[2]]
      BY <1>5, <3>1
    <3>3. m2.table[pdpt][v[2]] = m1.table[pdpt][v[2]]
      BY <1>i, <3>1
    <3> QED
      BY <1>3, <2>2, <3>2, <3>3
  <2>4. pd \notin m2.free
    BY <1>4, <1>5, <1>i
  <2> QED
    BY ONLY <1>1, <1>3, <1>i, <1>9, <2>1, <2>3, <2>4, FreesTable DEF m3
<1> HIDE DEF m3
<1>j. /\ m3 = [free |-> m3.free, table |-> m3.table]
      /\ Typed(m3.table, mem)
      /\ m2.free \subseteq m3.free /\ m3.free \ m2.free \subseteq {pd}
      /\ \A s \in Place, c \in Index : m3.table[s][c] \in {NULL, m2.table[s][c]}
  BY <1>10 DEF TableFreed
<1>11. PICK L3 : /\ Tree(m3.table, L3)
                 /\ \A j \in 1 .. 5 : j # 3 => L3[j] = L2[j]
                 /\ L3[3] = L2[3] \ (m3.free \ m2.free)
  <2>1. 2 + 1 = 3
    OBVIOUS
  <2> QED
    BY <1>10, <2>1 DEF TableFreed
<1>12. m4 = m3
  <2>1. m3.table[pdpt][0] = identity /\ identity # NULL
    BY <1>11, Places DEF Tree
  <2>2. m3.table[pdpt] # Empty
    BY <1>1, <2>1 DEF Empty
  <2> QED
    BY <2>2 DEF FreeIfEmpty, isTableEmpty
<1>13. unmapPage(m, v) = m3
  <2>1. Entry(tb, pml4, v[1]) = pdpt
    BY <1>2 DEF Reach
  <2>2. unmapPage(m, v) = m4
    BY <1>2, <1>3, <2>1 DEF unmapPage, m1, m2, m3
  <2> QED
    BY <1>12, <2>2
<1>14. /\ L3[1] = K[1] /\ L3[5] = K[5] \ {f}
       /\ L3[2] = K[2] /\ L3[3] = K[3] \ (m3.free \ m2.free)
       /\ L3[4] = K[4] \ (m2.free \ m.free)
  <2>1. 1 \in 1 .. 4 /\ 2 \in 1 .. 4 /\ 3 \in 1 .. 4 /\ 4 \in 1 .. 4 /\ 1 .. 4 \subseteq 1 .. 5 /\ 5 \in 1 .. 5
    OBVIOUS
  <2> QED
    BY <1>5, <1>6, <1>7, <1>9, <1>11, <2>1
<1>15. L3[2] \cup L3[3] \cup L3[4] = (K[2] \cup K[3] \cup K[4]) \ (m3.free \ m.free)
  <2>1. K[2] \cap K[3] = {} /\ K[2] \cap K[4] = {} /\ K[3] \cap K[4] = {}
    <3>1. 2 \in 1 .. 5 /\ 3 \in 1 .. 5 /\ 4 \in 1 .. 5
      OBVIOUS
    <3> QED
      BY <3>1 DEF Tree
  <2>2. m3.free \ m.free = (m3.free \ m2.free) \cup (m2.free \ m.free)
    BY <1>5, <1>i, <1>j
  <2>3. m3.free \ m2.free \subseteq K[3] /\ m2.free \ m.free \subseteq K[4]
    BY <1>3, <1>5, <1>i, <1>j
  <2> QED
    BY <1>14, <2>1, <2>2, <2>3
<1>16. m3.free \ m.free \subseteq K[3] \cup K[4] /\ m.free \subseteq m3.free
  BY <1>3, <1>5, <1>i, <1>j
<1>17. \A u \in Page : Lookup(m3.table, pml4, u) \in {NULL, Lookup(tb, pml4, u)}
  <2>1. \A s \in Place, c \in Index : m3.table[s][c] \in {NULL, tb[s][c]}
    BY <1>5, <1>i, <1>j
  <2>2. Tree(tb, K)
    OBVIOUS
  <2> HIDE DEF tb
  <2> QED
    BY <1>1, <2>1, <2>2, FewerTranslations
<1> QED
  BY <1>j, <1>11, <1>13, <1>14, <1>15, <1>16, <1>17 DEF f, tb

------------------------------------------------------------------------------
(* The states of the system. *)

\* The loader gives a frame back that it then maps for copying; that nobody else has mapped
\* the page for itself alone is what makes it harmless.
ProgramsApart ==
  \A p, q \in Program : \A s \in DOMAIN Segments[p], t \in DOMAIN Segments[q] :
    \A i \in DOMAIN Segments[p][s], j \in DOMAIN Segments[q][t] :
      Segments[p][s][i] = Segments[q][t][j] => p = q

Levels == <<Roots, Pdpts, Pds, Pts, Mapping>>

\* No two pages of the kernel have the same frame.
KernelPagesApart ==
  \A v, w \in Page : Translate(pml4, v) # NULL /\ Translate(pml4, v) = Translate(pml4, w) => v = w

\* The tables are a tree, and what is in use is neither free nor somebody else's.
MemoryInOrder ==
  /\ memory \subseteq Frame /\ free \subseteq memory /\ others \subseteq memory
  /\ roots \subseteq memory /\ dropped \subseteq memory
  /\ Typed(table, memory) /\ Tree(table, Levels)
  /\ (Tables \cup Mapping) \cap (free \cup others) = {}
  /\ free \cap others = {} /\ dropped \cap others = {}
  /\ KernelPagesApart
  /\ FramesAccounted

\* During the boot there is one root, and the page mapped for the test is the only one.
BootInOrder ==
  /\ phase \in {"test", "tested", "heap"} =>
       /\ roots = {} /\ heap_end = 0 /\ load = NULL
       /\ loaded = {} /\ refused = {} /\ dropped = {}
  /\ phase = "tested" => Translate(pml4, test_virt) # NULL

\* The heap is mapped up to its end.
HeapMapped == \A i \in 1 .. heap_end : Translate(pml4, HeapPage[i]) # NULL

\* A load is of a program that no load has ended for.
LoadInOrder ==
  /\ load # NULL =>
       /\ load \in [program : Program, root : Roots, segment : Nat, page : Nat]
       /\ load.segment \in DOMAIN Segments[load.program]
       /\ load.page \in 1 .. Len(Segment) + 1
       /\ load.program \notin {l.program : l \in loaded} \cup refused
  /\ \A l \in loaded :
       l \in [program : Program, root : Roots, before : SUBSET memory]

\* Every address space finds page v where the kernel does.
Same(v) == \A root \in roots : Translate(root, v) = Translate(pml4, v)

\* Program p is loaded, refused or on its way.
Begun(p) == p \in {l.program : l \in loaded} \cup refused \/ (load # NULL /\ load.program = p)

\* The load that runs has come to page v.
Reached(v) ==
  \/ \E t \in 1 .. load.segment - 1 : \E j \in DOMAIN Segments[load.program][t] :
       v = Segments[load.program][t][j]
  \/ \E j \in 1 .. load.page - 1 : v = Segment[j]

\* Pages of a program are everywhere the same until its load comes to them.
PagesBegin ==
  /\ \A p \in Program : ~ Begun(p) =>
       \A s \in DOMAIN Segments[p] : \A i \in DOMAIN Segments[p][s] : Same(Segments[p][s][i])
  /\ load # NULL =>
       \A s \in DOMAIN Segments[load.program] : \A i \in DOMAIN Segments[load.program][s] :
         Reached(Segments[load.program][s][i]) \/ Same(Segments[load.program][s][i])

\* What a load has mapped the kernel has at the same frame, or not yet; segments behind it
\* are there and copied.
PagesLoading ==
  load # NULL =>
    /\ \A i \in 1 .. load.page - 1 :
         /\ Translate(load.root, Segment[i]) # NULL
         /\ Translate(pml4, Segment[i]) \in {NULL, Translate(load.root, Segment[i])}
    /\ \A s \in 1 .. load.segment - 1 : \A i \in DOMAIN Segments[load.program][s] :
         LET v == Segments[load.program][s][i]
         IN  /\ Translate(pml4, v) # NULL
             /\ Translate(load.root, v) = Translate(pml4, v)
             /\ <<load.program, s>> \in content[Translate(pml4, v)]

\* The address spaces a loaded program has to be in.
SpacesOf(l) == {l.root} \cup (IF l.root = pml4 THEN roots \ l.before ELSE {})

\* A program that was loaded stays where the kernel has it.
PagesLoaded ==
  \A l \in loaded : \A s \in DOMAIN Segments[l.program] :
    \A i \in DOMAIN Segments[l.program][s] :
      LET v == Segments[l.program][s][i]
      IN  /\ Translate(pml4, v) # NULL
          /\ \A root \in SpacesOf(l) : Translate(root, v) = Translate(pml4, v)
          /\ <<l.program, s>> \in content[Translate(pml4, v)]

\* What is left of the types.
Kinds ==
  /\ phase \in {"test", "tested", "heap", "up", "halted"}
  /\ heap_end \in 0 .. Len(HeapPage)
  /\ IsFiniteSet(roots) /\ Cardinality(roots) <= MAX_ROOTS
  /\ content \in [Frame -> SUBSET (Program \X Nat)]
  /\ refused \subseteq Program

\* The inductive invariant.
IInv ==
  /\ Kinds /\ MemoryInOrder /\ BootInOrder /\ HeapMapped
  /\ LoadInOrder /\ PagesBegin /\ PagesLoading /\ PagesLoaded

------------------------------------------------------------------------------
(* Levels as the tables say them. *)

\* What is below a level is the next one.
LEMMA LevelBelow ==
  ASSUME NEW tb, NEW L, Tree(tb, L), NEW k \in 1 .. 4
  PROVE  {tb[t][i] : t \in L[k], i \in Index} \ {NULL, identity} = L[k + 1]
<1>1. /\ \A t \in L[k], i \in Index :
           tb[t][i] \in L[k + 1] \/ tb[t][i] = NULL \/ (t = pdpt /\ i = 0)
      /\ \A n \in L[k + 1] : \E t \in L[k], i \in Index : tb[t][i] = n
      /\ tb[pdpt][0] = identity
  BY DEF Tree
<1>2. L[k + 1] \subseteq Place
  <2>1. k + 1 \in 1 .. 5
    OBVIOUS
  <2> QED
    BY <2>1 DEF Tree
<1>3. NULL \notin L[k + 1] /\ identity \notin L[k + 1]
  BY <1>2, Places
<1> QED
  BY <1>1, <1>3

\* The levels are what the roots have below them.
LEMMA LevelsNow ==
  ASSUME NEW L, Tree(table, L), L[1] = Roots
  PROVE  Levels = L
<1>1. /\ {table[t][i] : t \in L[1], i \in Index} \ {NULL, identity} = L[2]
      /\ {table[t][i] : t \in L[2], i \in Index} \ {NULL, identity} = L[3]
      /\ {table[t][i] : t \in L[3], i \in Index} \ {NULL, identity} = L[4]
      /\ {table[t][i] : t \in L[4], i \in Index} \ {NULL, identity} = L[5]
  <2>1. 1 \in 1 .. 4 /\ 2 \in 1 .. 4 /\ 3 \in 1 .. 4 /\ 4 \in 1 .. 4
        /\ 1 + 1 = 2 /\ 2 + 1 = 3 /\ 3 + 1 = 4 /\ 4 + 1 = 5
    OBVIOUS
  <2> QED
    BY <2>1, LevelBelow
<1>2. Pdpts = L[2] /\ Pds = L[3] /\ Pts = L[4] /\ Mapping = L[5]
  BY <1>1 DEF Pdpts, Pds, Pts, Mapping, Below
<1>3. L = [k \in 1 .. 5 |-> L[k]]
  BY DEF Tree
<1> HIDE DEF Levels
<1>4. Levels = [k \in 1 .. 5 |-> Levels[k]]
  BY DEF Levels
<1>5. Levels[1] = L[1] /\ Levels[2] = L[2] /\ Levels[3] = L[3] /\ Levels[4] = L[4] /\ Levels[5] = L[5]
  BY <1>2 DEF Levels
<1>6. \A k \in 1 .. 5 : Levels[k] = L[k]
  BY <1>5
<1> QED
  BY <1>3, <1>4, <1>6

\* The same of the next state.
LEMMA LevelsNext ==
  ASSUME NEW L, Tree(table', L), L[1] = Roots'
  PROVE  Levels' = L
<1>1. /\ {table'[t][i] : t \in L[1], i \in Index} \ {NULL, identity} = L[2]
      /\ {table'[t][i] : t \in L[2], i \in Index} \ {NULL, identity} = L[3]
      /\ {table'[t][i] : t \in L[3], i \in Index} \ {NULL, identity} = L[4]
      /\ {table'[t][i] : t \in L[4], i \in Index} \ {NULL, identity} = L[5]
  <2>1. 1 \in 1 .. 4 /\ 2 \in 1 .. 4 /\ 3 \in 1 .. 4 /\ 4 \in 1 .. 4
        /\ 1 + 1 = 2 /\ 2 + 1 = 3 /\ 3 + 1 = 4 /\ 4 + 1 = 5
    OBVIOUS
  <2> QED
    BY <2>1, LevelBelow
<1>2. Pdpts' = L[2] /\ Pds' = L[3] /\ Pts' = L[4] /\ Mapping' = L[5]
  BY <1>1 DEF Pdpts, Pds, Pts, Mapping, Below
<1>3. L = [k \in 1 .. 5 |-> L[k]]
  BY DEF Tree
<1>4. Levels' = <<L[1], L[2], L[3], L[4], L[5]>>
  BY <1>2 DEF Levels
<1>5. <<L[1], L[2], L[3], L[4], L[5]>> = [k \in 1 .. 5 |-> L[k]]
  OBVIOUS
<1> QED
  BY <1>3, <1>4, <1>5

\* Under the second level there are frames of the manager's only.
LEMMA LevelsInMemory ==
  ASSUME NEW mem, NEW tb, Typed(tb, mem), NEW L, Tree(tb, L)
  PROVE  /\ L[2] \subseteq mem \cup {pdpt}
         /\ L[3] \cup L[4] \cup L[5] \subseteq mem
         /\ mem \subseteq Frame
<1>1. mem \subseteq Frame /\ tb \in [Place -> [Index -> mem \cup {pdpt, identity, NULL}]]
  BY DEF Typed
<1>2. /\ L[1] \subseteq Place /\ L[2] \subseteq Place /\ L[3] \subseteq Place
      /\ L[4] \subseteq Place /\ L[5] \subseteq Place
  BY DEF Tree
<1>3. NULL \notin Place /\ identity \notin Place /\ 0 \in Index
  BY Places
<1>4. pdpt \in L[2]
  <2>1. pml4 \in L[1] /\ tb[pml4][0] = pdpt
    BY DEF Tree
  <2>2. 1 \in 1 .. 4 /\ 1 + 1 = 2
    OBVIOUS
  <2>3. tb[pml4][0] \in L[2] \/ tb[pml4][0] = NULL \/ (pml4 = pdpt /\ 0 = 0)
    BY <1>3, <2>1, <2>2 DEF Tree
  <2> QED
    BY <2>1, <2>3, Places
<1>5. pdpt \notin L[3] \cup L[4] \cup L[5]
  <2>1. L[2] \cap L[3] = {} /\ L[2] \cap L[4] = {} /\ L[2] \cap L[5] = {}
    BY DEF Tree
  <2> QED
    BY <1>4, <2>1
<1>6. ASSUME NEW k \in 1 .. 4, NEW n \in L[k + 1] PROVE n \in mem \cup {pdpt}
  <2>1. PICK t \in L[k], i \in Index : tb[t][i] = n
    BY DEF Tree
  <2>2. t \in Place /\ n \in Place
    <3>1. k \in 1 .. 5 /\ k + 1 \in 1 .. 5
      OBVIOUS
    <3> QED
      BY <3>1 DEF Tree
  <2>3. n \in mem \cup {pdpt, identity, NULL}
    BY <1>1, <2>1, <2>2
  <2> QED
    BY <1>3, <2>2, <2>3
<1>7. /\ \A n \in L[2] : n \in mem \cup {pdpt}
      /\ \A n \in L[3] : n \in mem \cup {pdpt}
      /\ \A n \in L[4] : n \in mem \cup {pdpt}
      /\ \A n \in L[5] : n \in mem \cup {pdpt}
  <2>1. 1 \in 1 .. 4 /\ 2 \in 1 .. 4 /\ 3 \in 1 .. 4 /\ 4 \in 1 .. 4
        /\ 1 + 1 = 2 /\ 2 + 1 = 3 /\ 3 + 1 = 4 /\ 4 + 1 = 5
    OBVIOUS
  <2> QED
    BY <1>6, <2>1
<1> QED
  BY <1>1, <1>5, <1>7

\* Under the entry 0 of the first level all roots have the same pages.
LEMMA SharedPage ==
  ASSUME NEW tb, NEW L, Tree(tb, L), NEW r \in L[1], NEW v \in Page, v[1] = 0
  PROVE  Lookup(tb, r, v) = Lookup(tb, pml4, v)
<1>1. pml4 \in L[1]
  BY DEF Tree
<1>2. tb[r][0] = pdpt /\ tb[pml4][0] = pdpt
  BY <1>1 DEF Tree
<1>3. r # NULL /\ pml4 # NULL
  <2>1. L[1] \subseteq Place
    BY DEF Tree
  <2> QED
    BY <1>1, <2>1, Places
<1>4. Entry(tb, r, v[1]) = Entry(tb, pml4, v[1])
  BY <1>2, <1>3 DEF Entry
<1> QED
  BY <1>4 DEF Lookup

\* While there is one root, pages with frames of their own have entries of their own.
LEMMA LeavesOfOneRoot ==
  ASSUME NEW tb, NEW L, Tree(tb, L), L[1] = {pml4},
         \A v, w \in Page : Lookup(tb, pml4, v) # NULL
                              /\ Lookup(tb, pml4, v) = Lookup(tb, pml4, w) => v = w
  PROVE  LeavesApart(tb, L)
<1>1. ASSUME NEW t \in L[4], NEW i \in Index
      PROVE  \E v \in Page : Lookup(tb, pml4, v) = tb[t][i] /\ v[4] = i
                               /\ Reach(tb, pml4, v, 4) = t
  <2>1. PICK s \in L[3], l \in Index : tb[s][l] = t
    <3>1. 3 \in 1 .. 4 /\ 3 + 1 = 4
      OBVIOUS
    <3> QED
      BY <3>1 DEF Tree
  <2>2. PICK x \in L[2], k \in Index : tb[x][k] = s
    <3>1. 2 \in 1 .. 4 /\ 2 + 1 = 3
      OBVIOUS
    <3> QED
      BY <3>1 DEF Tree
  <2>3. PICK j \in Index : tb[pml4][j] = x
    <3>1. 1 \in 1 .. 4 /\ 1 + 1 = 2
      OBVIOUS
    <3> QED
      BY <3>1 DEF Tree
  <2>4. ~ (j = 0 /\ k = 0)
    <3>1. tb[pml4][0] = pdpt /\ tb[pdpt][0] = identity
      BY DEF Tree
    <3>2. s \in Place
      BY DEF Tree
    <3> QED
      BY <2>2, <2>3, <3>1, <3>2, Places
  <2> DEFINE v == <<j, k, l, i>>
  <2>5. v \in Page /\ v[1] = j /\ v[2] = k /\ v[3] = l /\ v[4] = i
    <3>1. v \in {<<a, b, c, d>> : a, b, c, d \in Index}
      OBVIOUS
    <3>2. v \notin {<<0, 0, c, d>> : c, d \in Index}
      BY <2>4
    <3> QED
      BY <3>1, <3>2 DEF Page
  <2> HIDE DEF v
  <2>6. pml4 # NULL /\ x # NULL /\ s # NULL /\ t # NULL
    <3>1. L[2] \subseteq Place /\ L[3] \subseteq Place /\ L[4] \subseteq Place
      BY DEF Tree
    <3> QED
      BY <3>1, Places
  <2>7. Entry(tb, pml4, v[1]) = x /\ Entry(tb, x, v[2]) = s /\ Entry(tb, s, v[3]) = t
        /\ Entry(tb, t, v[4]) = tb[t][i]
    BY <2>1, <2>2, <2>3, <2>5, <2>6 DEF Entry
  <2>8. Lookup(tb, pml4, v) = tb[t][i] /\ Reach(tb, pml4, v, 4) = t
    BY <2>7 DEF Lookup, Reach
  <2> QED
    BY <2>5, <2>8
<1> QED
  BY <1>1 DEF LeavesApart

\* Memory in which nothing was mapped or made.
LEMMA ExtendedSame ==
  ASSUME NEW m, NEW mem, NEW K, m = [free |-> m.free, table |-> m.table],
         Typed(m.table, mem), Tree(m.table, K)
  PROVE  Extended(m, m, mem, K, {})
<1>1. /\ K[1] = K[1] /\ K[5] = K[5] \cup {}
      /\ K[2] \cup K[3] \cup K[4] = K[2] \cup K[3] \cup K[4] \cup (m.free \ m.free)
  OBVIOUS
<1> QED
  BY <1>1 DEF Extended

\* A page that is mapped stays as it is, whatever frame it is to be mapped to.
LEMMA MapPageAgain ==
  ASSUME NEW m, NEW mem, NEW K, NEW v \in Page, NEW f,
         m = [free |-> m.free, table |-> m.table], Typed(m.table, mem), Tree(m.table, K),
         m.free \subseteq mem, \A j \in 1 .. 5 : K[j] \cap m.free = {},
         Lookup(m.table, pml4, v) # NULL
  PROVE  mapPage(m, v, f).m = m
<1> DEFINE w == Walk(m, pml4, v)
<1>1. pml4 \in K[1]
  BY DEF Tree
<1>2. PICK L : Walked(w, m, mem, pml4, v, 4, K, L) /\ MadeKnown(w, m)
  BY <1>1, WalkWalks
<1> HIDE DEF w
<1>3. /\ w.ok /\ w.free = m.free /\ w.table = m.table
      /\ w.at = Reach(w.table, pml4, v, 4) /\ w.at \in L[4]
  BY <1>2 DEF Walked
<1>4. w.table[w.at][v[4]] # NULL
  <2>1. Lookup(m.table, pml4, v) = Entry(w.table, w.at, v[4])
    BY <1>1, <1>3, PathOnLevels
  <2> QED
    BY <2>1 DEF Entry
<1>5. Mapped(w, v, f) = [err |-> "AlreadyMapped", m |-> [free |-> w.free, table |-> w.table]]
  BY <1>4 DEF Mapped
<1>6. mapPage(m, v, f) = Mapped(w, v, f)
  BY <1>3 DEF mapPage, w
<1> QED
  BY <1>3, <1>5, <1>6

------------------------------------------------------------------------------
(* Memory in order, from step to step. *)

\* What memory in order offers to the operations.
LEMMA MemoryFacts ==
  ASSUME MemoryInOrder
  PROVE  /\ Typed(table, memory) /\ Tree(table, Levels) /\ memory \subseteq Frame
         /\ free \subseteq memory /\ free \subseteq Nat /\ NULL \notin free
         /\ Levels[1] = Roots /\ Levels[5] = Mapping
         /\ Levels[2] \cup Levels[3] \cup Levels[4] = Pdpts \cup Pds \cup Pts
         /\ \A j \in 1 .. 5 : Levels[j] \cap free = {}
         /\ pml4 \in Roots /\ Roots \subseteq Nat /\ NULL \notin Roots
         /\ Mapping \subseteq memory
         /\ \A s \in Roots, u \in Page : Lookup(table, s, u) \in Mapping \cup {NULL}
<1>1. /\ Typed(table, memory) /\ Tree(table, Levels) /\ memory \subseteq Frame
      /\ free \subseteq memory /\ roots \subseteq memory
      /\ (Tables \cup Mapping) \cap (free \cup others) = {}
  BY DEF MemoryInOrder
<1>2. Frame \subseteq Nat /\ NULL \notin Frame /\ pml4 \in Nat /\ NULL # pml4
  <2>1. pml4 \in Nat
    BY DEF pml4
  <2> QED
    BY <2>1, Places DEF Place
<1>3. /\ Levels[1] = Roots /\ Levels[2] = Pdpts /\ Levels[3] = Pds /\ Levels[4] = Pts
      /\ Levels[5] = Mapping
  BY DEF Levels
<1>4. \A j \in 1 .. 5 : Levels[j] \cap free = {}
  <2>1. \A j \in 1 .. 5 : j = 1 \/ j = 2 \/ j = 3 \/ j = 4 \/ j = 5
    OBVIOUS
  <2>2. /\ Roots \cap free = {} /\ Pdpts \cap free = {} /\ Pds \cap free = {}
        /\ Pts \cap free = {} /\ Mapping \cap free = {}
    BY <1>1 DEF Tables
  <2> QED
    BY <1>3, <2>1, <2>2
<1> HIDE DEF Levels
<1>5. Mapping \subseteq memory
  BY <1>1, <1>3, LevelsInMemory
<1>6. \A s \in Roots, u \in Page : Lookup(table, s, u) \in Mapping \cup {NULL}
  BY <1>1, <1>3, PathOnLevels
<1> QED
  BY <1>1, <1>2, <1>3, <1>4, <1>5, <1>6 DEF Roots

\* If at most one page is mapped anew, to a frame that was free, the kernel's pages have
\* different frames still.
LEMMA KernelPagesStayApart ==
  ASSUME MemoryInOrder, NEW v, NEW f \in free,
         \A u \in Page : \/ Lookup(table', pml4, u) = Lookup(table, pml4, u)
                         \/ u = v /\ Lookup(table', pml4, u) = f
  PROVE  KernelPagesApart'
<1>1. \A u \in Page : Lookup(table, pml4, u) # f
  <2>1. f \notin Mapping /\ f # NULL /\ pml4 \in Roots
    <3>1. 5 \in 1 .. 5
      OBVIOUS
    <3> QED
      BY <3>1, MemoryFacts
  <2> QED
    BY <2>1, MemoryFacts
<1>2. \A u, w \in Page : Lookup(table, pml4, u) # NULL
                           /\ Lookup(table, pml4, u) = Lookup(table, pml4, w) => u = w
  BY DEF MemoryInOrder, KernelPagesApart, Translate
<1>3. \A u, w \in Page : Lookup(table', pml4, u) # NULL
                           /\ Lookup(table', pml4, u) = Lookup(table', pml4, w) => u = w
  BY <1>1, <1>2
<1> QED
  BY <1>3 DEF KernelPagesApart, Translate

\* The frame f was taken, tables were made, and f was mapped (F), dropped (D) or given back,
\* or the kernel faults.
LEMMA MemoryGrows ==
  ASSUME MemoryInOrder, phase # "halted", UNCHANGED <<memory, others, roots>>,
         NEW f \in free, NEW n, NEW F \in SUBSET {f}, NEW D \in SUBSET {f},
         Extended([free |-> free \ {f}, table |-> table], n, memory, Levels, F),
         table' = n.table, free' \in {n.free, n.free \cup {f}}, F = {} \/ free' = n.free,
         dropped' = dropped \cup D,
         phase' # "halted" => free' = (n.free \cup {f}) \ (F \cup D),
         KernelPagesApart'
  PROVE  MemoryInOrder'
<1>1. /\ memory \subseteq Frame /\ free \subseteq memory /\ others \subseteq memory
      /\ roots \subseteq memory /\ dropped \subseteq memory
      /\ (Tables \cup Mapping) \cap (free \cup others) = {}
      /\ free \cap others = {} /\ dropped \cap others = {}
      /\ memory \ free = ((Tables \cup Mapping) \ Boot) \cup others \cup dropped
  BY DEF MemoryInOrder, FramesAccounted
<1>2. /\ Levels[1] = Roots /\ Levels[5] = Mapping
      /\ Levels[2] \cup Levels[3] \cup Levels[4] = Pdpts \cup Pds \cup Pts
  BY DEF Levels
<1> HIDE DEF Levels
<1>3. n.free \subseteq free \ {f} /\ Typed(table', memory)
  BY DEF Extended
<1>4. PICK L : /\ Tree(table', L)
               /\ L[1] = Roots /\ L[5] = Mapping \cup F
               /\ L[2] \cup L[3] \cup L[4] = Pdpts \cup Pds \cup Pts \cup ((free \ {f}) \ n.free)
  BY <1>2 DEF Extended
<1>5. Levels' = L
  <2>1. Roots' = Roots
    BY DEF Roots
  <2> QED
    BY <1>4, <2>1, LevelsNext
<1>6. /\ Roots' = L[1] /\ Pdpts' = L[2] /\ Pds' = L[3] /\ Pts' = L[4] /\ Mapping' = L[5]
  BY <1>5 DEF Levels
<1>7. /\ Mapping' = Mapping \cup F
      /\ Tables' = Tables \cup ((free \ {f}) \ n.free)
  <2>1. Tables' = L[1] \cup (L[2] \cup L[3] \cup L[4])
    BY <1>6 DEF Tables
  <2> QED
    BY <1>4, <1>6, <2>1 DEF Tables
<1>8. (Tables' \cup Mapping') \cap (free' \cup others') = {}
  BY <1>1, <1>3, <1>7
<1>9. FramesAccounted'
  <2>1. SUFFICES ASSUME phase' # "halted"
                 PROVE  memory' \ free' = ((Tables' \cup Mapping') \ Boot) \cup others' \cup dropped'
    BY DEF FramesAccounted
  <2>2. free' = (n.free \cup {f}) \ (F \cup D)
    BY <2>1
  <2>3. free \cap Boot = {}
    BY <1>1, Places DEF Boot
  <2>4. memory \ free' = (memory \ free) \cup ((free \ {f}) \ n.free) \cup F \cup D
    BY <1>1, <1>3, <2>2
  <2> QED
    BY <1>1, <1>7, <2>3, <2>4
<1>10. /\ memory' \subseteq Frame /\ free' \subseteq memory' /\ others' \subseteq memory'
       /\ roots' \subseteq memory' /\ dropped' \subseteq memory'
       /\ free' \cap others' = {} /\ dropped' \cap others' = {}
  BY <1>1, <1>3
<1>11. Typed(table', memory') /\ Tree(table', Levels')
  BY <1>3, <1>4, <1>5
<1> QED
  BY <1>8, <1>9, <1>10, <1>11 DEF MemoryInOrder

------------------------------------------------------------------------------
(* The kernel's own uses. *)

\* At most page v is translated anew, and it was not mapped.
Kept(v) ==
  \A s \in Roots, u \in Page :
    Lookup(table', s, u) = Lookup(table, s, u) \/ (u = v /\ Lookup(table, s, u) = NULL)

\* What is left of memory when the frame f is taken.
Without(f) == [free |-> free \ {f}, table |-> table]

\* What memory without a frame has is in order.
LEMMA WithoutFacts ==
  ASSUME MemoryInOrder, NEW f \in free
  PROVE  /\ Without(f) = [free |-> Without(f).free, table |-> Without(f).table]
         /\ Without(f).free = free \ {f} /\ Without(f).table = table
         /\ Typed(Without(f).table, memory) /\ Tree(Without(f).table, Levels)
         /\ Without(f).free \subseteq memory /\ f \notin Without(f).free
         /\ \A j \in 1 .. 5 : Levels[j] \cap Without(f).free = {}
         /\ \A j \in 1 .. 4 : f \notin Levels[j]
         /\ f \in memory /\ [M EXCEPT !.free = @ \ {f}] = Without(f)
<1>1. /\ Without(f) = [free |-> Without(f).free, table |-> Without(f).table]
      /\ Without(f).free = free \ {f} /\ Without(f).table = table
      /\ [M EXCEPT !.free = @ \ {f}] = Without(f)
  BY DEF Without, M
<1>2. /\ Typed(table, memory) /\ Tree(table, Levels) /\ free \subseteq memory
      /\ \A j \in 1 .. 5 : Levels[j] \cap free = {}
  BY MemoryFacts
<1> HIDE DEF Levels
<1>3. \A j \in 1 .. 4 : f \notin Levels[j]
  <2>1. 1 .. 4 \subseteq 1 .. 5
    OBVIOUS
  <2> QED
    BY <1>2, <2>1
<1>4. \A j \in 1 .. 5 : Levels[j] \cap (free \ {f}) = {}
  BY <1>2
<1> QED
  BY <1>1, <1>2, <1>3, <1>4

\* A frame given back is one free frame more.
LEMMA GivenBack ==
  ASSUME NEW fr, NEW tb, NEW m, m = [free |-> fr, table |-> tb], NEW f
  PROVE  freePage(m, f) = [free |-> fr \cup {f}, table |-> tb]
BY DEF freePage

\* A frame taken for a page of the kernel.
LEMMA KernelPageMaps ==
  ASSUME MemoryInOrder, NEW v \in Page, free # {}
  PROVE  /\ Lowest(free) \in free /\ KernelPage(v).frame = Lowest(free)
         /\ MapOutcome(KernelPage(v), Without(Lowest(free)), memory, Levels, pml4, v, Lowest(free))
         /\ KernelPage(v).err = "OutOfMemory" => KernelPage(v).m.free = free \ {Lowest(free)}
<1> DEFINE f == Lowest(free)
           m == Without(f)
           x == mapPage(m, v, f)
           r == KernelPage(v)
<1>1. f \in free
  BY MemoryFacts, LowestIn
<1> HIDE DEF f
<1>2. /\ m = [free |-> m.free, table |-> m.table] /\ m.free = free \ {f}
      /\ Typed(m.table, memory) /\ Tree(m.table, Levels)
      /\ m.free \subseteq memory /\ f \notin m.free /\ f \in memory
      /\ \A j \in 1 .. 5 : Levels[j] \cap m.free = {}
      /\ \A j \in 1 .. 4 : f \notin Levels[j]
      /\ [M EXCEPT !.free = @ \ {f}] = m
  BY <1>1, WithoutFacts
<1> HIDE DEF m
<1>3. /\ MapOutcome(x, m, memory, Levels, pml4, v, f)
      /\ x.err = "OutOfMemory" => x.m.free = m.free
  BY <1>2, MapPageMaps
<1>4. r = [err |-> x.err, frame |-> f, m |-> x.m]
  BY <1>2 DEF KernelPage, f
<1> HIDE DEF x, r
<1>5. r.err = x.err /\ r.m = x.m /\ r.frame = f
  BY <1>4
<1>6. MapOutcome(r, m, memory, Levels, pml4, v, f)
  BY <1>3, <1>5 DEF MapOutcome
<1> QED
  BY <1>1, <1>2, <1>3, <1>5, <1>6 DEF f, m, r

\* Memory that is as it was is in order still.
LEMMA MemoryStays ==
  ASSUME MemoryInOrder, UNCHANGED <<memory, free, others, table, roots, dropped>>,
         phase = "halted" => phase' = "halted"
  PROVE  MemoryInOrder'
BY DEF MemoryInOrder, FramesAccounted, KernelPagesApart, Translate, Levels, Roots, Pdpts, Pds,
       Pts, Tables, Mapping, Below

\* The heap has one page more, or nothing changed.
LEMMA HeapExtends ==
  ASSUME MemoryInOrder, phase # "halted", phase' # "halted",
         UNCHANGED <<memory, others, roots, dropped>>,
         heap_end \in 0 .. Len(HeapPage) - 1, ExtendHeap
  PROVE  /\ MemoryInOrder' /\ Kept(HeapPage[heap_end + 1]) /\ heap_end' \in {heap_end, heap_end + 1}
         /\ heap_end' = heap_end + 1 => Lookup(table', pml4, HeapPage[heap_end + 1]) # NULL
<1> DEFINE v == HeapPage[heap_end + 1]
           r == KernelPage(v)
           f == Lowest(free)
           m == Without(f)
<1>1. v \in Page
  BY PagesAssumption
<1> HIDE DEF v
<1>2. /\ r.err = NULL => MemoryBecomes(r.m) /\ heap_end' = heap_end + 1
      /\ r.err # NULL => /\ MemoryBecomes(IF r.frame = NULL THEN r.m ELSE freePage(r.m, r.frame))
                         /\ heap_end' = heap_end
  BY DEF ExtendHeap, v
<1>3. CASE free = {}
  <2>1. r.err = "OutOfMemory" /\ r.frame = NULL /\ r.m = M
    BY <1>3 DEF KernelPage
  <2>2. free' = free /\ table' = table /\ heap_end' = heap_end
    BY <1>2, <2>1, NullAssumption DEF MemoryBecomes, M
  <2>3. heap_end' # heap_end + 1
    BY <2>2
  <2>4. MemoryInOrder'
    BY <2>2, MemoryStays
  <2> QED
    BY <2>2, <2>3, <2>4 DEF Kept, v
<1>4. CASE free # {}
  <2>1. /\ f \in free /\ r.frame = f
        /\ MapOutcome(r, m, memory, Levels, pml4, v, f)
        /\ r.err = "OutOfMemory" => r.m.free = free \ {f}
    BY <1>1, <1>4, KernelPageMaps
  <2> HIDE DEF r, f
  <2>2. m.free = free \ {f} /\ m.table = table /\ f # NULL /\ pml4 \in Roots
    BY <2>1, MemoryFacts DEF Without
  <2>3. Levels[1] = Roots
    BY DEF Levels
  <2>4. CASE r.err = "AlreadyMapped"
    <3>1. r.m = m /\ r.err # NULL /\ r.frame # NULL
      BY <2>1, <2>2, <2>4, NullAssumption DEF MapOutcome
    <3>2. freePage(m, f).free = free \cup {f} /\ freePage(m, f).table = table
      BY <2>2 DEF freePage, Without
    <3>3. MemoryBecomes(freePage(m, f)) /\ heap_end' = heap_end
      BY <1>2, <2>1, <3>1
    <3>4. free' = free /\ table' = table /\ heap_end' = heap_end
      BY <2>1, <3>2, <3>3 DEF MemoryBecomes
    <3>5. MemoryInOrder'
      BY <3>4, MemoryStays
    <3>6. heap_end' # heap_end + 1
      BY <3>4
    <3> QED
      BY <3>4, <3>5, <3>6 DEF Kept, v
  <2>5. CASE r.err = "OutOfMemory"
    <3>1. /\ Extended(m, r.m, memory, Levels, {})
          /\ \A s \in Levels[1], u \in Page : Lookup(r.m.table, s, u) = Lookup(m.table, s, u)
      BY <2>1, <2>5, NullAssumption DEF MapOutcome
    <3>2. free' = r.m.free \cup {f} /\ table' = r.m.table /\ heap_end' = heap_end
      <4>1. freePage(r.m, f) = [free |-> r.m.free \cup {f}, table |-> r.m.table]
        <5> DEFINE n == r.m
                   fr == n.free
                   tb == n.table
        <5>1. n = [free |-> fr, table |-> tb]
          BY <3>1 DEF Extended
        <5> HIDE DEF n, fr, tb
        <5>2. freePage(n, f) = [free |-> fr \cup {f}, table |-> tb]
          BY <5>1, GivenBack
        <5> QED
          BY <5>2 DEF n, fr, tb
      <4> QED
        BY <1>2, <2>1, <2>2, <2>5, <4>1, NullAssumption DEF MemoryBecomes
    <3>3. \A s \in Roots, u \in Page : Lookup(table', s, u) = Lookup(table, s, u)
      BY <2>2, <2>3, <3>1, <3>2
    <3>4. KernelPagesApart'
      BY <2>1, <2>2, <3>3, KernelPagesStayApart
    <3>5. MemoryInOrder'
      <4>1. dropped' = dropped \cup {} /\ {} \in SUBSET {f} /\ free' = (r.m.free \cup {f}) \ ({} \cup {})
        BY <3>2
      <4>2. Extended([free |-> free \ {f}, table |-> table], r.m, memory, Levels, {})
        BY <3>1 DEF Without
      <4> HIDE DEF Levels
      <4> QED
        BY <2>1, <3>2, <3>4, <4>1, <4>2, MemoryGrows
    <3>6. heap_end' # heap_end + 1
      BY <3>2
    <3> QED
      BY <3>2, <3>3, <3>5, <3>6 DEF Kept, v
  <2>6. CASE r.err = NULL
    <3>1. /\ Lookup(r.m.table, pml4, v) = f
          /\ Extended(m, r.m, memory, Levels, {f})
          /\ \A s \in Levels[1], u \in Page :
               \/ Lookup(r.m.table, s, u) = Lookup(m.table, s, u)
               \/ u = v /\ Lookup(m.table, s, u) = NULL /\ Lookup(r.m.table, s, u) = f
      BY <2>1, <2>6, NullAssumption DEF MapOutcome
    <3>2. free' = r.m.free /\ table' = r.m.table /\ heap_end' = heap_end + 1
      BY <1>2, <2>6 DEF MemoryBecomes
    <3>3. \A s \in Roots, u \in Page :
            \/ Lookup(table', s, u) = Lookup(table, s, u)
            \/ u = v /\ Lookup(table, s, u) = NULL /\ Lookup(table', s, u) = f
      BY <2>2, <2>3, <3>1, <3>2
    <3>4. KernelPagesApart'
      BY <2>1, <2>2, <3>3, KernelPagesStayApart
    <3>5. MemoryInOrder'
      <4>1. dropped' = dropped \cup {} /\ {} \in SUBSET {f} /\ {f} \in SUBSET {f}
        OBVIOUS
      <4>2. Extended([free |-> free \ {f}, table |-> table], r.m, memory, Levels, {f})
        BY <3>1 DEF Without
      <4>3. free' = (r.m.free \cup {f}) \ ({f} \cup {})
        <5>1. r.m.free \subseteq m.free
          BY <3>1 DEF Extended
        <5> QED
          BY <2>2, <3>2, <5>1
      <4> HIDE DEF Levels
      <4> QED
        BY <2>1, <3>2, <3>4, <4>1, <4>2, <4>3, MemoryGrows
    <3> QED
      BY <2>2, <3>1, <3>2, <3>3, <3>5 DEF Kept, v
  <2> QED
    BY <2>1, <2>4, <2>5, <2>6 DEF MapOutcome
<1> QED
  BY <1>3, <1>4

\* The test at boot has mapped its page, or found no frame, or made the kernel fault.
LEMMA TestMaps ==
  ASSUME MemoryInOrder, TestMap, UNCHANGED dropped
  PROVE  /\ MemoryInOrder' /\ phase' \in {"heap", "tested", "halted"}
         /\ phase' = "tested" => Lookup(table', pml4, test_virt) # NULL
<1> DEFINE v == test_virt
           r == KernelPage(v)
           f == Lowest(free)
           m == Without(f)
<1>1. v \in Page
  BY PagesAssumption
<1> HIDE DEF v
<1>2. /\ phase = "test" /\ UNCHANGED <<memory, others, roots>>
      /\ free' = r.m.free /\ table' = r.m.table
      /\ phase' = CASE r.frame = NULL -> "heap" [] r.err = NULL -> "tested" [] OTHER -> "halted"
  BY DEF TestMap, v, MemoryBecomes
<1>3. CASE free = {}
  <2>1. r.err = "OutOfMemory" /\ r.frame = NULL /\ r.m = M
    BY <1>3 DEF KernelPage
  <2>2. free' = free /\ table' = table /\ phase' = "heap"
    BY <1>2, <2>1, NullAssumption DEF M
  <2>3. MemoryInOrder'
    BY <1>2, <2>2 DEF MemoryInOrder, FramesAccounted, KernelPagesApart, Translate, Levels, Roots,
                Pdpts, Pds, Pts, Tables, Mapping, Below
  <2> QED
    BY <2>2, <2>3
<1>4. CASE free # {}
  <2>1. /\ f \in free /\ r.frame = f
        /\ MapOutcome(r, m, memory, Levels, pml4, v, f)
        /\ r.err = "OutOfMemory" => r.m.free = free \ {f}
    BY <1>1, <1>4, KernelPageMaps
  <2> HIDE DEF r, f
  <2>2. m.free = free \ {f} /\ m.table = table /\ f # NULL /\ pml4 \in Roots
    BY <2>1, MemoryFacts DEF Without
  <2>3. Levels[1] = Roots
    BY DEF Levels
  <2>4. CASE r.err # NULL
    <3>1. /\ Extended(m, r.m, memory, Levels, {})
          /\ \A s \in Levels[1], u \in Page : Lookup(r.m.table, s, u) = Lookup(m.table, s, u)
      <4>1. CASE r.err = "OutOfMemory"
        BY <2>1, <4>1, NullAssumption DEF MapOutcome
      <4>2. CASE r.err = "AlreadyMapped"
        <5>1. r.m = m
          BY <2>1, <4>2, NullAssumption DEF MapOutcome
        <5>2. m = [free |-> m.free, table |-> m.table] /\ Typed(m.table, memory) /\ Tree(m.table, Levels)
          BY <2>1, WithoutFacts
        <5> QED
          BY <5>1, <5>2, ExtendedSame
      <4> QED
        BY <2>1, <2>4, <4>1, <4>2 DEF MapOutcome
    <3>2. free' = r.m.free /\ table' = r.m.table /\ phase' = "halted"
      BY <1>2, <2>1, <2>2, <2>4
    <3>3. \A s \in Roots, u \in Page : Lookup(table', s, u) = Lookup(table, s, u)
      BY <2>2, <2>3, <3>1, <3>2
    <3>4. KernelPagesApart'
      BY <2>1, <2>2, <3>3, KernelPagesStayApart
    <3>5. MemoryInOrder'
      <4>1. dropped' = dropped \cup {} /\ {} \in SUBSET {f}
        OBVIOUS
      <4>2. Extended([free |-> free \ {f}, table |-> table], r.m, memory, Levels, {})
        BY <3>1 DEF Without
      <4> HIDE DEF Levels
      <4> QED
        BY <1>2, <2>1, <3>2, <3>4, <4>1, <4>2, MemoryGrows
    <3> QED
      BY <3>2, <3>5
  <2>5. CASE r.err = NULL
    <3>1. /\ Lookup(r.m.table, pml4, v) = f
          /\ Extended(m, r.m, memory, Levels, {f})
          /\ \A s \in Levels[1], u \in Page :
               \/ Lookup(r.m.table, s, u) = Lookup(m.table, s, u)
               \/ u = v /\ Lookup(m.table, s, u) = NULL /\ Lookup(r.m.table, s, u) = f
      BY <2>1, <2>5, NullAssumption DEF MapOutcome
    <3>2. free' = r.m.free /\ table' = r.m.table /\ phase' = "tested"
      BY <1>2, <2>1, <2>2, <2>5
    <3>3. \A s \in Roots, u \in Page :
            \/ Lookup(table', s, u) = Lookup(table, s, u)
            \/ u = v /\ Lookup(table', s, u) = f
      BY <2>2, <2>3, <3>1, <3>2
    <3>4. KernelPagesApart'
      BY <2>1, <2>2, <3>3, KernelPagesStayApart
    <3>5. MemoryInOrder'
      <4>1. dropped' = dropped \cup {} /\ {} \in SUBSET {f} /\ {f} \in SUBSET {f}
        OBVIOUS
      <4>2. Extended([free |-> free \ {f}, table |-> table], r.m, memory, Levels, {f})
        BY <3>1 DEF Without
      <4>3. free' = (r.m.free \cup {f}) \ ({f} \cup {})
        <5>1. r.m.free \subseteq m.free
          BY <3>1 DEF Extended
        <5> QED
          BY <2>2, <3>2, <5>1
      <4> HIDE DEF Levels
      <4> QED
        BY <1>2, <2>1, <3>2, <3>4, <4>1, <4>2, <4>3, MemoryGrows
    <3> QED
      BY <2>2, <3>1, <3>2, <3>5 DEF v
  <2> QED
    BY <2>4, <2>5
<1> QED
  BY <1>3, <1>4

\* The test's page is unmapped, and its frame and the tables that only it needed are free.
LEMMA TestUnmaps ==
  ASSUME MemoryInOrder, roots = {}, dropped = {}, Translate(pml4, test_virt) # NULL,
         TestUnmap, UNCHANGED dropped
  PROVE  MemoryInOrder' /\ phase' = "heap"
<1> DEFINE v == test_virt
           g == Lookup(table, pml4, v)
           n == unmapPage(M, v)
<1>1. v \in Page /\ v[1] = 0
  BY PagesAssumption
<1> HIDE DEF v
<1>2. /\ phase = "tested" /\ phase' = "heap" /\ UNCHANGED <<memory, others, roots>>
      /\ free' = freePage(n, g).free /\ table' = freePage(n, g).table
  BY DEF TestUnmap, v, MemoryBecomes, Translate
<1>3. /\ Typed(table, memory) /\ Tree(table, Levels) /\ free \subseteq memory
      /\ memory \subseteq Frame /\ Levels[1] = Roots /\ Levels[5] = Mapping
      /\ Levels[2] \cup Levels[3] \cup Levels[4] = Pdpts \cup Pds \cup Pts
      /\ \A j \in 1 .. 5 : Levels[j] \cap free = {}
  BY MemoryFacts
<1>4. /\ others \subseteq memory /\ free \cap others = {}
      /\ (Tables \cup Mapping) \cap (free \cup others) = {}
      /\ memory \ free = ((Tables \cup Mapping) \ Boot) \cup others
      /\ \A u, w \in Page : Lookup(table, pml4, u) # NULL
           /\ Lookup(table, pml4, u) = Lookup(table, pml4, w) => u = w
  BY <1>2 DEF MemoryInOrder, FramesAccounted, KernelPagesApart, Translate
<1>5. g # NULL
  BY DEF Translate, v
<1>6. M = [free |-> M.free, table |-> M.table] /\ M.free = free /\ M.table = table
  BY DEF M
<1> HIDE DEF Levels
<1>7. LeavesApart(table, Levels)
  <2>1. Levels[1] = {pml4}
    BY <1>3 DEF Roots
  <2> QED
    BY ONLY <1>3, <1>4, <2>1, LeavesOfOneRoot
<1>8. /\ n = [free |-> n.free, table |-> n.table]
      /\ Typed(n.table, memory) /\ free \subseteq n.free
      /\ \E L : /\ Tree(n.table, L)
                /\ L[1] = Levels[1] /\ L[5] = Levels[5] \ {g}
                /\ L[2] \cup L[3] \cup L[4] = (Levels[2] \cup Levels[3] \cup Levels[4]) \ (n.free \ free)
      /\ n.free \ free \subseteq Levels[3] \cup Levels[4]
      /\ \A u \in Page : Lookup(n.table, pml4, u) \in {NULL, Lookup(table, pml4, u)}
  BY <1>1, <1>3, <1>5, <1>6, <1>7, UnmapPageUnmaps
<1>9. free' = n.free \cup {g} /\ table' = n.table
  <2> DEFINE fr == n.free
             tb == n.table
  <2>1. n = [free |-> fr, table |-> tb]
    BY <1>8
  <2> HIDE DEF n, fr, tb
  <2>2. freePage(n, g) = [free |-> fr \cup {g}, table |-> tb]
    BY <2>1, GivenBack
  <2>3. freePage(n, g).free = fr \cup {g} /\ freePage(n, g).table = tb
    BY <2>2
  <2> QED
    BY <1>2, <2>3 DEF fr, tb
<1> HIDE DEF n
<1>10. PICK L : /\ Tree(table', L)
                /\ L[1] = Levels[1] /\ L[5] = Levels[5] \ {g}
                /\ L[2] \cup L[3] \cup L[4] = (Levels[2] \cup Levels[3] \cup Levels[4]) \ (n.free \ free)
  BY <1>8, <1>9
<1>11. Levels' = L
  <2>1. Roots' = Roots
    BY <1>2 DEF Roots
  <2> QED
    BY <1>3, <1>10, <2>1, LevelsNext
<1>12. /\ Mapping' = Mapping \ {g}
       /\ Tables' = Roots \cup ((Pdpts \cup Pds \cup Pts) \ (n.free \ free))
  <2>1. /\ Roots' = L[1] /\ Pdpts' = L[2] /\ Pds' = L[3] /\ Pts' = L[4] /\ Mapping' = L[5]
    BY <1>11 DEF Levels
  <2>2. Tables' = L[1] \cup (L[2] \cup L[3] \cup L[4])
    BY <2>1 DEF Tables
  <2> QED
    BY <1>3, <1>10, <2>1, <2>2
<1>13. /\ Roots = {pml4} /\ pml4 \in Boot /\ g \in Mapping
       /\ Mapping \cap (Roots \cup Pdpts \cup Pds \cup Pts) = {}
       /\ n.free \ free \subseteq Pds \cup Pts
       /\ Mapping \subseteq memory /\ Pds \cup Pts \subseteq memory
       /\ Tables = Roots \cup Pdpts \cup Pds \cup Pts
       /\ (Pds \cup Pts) \cap Roots = {}
  <2>1. /\ Levels[1] = Roots /\ Levels[2] = Pdpts /\ Levels[3] = Pds /\ Levels[4] = Pts
        /\ Levels[5] = Mapping
    BY DEF Levels
  <2>2. /\ Levels[1] \cap Levels[5] = {} /\ Levels[2] \cap Levels[5] = {}
        /\ Levels[3] \cap Levels[5] = {} /\ Levels[4] \cap Levels[5] = {}
        /\ Levels[1] \cap Levels[3] = {} /\ Levels[1] \cap Levels[4] = {}
    BY <1>3 DEF Tree
  <2>3. Levels[3] \cup Levels[4] \cup Levels[5] \subseteq memory
    BY <1>3, LevelsInMemory
  <2>4. g \in Mapping /\ pml4 \in Boot
    BY <1>1, <1>5, MemoryFacts DEF Boot
  <2> QED
    BY <1>8, <2>1, <2>2, <2>3, <2>4 DEF Roots, Tables
<1>14. memory \cap Boot = {}
  BY <1>3, Places DEF Boot
<1>15. FramesAccounted'
  <2>1. memory' \ free' = ((Tables' \cup Mapping') \ Boot) \cup others' \cup dropped'
    BY <1>2, <1>4, <1>8, <1>9, <1>12, <1>13, <1>14
  <2> QED
    BY <2>1 DEF FramesAccounted
<1>16. (Tables' \cup Mapping') \cap (free' \cup others') = {}
  BY <1>2, <1>4, <1>8, <1>9, <1>12, <1>13
<1>17. KernelPagesApart'
  <2>1. \A u \in Page : Lookup(table', pml4, u) \in {NULL, Lookup(table, pml4, u)}
    BY <1>8, <1>9
  <2> QED
    BY <1>4, <2>1 DEF KernelPagesApart, Translate
<1>18. free' \subseteq memory /\ free' \cap others' = {}
  BY <1>2, <1>3, <1>4, <1>9, <1>13
<1>19. Typed(table', memory') /\ Tree(table', Levels')
  BY <1>2, <1>8, <1>9, <1>10, <1>11
<1> QED
  BY <1>2, <1>3, <1>4, <1>15, <1>16, <1>17, <1>18, <1>19 DEF MemoryInOrder

\* An address space is made of one frame, and finds every page where the kernel does.
LEMMA RootCreated ==
  ASSUME MemoryInOrder, createUserPML4, UNCHANGED dropped
  PROVE  /\ MemoryInOrder'
         /\ \E n \in free :
              /\ roots' = roots \cup {n} /\ n \in memory
              /\ \A s \in Roots, u \in Page : Lookup(table', s, u) = Lookup(table, s, u)
              /\ \A u \in Page : Lookup(table', n, u) = Lookup(table, pml4, u)
<1> DEFINE n == Lowest(free)
<1>1. /\ phase = "up" /\ free # {} /\ UNCHANGED <<memory, others, phase>>
      /\ free' = free \ {n} /\ table' = [table EXCEPT ![n] = table[pml4]]
      /\ roots' = roots \cup {n}
  BY DEF createUserPML4, Copied
<1>2. n \in free
  BY <1>1, MemoryFacts, LowestIn
<1> HIDE DEF n
<1>3. /\ Typed(table, memory) /\ Tree(table, Levels) /\ free \subseteq memory
      /\ memory \subseteq Frame /\ Levels[1] = Roots /\ pml4 \in Roots
      /\ \A j \in 1 .. 5 : Levels[j] \cap free = {}
  BY MemoryFacts
<1>4. /\ others \subseteq memory /\ roots \subseteq memory /\ dropped \subseteq memory
      /\ free \cap others = {} /\ dropped \cap others = {}
      /\ (Tables \cup Mapping) \cap (free \cup others) = {}
      /\ memory \ free = ((Tables \cup Mapping) \ Boot) \cup others \cup dropped
      /\ \A u, w \in Page : Lookup(table, pml4, u) # NULL
           /\ Lookup(table, pml4, u) = Lookup(table, pml4, w) => u = w
  BY <1>1 DEF MemoryInOrder, FramesAccounted, KernelPagesApart, Translate
<1>5. \A j \in 1 .. 5 : n \notin Levels[j]
  BY <1>2, <1>3
<1> DEFINE L == Added(Levels, 1, n)
<1>6. /\ L[1] = Roots \cup {n}
      /\ L[2] = Pdpts /\ L[3] = Pds /\ L[4] = Pts /\ L[5] = Mapping
  BY DEF Added, Levels
<1> HIDE DEF L, Levels
<1>7. /\ Typed(table', memory) /\ Tree(table', L)
      /\ \A s \in Levels[1], u \in Page : Lookup(table', s, u) = Lookup(table, s, u)
      /\ \A u \in Page : Lookup(table', n, u) = Lookup(table, pml4, u)
  <2> DEFINE tb == table
             tb2 == table'
             mem == memory
             K == Levels
  <2>1. n \in mem
    BY <1>2, <1>3
  <2>2. tb2 = WithRoot(tb, n)
    BY <1>1 DEF WithRoot
  <2>3. Typed(tb, mem) /\ Tree(tb, K) /\ \A j \in 1 .. 5 : n \notin K[j]
    BY <1>3, <1>5
  <2> HIDE DEF tb, tb2, mem, K
  <2>4. /\ Typed(tb2, mem) /\ Tree(tb2, Added(K, 1, n))
        /\ \A s \in K[1], u \in Page : Lookup(tb2, s, u) = Lookup(tb, s, u)
        /\ \A u \in Page : Lookup(tb2, n, u) = Lookup(tb, pml4, u)
    BY ONLY <2>1, <2>2, <2>3, RootAdded
  <2> QED
    BY <2>4 DEF tb, tb2, mem, K, L
<1>8. Levels' = L
  <2>1. Roots' = Roots \cup {n}
    BY <1>1 DEF Roots
  <2> QED
    BY <1>6, <1>7, <2>1, LevelsNext
<1>9. Tables' = Tables \cup {n} /\ Mapping' = Mapping
  <2>1. /\ Roots' = L[1] /\ Pdpts' = L[2] /\ Pds' = L[3] /\ Pts' = L[4] /\ Mapping' = L[5]
    BY <1>8 DEF Levels
  <2> QED
    BY <1>6, <2>1 DEF Tables
<1>10. memory \cap Boot = {}
  BY <1>3, Places DEF Boot
<1>11. FramesAccounted'
  <2>1. memory' \ free' = ((Tables' \cup Mapping') \ Boot) \cup others' \cup dropped'
    BY <1>1, <1>2, <1>3, <1>4, <1>9, <1>10
  <2> QED
    BY <2>1 DEF FramesAccounted
<1>12. /\ (Tables' \cup Mapping') \cap (free' \cup others') = {}
       /\ roots' \subseteq memory /\ free' \subseteq memory /\ free' \cap others' = {}
  BY <1>1, <1>2, <1>3, <1>4, <1>9
<1>13. KernelPagesApart'
  BY <1>3, <1>4, <1>7 DEF KernelPagesApart, Translate
<1>14. Typed(table', memory') /\ Tree(table', Levels')
  BY <1>1, <1>7, <1>8
<1>15. MemoryInOrder'
  BY <1>1, <1>3, <1>4, <1>11, <1>12, <1>13, <1>14 DEF MemoryInOrder
<1> QED
  BY <1>1, <1>2, <1>3, <1>7, <1>15

\* Memory whose tables are as they were stays in order when another component's frame comes
\* back.
LEMMA OthersReturned ==
  ASSUME MemoryInOrder, phase # "halted",
         UNCHANGED <<memory, table, roots, dropped>>,
         free' = free \cup others /\ others' = {}
  PROVE  MemoryInOrder'
<1>1. /\ Levels' = Levels /\ Tables' = Tables /\ Mapping' = Mapping
      /\ KernelPagesApart' = KernelPagesApart
  BY DEF Levels, Tables, Mapping, Roots, Pdpts, Pds, Pts, Below, KernelPagesApart, Translate
<1>2. /\ memory \subseteq Frame /\ free \subseteq memory /\ others \subseteq memory
      /\ roots \subseteq memory /\ dropped \subseteq memory
      /\ Typed(table, memory) /\ Tree(table, Levels)
      /\ (Tables \cup Mapping) \cap (free \cup others) = {}
      /\ free \cap others = {} /\ dropped \cap others = {}
      /\ KernelPagesApart
      /\ memory \ free = ((Tables \cup Mapping) \ Boot) \cup others \cup dropped
  BY DEF MemoryInOrder, FramesAccounted
<1>3. memory' \ free' = ((Tables' \cup Mapping') \ Boot) \cup others' \cup dropped'
  BY <1>1, <1>2
<1> QED
  BY <1>1, <1>2, <1>3 DEF MemoryInOrder, FramesAccounted

------------------------------------------------------------------------------
(* The loader's pages. *)

\* Memory n is memory m, with the levels K, where page v may be mapped to the frame f under
\* some roots that did not have it.
PageAdded(m, n, mem, K, v, f) ==
  /\ Extended(m, n, mem, K, {f})
  /\ \A s \in K[1], u \in Page :
       \/ Lookup(n.table, s, u) = Lookup(m.table, s, u)
       \/ u = v /\ Lookup(m.table, s, u) = NULL /\ Lookup(n.table, s, u) = f

\* Mapping the page to the same frame in the kernel's tables too makes no difference of
\* another kind.
LEMMA MapsForKernel ==
  ASSUME NEW m, NEW mem, NEW K, NEW v \in Page, NEW f \in mem, NEW n,
         m.free \subseteq mem, \A j \in 1 .. 5 : K[j] \cap m.free = {}, f \notin m.free,
         \A j \in 1 .. 4 : f \notin K[j], K[1] \subseteq Place, PageAdded(m, n, mem, K, v, f)
  PROVE  /\ PageAdded(m, mapPage(n, v, f).m, mem, K, v, f)
         /\ \A s \in K[1] : Lookup(n.table, s, v) # NULL =>
              Lookup(mapPage(n, v, f).m.table, s, v) = Lookup(n.table, s, v)
<1> DEFINE r == mapPage(n, v, f)
<1>1. /\ n = [free |-> n.free, table |-> n.table] /\ n.free \subseteq m.free
      /\ Typed(n.table, mem)
      /\ \A s \in K[1], u \in Page :
           \/ Lookup(n.table, s, u) = Lookup(m.table, s, u)
           \/ u = v /\ Lookup(m.table, s, u) = NULL /\ Lookup(n.table, s, u) = f
  BY DEF PageAdded, Extended
<1>2. PICK L : /\ Tree(n.table, L)
               /\ L[1] = K[1] /\ L[5] = K[5] \cup {f}
               /\ L[2] \cup L[3] \cup L[4] = K[2] \cup K[3] \cup K[4] \cup (m.free \ n.free)
  BY DEF PageAdded, Extended
<1>3. \A j \in 1 .. 5 : L[j] \cap n.free = {}
  <2>1. /\ K[1] \cap m.free = {} /\ K[5] \cap m.free = {}
        /\ (K[2] \cup K[3] \cup K[4]) \cap m.free = {}
    BY 1 \in 1 .. 5, 2 \in 1 .. 5, 3 \in 1 .. 5, 4 \in 1 .. 5, 5 \in 1 .. 5
  <2>2. /\ L[1] \cap n.free = {} /\ L[5] \cap n.free = {}
        /\ (L[2] \cup L[3] \cup L[4]) \cap n.free = {}
    BY <1>1, <1>2, <2>1
  <2>3. \A j \in 1 .. 5 : j = 1 \/ j = 2 \/ j = 3 \/ j = 4 \/ j = 5
    OBVIOUS
  <2> QED
    BY <2>2, <2>3
<1>4. \A j \in 1 .. 4 : f \notin L[j]
  <2>1. \A j \in 1 .. 4 : j \in 1 .. 5 /\ 5 \in 1 .. 5 /\ j # 5
    OBVIOUS
  <2>2. \A j \in 1 .. 4 : L[j] \cap L[5] = {}
    BY <1>2, <2>1 DEF Tree
  <2> QED
    BY <1>2, <2>2
<1>5. n.free \subseteq mem /\ f \notin n.free
  BY <1>1
<1>6. MapOutcome(r, n, mem, L, pml4, v, f)
  BY <1>1, <1>2, <1>3, <1>4, <1>5, MapPageMaps
<1> HIDE DEF r
<1>7. CASE r.err = "AlreadyMapped"
  <2>1. r.m = n
    BY <1>6, <1>7, NullAssumption DEF MapOutcome
  <2> QED
    BY <2>1 DEF r
<1>8. ASSUME NEW F, F = {} \/ F = {f}, Extended(n, r.m, mem, L, F)
      PROVE  Extended(m, r.m, mem, K, {f})
  <2>1. /\ r.m = [free |-> r.m.free, table |-> r.m.table] /\ r.m.free \subseteq m.free
        /\ Typed(r.m.table, mem)
    BY <1>1, <1>8 DEF Extended
  <2>2. PICK L2 : /\ Tree(r.m.table, L2)
                  /\ L2[1] = L[1] /\ L2[5] = L[5] \cup F
                  /\ L2[2] \cup L2[3] \cup L2[4] = L[2] \cup L[3] \cup L[4] \cup (n.free \ r.m.free)
    BY <1>8 DEF Extended
  <2>3. r.m.free \subseteq n.free
    BY <1>8 DEF Extended
  <2>4. /\ L2[1] = K[1] /\ L2[5] = K[5] \cup {f}
        /\ L2[2] \cup L2[3] \cup L2[4] = K[2] \cup K[3] \cup K[4] \cup (m.free \ r.m.free)
    BY <1>1, <1>2, <1>8, <2>2, <2>3
  <2> QED
    BY <2>1, <2>2, <2>4 DEF Extended
<1>9. CASE r.err = NULL
  <2>1. /\ Extended(n, r.m, mem, L, {f})
        /\ \A s \in L[1], u \in Page :
             \/ Lookup(r.m.table, s, u) = Lookup(n.table, s, u)
             \/ u = v /\ Lookup(n.table, s, u) = NULL /\ Lookup(r.m.table, s, u) = f
    BY <1>6, <1>9, NullAssumption DEF MapOutcome
  <2>2. Extended(m, r.m, mem, K, {f})
    BY <1>8, <2>1
  <2>3. \A s \in K[1], u \in Page :
          \/ Lookup(r.m.table, s, u) = Lookup(m.table, s, u)
          \/ u = v /\ Lookup(m.table, s, u) = NULL /\ Lookup(r.m.table, s, u) = f
    BY <1>1, <1>2, <2>1
  <2> QED
    BY <1>2, <2>1, <2>2, <2>3 DEF PageAdded, r
<1>10. CASE r.err = "OutOfMemory"
  <2>1. /\ Extended(n, r.m, mem, L, {})
        /\ \A s \in L[1], u \in Page : Lookup(r.m.table, s, u) = Lookup(n.table, s, u)
    BY <1>6, <1>10, NullAssumption DEF MapOutcome
  <2>2. Extended(m, r.m, mem, K, {f})
    BY <1>8, <2>1
  <2>3. \A s \in K[1], u \in Page :
          \/ Lookup(r.m.table, s, u) = Lookup(m.table, s, u)
          \/ u = v /\ Lookup(m.table, s, u) = NULL /\ Lookup(r.m.table, s, u) = f
    BY <1>1, <1>2, <2>1
  <2> QED
    BY <1>2, <2>1, <2>2, <2>3 DEF PageAdded, r
<1> QED
  BY <1>6, <1>7, <1>9, <1>10 DEF MapOutcome

\* What comes of page v when the loader maps it to the frame f: r from mapping it where it
\* was asked for, n the memory after mapping it for the kernel too.
LoadOutcome(r, n, f, v) ==
  \/ /\ r.err = "OutOfMemory"
     /\ Extended(Without(f), r.m, memory, Levels, {})
     /\ \A s \in Roots, u \in Page : Lookup(r.m.table, s, u) = Lookup(table, s, u)
  \/ r.err = "AlreadyMapped" /\ n = M /\ Lookup(table, load.root, v) # NULL
  \/ /\ r.err = NULL
     /\ Lookup(table, load.root, v) = NULL /\ Lookup(n.table, load.root, v) = f
     /\ Lookup(n.table, pml4, v) \in {NULL, f}
     /\ PageAdded(Without(f), n, memory, Levels, v, f)

\* A page that is mapped where it was asked for if and only if the kernel has it mapped.
LEMMA LoaderMaps ==
  ASSUME MemoryInOrder, load.root \in Roots, free # {}, NEW v \in Page,
         Lookup(table, load.root, v) = NULL <=> Lookup(table, pml4, v) = NULL
  PROVE  LET f == Lowest(free)
             r == MapProgramPage(f, v)
         IN  f \in free /\ LoadOutcome(r, MapForCopying(r.m, f, v), f, v)
<1> DEFINE f == Lowest(free)
           r == MapProgramPage(f, v)
           n == MapForCopying(r.m, f, v)
           m == Without(f)
           x == IF load.root = pml4 THEN mapPage(m, v, f) ELSE mapPageInPML4(m, load.root, v, f)
<1>1. f \in free
  BY MemoryFacts, LowestIn
<1> HIDE DEF f
<1>2. /\ m = [free |-> m.free, table |-> m.table]
      /\ m.free = free \ {f} /\ m.table = table
      /\ Typed(m.table, memory) /\ Tree(m.table, Levels)
      /\ m.free \subseteq memory /\ f \notin m.free
      /\ \A j \in 1 .. 5 : Levels[j] \cap m.free = {}
      /\ \A j \in 1 .. 4 : f \notin Levels[j]
      /\ f \in memory /\ [M EXCEPT !.free = @ \ {f}] = m
  BY <1>1, WithoutFacts
<1>3. /\ Levels[1] = Roots /\ Roots \subseteq Place /\ pml4 \in Roots /\ f # NULL
      /\ Typed(table, memory) /\ Tree(table, Levels) /\ free \subseteq memory
      /\ \A j \in 1 .. 5 : Levels[j] \cap free = {}
  <2>1. Levels[1] \subseteq Place
    BY MemoryFacts DEF Tree
  <2> QED
    BY <1>1, <2>1, MemoryFacts
<1> HIDE DEF m, Levels
<1>4. MapOutcome(x, m, memory, Levels, load.root, v, f)
  <2>1. CASE load.root = pml4
    <3>1. MapOutcome(mapPage(m, v, f), m, memory, Levels, pml4, v, f)
      BY <1>2, MapPageMaps
    <3> QED
      BY <2>1, <3>1
  <2>2. CASE load.root # pml4
    <3>1. load.root \in Levels[1]
      BY <1>3
    <3>2. MapOutcome(mapPageInPML4(m, load.root, v, f), m, memory, Levels, load.root, v, f)
      BY <1>2, <3>1, MapPageInPML4Maps
    <3> QED
      BY <2>2, <3>2
  <2> QED
    BY <2>1, <2>2
<1>5. r = IF x.err = "AlreadyMapped" THEN [x EXCEPT !.m = freePage(x.m, f)] ELSE x
  BY <1>2 DEF MapProgramPage
<1>6. CASE x.err = "AlreadyMapped"
  <2>1. x = [err |-> x.err, m |-> x.m] /\ x.m = m /\ Lookup(table, load.root, v) # NULL
    <3>1. x.m = m /\ Lookup(m.table, load.root, v) # NULL
      BY <1>4, <1>6, NullAssumption DEF MapOutcome
    <3>2. x = [err |-> x.err, m |-> x.m]
      BY DEF mapPage, mapPageInPML4, Mapped
    <3> QED
      BY <1>2, <3>1, <3>2
  <2> HIDE DEF x, r
  <2>2. r = [err |-> "AlreadyMapped", m |-> freePage(m, f)]
    BY <1>5, <1>6, <2>1
  <2>3. r.err = "AlreadyMapped" /\ r.m = M
    <3>1. freePage(m, f) = [free |-> m.free \cup {f}, table |-> table]
      BY <1>2, GivenBack
    <3>2. m.free \cup {f} = free
      BY <1>1, <1>2
    <3> QED
      BY <2>2, <3>1, <3>2 DEF M
  <2>4. n = M
    <3>1. CASE load.root = pml4
      BY <2>3, <3>1 DEF MapForCopying
    <3>2. CASE load.root # pml4
      <4>1. M = [free |-> M.free, table |-> M.table] /\ M.free = free /\ M.table = table
        BY DEF M
      <4>2. mapPage(M, v, f).m = M
        BY <1>3, <2>1, <4>1, MapPageAgain
      <4> QED
        BY <2>3, <3>2, <4>2 DEF MapForCopying
    <3> QED
      BY <3>1, <3>2
  <2> QED
    BY <1>1, <2>1, <2>3, <2>4 DEF LoadOutcome, f, r
<1>7. CASE x.err = "OutOfMemory"
  <2>1. /\ Extended(m, x.m, memory, Levels, {})
        /\ \A s \in Levels[1], u \in Page : Lookup(x.m.table, s, u) = Lookup(m.table, s, u)
    BY <1>4, <1>7, NullAssumption DEF MapOutcome
  <2> HIDE DEF x
  <2>2. r = x
    BY <1>5, <1>7
  <2>3. \A s \in Roots, u \in Page : Lookup(r.m.table, s, u) = Lookup(table, s, u)
    BY <1>2, <1>3, <2>1, <2>2
  <2> QED
    BY <1>1, <1>7, <2>1, <2>2, <2>3 DEF LoadOutcome, f, m
<1>8. CASE x.err = NULL
  <2>1. /\ Lookup(m.table, load.root, v) = NULL /\ Lookup(x.m.table, load.root, v) = f
        /\ PageAdded(m, x.m, memory, Levels, v, f)
    BY <1>4, <1>8, NullAssumption DEF MapOutcome, PageAdded
  <2> HIDE DEF x
  <2>2. r = x
    BY <1>5, <1>8, NullAssumption
  <2>3. PageAdded(m, n, memory, Levels, v, f) /\ Lookup(n.table, load.root, v) = f
    <3>1. CASE load.root = pml4
      BY <2>1, <2>2, <3>1 DEF MapForCopying
    <3>2. CASE load.root # pml4
      <4>1. n = mapPage(x.m, v, f).m
        BY <2>2, <3>2 DEF MapForCopying
      <4> HIDE DEF n
      <4>2. /\ PageAdded(m, mapPage(x.m, v, f).m, memory, Levels, v, f)
            /\ \A s \in Levels[1] : Lookup(x.m.table, s, v) # NULL =>
                 Lookup(mapPage(x.m, v, f).m.table, s, v) = Lookup(x.m.table, s, v)
        <5> DEFINE n1 == x.m
        <5>1. Levels[1] \subseteq Place /\ PageAdded(m, n1, memory, Levels, v, f)
          BY <1>3, <2>1
        <5> HIDE DEF n1
        <5>2. /\ PageAdded(m, mapPage(n1, v, f).m, memory, Levels, v, f)
              /\ \A s \in Levels[1] : Lookup(n1.table, s, v) # NULL =>
                   Lookup(mapPage(n1, v, f).m.table, s, v) = Lookup(n1.table, s, v)
          <6> DEFINE mem == memory
                     K == Levels
          <6>1. /\ f \in mem /\ m.free \subseteq mem /\ \A j \in 1 .. 5 : K[j] \cap m.free = {}
                /\ f \notin m.free /\ \A j \in 1 .. 4 : f \notin K[j]
                /\ K[1] \subseteq Place /\ PageAdded(m, n1, mem, K, v, f) /\ v \in Page
            BY <1>2, <5>1
          <6> HIDE DEF mem, K
          <6>2. PageAdded(m, mapPage(n1, v, f).m, mem, K, v, f)
            BY ONLY <6>1, MapsForKernel
          <6>3. \A s \in K[1] : Lookup(n1.table, s, v) # NULL =>
                   Lookup(mapPage(n1, v, f).m.table, s, v) = Lookup(n1.table, s, v)
            BY ONLY <6>1, MapsForKernel
          <6> QED
            BY <6>2, <6>3 DEF mem, K
        <5> QED
          BY <5>2 DEF n1
      <4> QED
        BY <1>3, <2>1, <4>1, <4>2
    <3> QED
      BY <3>1, <3>2
  <2> HIDE DEF n, r
  <2>4. Lookup(n.table, pml4, v) \in {NULL, f}
    <3>1. Lookup(table, pml4, v) = NULL
      BY <1>2, <2>1
    <3> QED
      BY <1>2, <1>3, <2>3, <3>1 DEF PageAdded
  <2> QED
    BY <1>1, <1>2, <1>8, <2>1, <2>2, <2>3, <2>4 DEF LoadOutcome, f, m, n, r
<1> QED
  BY <1>4, <1>6, <1>7, <1>8 DEF MapOutcome

\* A load fails and every page is where it was; or its page is mapped already and nothing
\* changes; or it is mapped now, to a frame that was free.
LoadEffect(v) ==
  \/ /\ load' = NULL /\ refused' = refused \cup {load.program} /\ content' = content
     /\ \A s \in Roots, u \in Page : Lookup(table', s, u) = Lookup(table, s, u)
  \/ /\ load' = [load EXCEPT !.page = @ + 1] /\ refused' = refused
     /\ Lookup(table, load.root, v) # NULL
     /\ table' = table /\ content' = content
  \/ /\ load' = [load EXCEPT !.page = @ + 1] /\ refused' = refused
     /\ \E f \in free :
          /\ content' = [content EXCEPT ![f] = {}]
          /\ Lookup(table, load.root, v) = NULL /\ Lookup(table', load.root, v) = f
          /\ Lookup(table', pml4, v) \in {NULL, f}
          /\ \A s \in Roots, u \in Page :
               \/ Lookup(table', s, u) = Lookup(table, s, u)
               \/ u = v /\ Lookup(table, s, u) = NULL /\ Lookup(table', s, u) = f

\* A load's step on its page.
LEMMA LoadPageMaps ==
  ASSUME MemoryInOrder, LoadPage, load.root \in Roots, NEW v \in Page, v = Segment[load.page],
         Lookup(table, load.root, v) = NULL <=> Lookup(table, pml4, v) = NULL
  PROVE  MemoryInOrder' /\ LoadEffect(v)
<1> DEFINE f == Lowest(free)
           r == MapProgramPage(f, v)
           n == MapForCopying(r.m, f, v)
<1>1. /\ phase = "up" /\ UNCHANGED <<memory, others, phase, roots>>
      /\ IF free = {} THEN Fail /\ UNCHANGED <<free, table, content, dropped>>
         ELSE IF r.err = "OutOfMemory"
         THEN MemoryBecomes(r.m) /\ dropped' = dropped \cup {f} /\ Fail /\ UNCHANGED content
         ELSE /\ MemoryBecomes(n)
              /\ content' = IF r.err = NULL THEN [content EXCEPT ![f] = {}] ELSE content
              /\ load' = [load EXCEPT !.page = @ + 1]
              /\ UNCHANGED <<refused, dropped>>
  BY DEF LoadPage
<1>2. CASE free = {}
  <2>1. UNCHANGED <<free, table, content, dropped>> /\ Fail
    BY <1>1, <1>2
  <2>2. MemoryInOrder'
    BY <1>1, <2>1, MemoryStays
  <2>3. LoadEffect(v)
    BY <2>1 DEF LoadEffect, Fail
  <2> QED
    BY <2>2, <2>3
<1>3. CASE free # {}
  <2>1. f \in free /\ LoadOutcome(r, n, f, v)
    BY <1>3, LoaderMaps
  <2>2. /\ Levels[1] = Roots /\ pml4 \in Roots /\ f # NULL
    BY <2>1, MemoryFacts
  <2>3. Without(f) = [free |-> free \ {f}, table |-> table] /\ Without(f).table = table
        /\ Without(f).free = free \ {f}
    BY DEF Without
  <2> HIDE DEF f, r, n, Levels
  <2>4. CASE r.err = "OutOfMemory"
    <3>1. /\ free' = r.m.free /\ table' = r.m.table
          /\ dropped' = dropped \cup {f} /\ Fail /\ content' = content
      BY <1>1, <1>3, <2>4 DEF MemoryBecomes
    <3>2. /\ Extended(Without(f), r.m, memory, Levels, {})
          /\ \A s \in Roots, u \in Page : Lookup(table', s, u) = Lookup(table, s, u)
      BY <2>1, <2>4, <3>1, NullAssumption DEF LoadOutcome
    <3>3. KernelPagesApart'
      BY <2>1, <2>2, <3>2, KernelPagesStayApart
    <3>4. MemoryInOrder'
      <4>1. {f} \in SUBSET {f} /\ {} \in SUBSET {f} /\ free' = (r.m.free \cup {f}) \ ({} \cup {f})
        <5>1. r.m.free \subseteq free \ {f}
          BY <2>3, <3>2 DEF Extended
        <5> QED
          BY <3>1, <5>1
      <4>2. Extended([free |-> free \ {f}, table |-> table], r.m, memory, Levels, {})
        BY <2>3, <3>2
      <4> QED
        BY <1>1, <2>1, <3>1, <3>3, <4>1, <4>2, MemoryGrows
    <3> QED
      BY <3>1, <3>2, <3>4 DEF LoadEffect, Fail
  <2>5. CASE r.err # "OutOfMemory"
    <3>1. /\ free' = n.free /\ table' = n.table /\ dropped' = dropped
          /\ load' = [load EXCEPT !.page = @ + 1] /\ refused' = refused
          /\ content' = IF r.err = NULL THEN [content EXCEPT ![f] = {}] ELSE content
      BY <1>1, <1>3, <2>5 DEF MemoryBecomes
    <3>2. CASE r.err = "AlreadyMapped"
      <4>1. n = M /\ Lookup(table, load.root, v) # NULL
        BY <2>1, <3>2, NullAssumption DEF LoadOutcome
      <4>2. free' = free /\ table' = table /\ content' = content
        BY <3>1, <3>2, <4>1, NullAssumption DEF M
      <4>3. MemoryInOrder'
        BY <1>1, <3>1, <4>2, MemoryStays
      <4>4. LoadEffect(v)
        BY <3>1, <4>1, <4>2 DEF LoadEffect
      <4> QED
        BY <4>3, <4>4
    <3>3. CASE r.err = NULL
      <4>1. /\ Lookup(table, load.root, v) = NULL /\ Lookup(table', load.root, v) = f
            /\ Lookup(table', pml4, v) \in {NULL, f}
            /\ PageAdded(Without(f), n, memory, Levels, v, f)
        BY <2>1, <3>1, <3>3, NullAssumption DEF LoadOutcome
      <4>2. \A s \in Roots, u \in Page :
              \/ Lookup(table', s, u) = Lookup(table, s, u)
              \/ u = v /\ Lookup(table, s, u) = NULL /\ Lookup(table', s, u) = f
        BY <2>2, <2>3, <3>1, <4>1 DEF PageAdded
      <4>3. KernelPagesApart'
        BY <2>1, <2>2, <4>2, KernelPagesStayApart
      <4>4. MemoryInOrder'
        <5>1. Extended([free |-> free \ {f}, table |-> table], n, memory, Levels, {f})
          BY <2>3, <4>1 DEF PageAdded
        <5>2. {f} \in SUBSET {f} /\ {} \in SUBSET {f} /\ free' = (n.free \cup {f}) \ ({f} \cup {})
              /\ dropped' = dropped \cup {}
          <6>1. n.free \subseteq free \ {f}
            BY <5>1 DEF Extended
          <6> QED
            BY <3>1, <6>1
        <5> QED
          BY <1>1, <2>1, <3>1, <4>3, <5>1, <5>2, MemoryGrows
      <4>5. LoadEffect(v)
        BY <2>1, <3>1, <3>3, <4>1, <4>2 DEF LoadEffect
      <4> QED
        BY <4>4, <4>5
    <3> QED
      BY <2>1, <2>5, <3>2, <3>3 DEF LoadOutcome
  <2> QED
    BY <2>4, <2>5
<1> QED
  BY <1>2, <1>3

------------------------------------------------------------------------------
(* Programs. *)

\* The pages of programs are pages, in sequences.
LEMMA ProgramPages ==
  /\ \A p \in Program :
       /\ Segments[p] \in Seq(Seq(Page)) /\ Len(Segments[p]) \in Nat /\ 1 \in DOMAIN Segments[p]
       /\ DOMAIN Segments[p] = 1 .. Len(Segments[p])
  /\ \A p \in Program : \A s \in DOMAIN Segments[p] :
       /\ Segments[p][s] \in Seq(Page) /\ Len(Segments[p][s]) \in Nat
       /\ DOMAIN Segments[p][s] = 1 .. Len(Segments[p][s])
  /\ \A p \in Program : \A s \in DOMAIN Segments[p] : \A i \in DOMAIN Segments[p][s] :
       Segments[p][s][i] \in Page
<1>1. ASSUME NEW p \in Program
      PROVE  /\ Segments[p] \in Seq(Seq(Page)) /\ Len(Segments[p]) \in Nat
             /\ 1 \in DOMAIN Segments[p] /\ DOMAIN Segments[p] = 1 .. Len(Segments[p])
  <2>1. Segments[p] \in Seq(Seq(Page)) /\ Segments[p] # << >>
    BY ProgramsAssumption
  <2> QED
    BY <2>1
<1>2. ASSUME NEW p \in Program, NEW s \in DOMAIN Segments[p]
      PROVE  /\ Segments[p][s] \in Seq(Page) /\ Len(Segments[p][s]) \in Nat
             /\ DOMAIN Segments[p][s] = 1 .. Len(Segments[p][s])
  <2>1. Segments[p][s] \in Seq(Page)
    BY <1>1
  <2> QED
    BY <2>1
<1>3. ASSUME NEW p \in Program, NEW s \in DOMAIN Segments[p], NEW i \in DOMAIN Segments[p][s]
      PROVE  Segments[p][s][i] \in Page
  BY <1>2
<1> QED
  BY <1>1, <1>2, <1>3

\* The load that runs is one of a program.
LEMMA LoadFacts ==
  ASSUME LoadInOrder, load # NULL
  PROVE  /\ load = [program |-> load.program, root |-> load.root, segment |-> load.segment,
                    page |-> load.page]
         /\ load.program \in Program /\ load.root \in Roots
         /\ load.segment \in DOMAIN Segments[load.program] /\ load.segment \in Nat
         /\ load.segment >= 1 /\ load.segment <= Len(Segments[load.program])
         /\ load.page \in Nat /\ load.page >= 1 /\ load.page <= Len(Segment) + 1
         /\ Len(Segment) \in Nat /\ DOMAIN Segment = 1 .. Len(Segment)
         /\ Segment = Segments[load.program][load.segment]
         /\ \A i \in 1 .. Len(Segment) : Segment[i] \in Page
         /\ \A i, j \in 1 .. Len(Segment) : Segment[i] = Segment[j] => i = j
<1>1. /\ load \in [program : Program, root : Roots, segment : Nat, page : Nat]
      /\ load.segment \in DOMAIN Segments[load.program]
      /\ load.page \in 1 .. Len(Segment) + 1
  BY DEF LoadInOrder
<1>2. load.program \in Program /\ load.root \in Roots /\ load.segment \in Nat /\ load.page \in Nat
  BY <1>1
<1>3. load.segment >= 1 /\ load.segment <= Len(Segments[load.program])
  BY <1>1, <1>2, ProgramPages
<1>4. Segment = Segments[load.program][load.segment]
  BY DEF Segment
<1>5. Len(Segment) \in Nat /\ DOMAIN Segment = 1 .. Len(Segment)
  BY <1>1, <1>2, <1>4, ProgramPages
<1>6. \A i \in 1 .. Len(Segment) : Segment[i] \in Page
  BY <1>1, <1>2, <1>4, <1>5, ProgramPages
<1>7. \A i, j \in 1 .. Len(Segment) : Segment[i] = Segment[j] => i = j
  BY <1>1, <1>2, <1>4, <1>5, ProgramsAssumption
<1>8. load.page >= 1 /\ load.page <= Len(Segment) + 1
  BY <1>1, <1>2, <1>5
<1>9. load = [program |-> load.program, root |-> load.root, segment |-> load.segment,
              page |-> load.page]
  BY <1>1
<1> QED
  BY <1>1, <1>2, <1>3, <1>4, <1>5, <1>6, <1>7, <1>8, <1>9

\* What the programs' loads have come to stays if pages stay where they are mapped, a page
\* is mapped for all address spaces alike, and new ones have what the kernel has.
LEMMA PagesKept ==
  ASSUME LoadInOrder, PagesBegin, PagesLoading, PagesLoaded, memory' = memory,
         UNCHANGED <<load, content, loaded, refused>>, roots \subseteq roots',
         \A s \in Roots, u \in Page : Lookup(table, s, u) \in {NULL, Lookup(table', s, u)},
         \A u \in Page : \/ \A s \in Roots : Lookup(table', s, u) = Lookup(table, s, u)
                         \/ \A s \in Roots' : Lookup(table', s, u) = Lookup(table', pml4, u),
         \A s \in roots' \ roots, u \in Page : Lookup(table', s, u) = Lookup(table', pml4, u)
  PROVE  LoadInOrder' /\ PagesBegin' /\ PagesLoading' /\ PagesLoaded'
<1>1. /\ load' = load /\ content' = content /\ loaded' = loaded /\ refused' = refused
      /\ Roots \subseteq Roots' /\ pml4 \in Roots /\ roots \subseteq Roots
      /\ roots' \subseteq Roots'
  BY DEF Roots
<1>2. Segment' = Segment
  BY <1>1 DEF Segment
<1>3. LoadInOrder'
  <2>1. load # NULL => load \in [program : Program, root : Roots', segment : Nat, page : Nat]
    BY <1>1 DEF LoadInOrder
  <2>2. \A l \in loaded : l \in [program : Program, root : Roots', before : SUBSET memory]
    BY <1>1 DEF LoadInOrder
  <2> QED
    BY <1>1, <1>2, <2>1, <2>2 DEF LoadInOrder
<1>4. \A u \in Page : Same(u) => Same(u)'
  <2>1. SUFFICES ASSUME NEW u \in Page, Same(u), NEW s \in roots'
                 PROVE  Lookup(table', s, u) = Lookup(table', pml4, u)
    BY DEF Same, Translate
  <2>2. CASE s \notin roots
    BY <2>2
  <2>3. CASE s \in roots
    <3>1. Lookup(table, s, u) = Lookup(table, pml4, u)
      BY <2>1, <2>3 DEF Same, Translate
    <3> QED
      BY <1>1, <2>3, <3>1
  <2> QED
    BY <2>2, <2>3
<1>5. PagesBegin'
  <2>1. \A p : Begun(p)' = Begun(p)
    BY <1>1 DEF Begun
  <2>2. \A u : Reached(u)' = Reached(u)
    BY <1>1, <1>2 DEF Reached
  <2>3. \A p \in Program : ~ Begun(p)' =>
          \A s \in DOMAIN Segments[p] : \A i \in DOMAIN Segments[p][s] : Same(Segments[p][s][i])'
    BY <1>4, <2>1, ProgramPages DEF PagesBegin
  <2>4. load # NULL =>
          \A s \in DOMAIN Segments[load.program] : \A i \in DOMAIN Segments[load.program][s] :
            Reached(Segments[load.program][s][i])' \/ Same(Segments[load.program][s][i])'
    BY <1>4, <2>2, ProgramPages, LoadFacts DEF PagesBegin
  <2> QED
    BY <1>1, <2>3, <2>4 DEF PagesBegin
<1>6. ASSUME NEW s \in Roots, NEW u \in Page, Lookup(table, pml4, u) # NULL,
             Lookup(table, s, u) = Lookup(table, pml4, u)
      PROVE  /\ Lookup(table', pml4, u) = Lookup(table, pml4, u)
             /\ Lookup(table', s, u) = Lookup(table', pml4, u)
  BY <1>1, <1>6
<1>7. PagesLoading'
  <2>1. SUFFICES ASSUME load # NULL PROVE PagesLoading'
    BY <1>1 DEF PagesLoading
  <2>2. load.root \in Roots /\ load.program \in Program
    BY <2>1, LoadFacts
  <2>3. ASSUME NEW i \in 1 .. load.page - 1
        PROVE  /\ Lookup(table', load.root, Segment[i]) # NULL
               /\ Lookup(table', pml4, Segment[i]) \in {NULL, Lookup(table', load.root, Segment[i])}
    <3>1. Segment[i] \in Page
      BY <2>1, LoadFacts
    <3>2. /\ Lookup(table, load.root, Segment[i]) # NULL
          /\ Lookup(table, pml4, Segment[i]) \in {NULL, Lookup(table, load.root, Segment[i])}
      BY <2>1 DEF PagesLoading, Translate
    <3> QED
      BY <1>1, <2>2, <3>1, <3>2
  <2>4. ASSUME NEW s \in 1 .. load.segment - 1, NEW i \in DOMAIN Segments[load.program][s]
        PROVE  LET v == Segments[load.program][s][i]
               IN  /\ Lookup(table', pml4, v) # NULL
                   /\ Lookup(table', load.root, v) = Lookup(table', pml4, v)
                   /\ <<load.program, s>> \in content[Lookup(table', pml4, v)]
    <3> DEFINE v == Segments[load.program][s][i]
    <3>1. v \in Page
      <4>1. s \in DOMAIN Segments[load.program]
        BY <2>1, LoadFacts, ProgramPages
      <4> QED
        BY <2>2, <4>1, ProgramPages
    <3>2. /\ Lookup(table, pml4, v) # NULL
          /\ Lookup(table, load.root, v) = Lookup(table, pml4, v)
          /\ <<load.program, s>> \in content[Lookup(table, pml4, v)]
      BY <2>1 DEF PagesLoading, Translate
    <3> HIDE DEF v
    <3>3. /\ Lookup(table', pml4, v) = Lookup(table, pml4, v)
          /\ Lookup(table', load.root, v) = Lookup(table', pml4, v)
      BY <1>6, <2>2, <3>1, <3>2
    <3> QED
      BY <3>2, <3>3 DEF v
  <2> QED
    BY <1>1, <1>2, <2>3, <2>4 DEF PagesLoading, Translate
<1>8. PagesLoaded'
  <2>1. SUFFICES ASSUME NEW l \in loaded, NEW s \in DOMAIN Segments[l.program],
                        NEW i \in DOMAIN Segments[l.program][s]
                 PROVE  LET v == Segments[l.program][s][i]
                        IN  /\ Lookup(table', pml4, v) # NULL
                            /\ \A root \in SpacesOf(l)' : Lookup(table', root, v) = Lookup(table', pml4, v)
                            /\ <<l.program, s>> \in content[Lookup(table', pml4, v)]
    BY <1>1 DEF PagesLoaded, Translate
  <2> DEFINE v == Segments[l.program][s][i]
  <2>2. l.root \in Roots /\ l.program \in Program
    BY DEF LoadInOrder
  <2>3. v \in Page
    BY <2>2, ProgramPages
  <2>4. /\ Lookup(table, pml4, v) # NULL
        /\ \A root \in SpacesOf(l) : Lookup(table, root, v) = Lookup(table, pml4, v)
        /\ <<l.program, s>> \in content[Lookup(table, pml4, v)]
    BY DEF PagesLoaded, Translate
  <2> HIDE DEF v
  <2>5. Lookup(table', pml4, v) = Lookup(table, pml4, v)
    BY <1>1, <1>6, <2>3, <2>4
  <2>6. ASSUME NEW root \in SpacesOf(l)' PROVE Lookup(table', root, v) = Lookup(table', pml4, v)
    <3>1. root \in SpacesOf(l) \/ root \in roots' \ roots
      BY DEF SpacesOf
    <3>2. SpacesOf(l) \subseteq Roots
      BY <1>1, <2>2 DEF SpacesOf
    <3> QED
      BY <1>6, <2>3, <2>4, <3>1, <3>2
  <2> QED
    BY <2>4, <2>5, <2>6 DEF v
<1> QED
  BY <1>3, <1>5, <1>7, <1>8

\* The next page of a load is where it is asked for what it is for the kernel.
LEMMA NextPage ==
  ASSUME LoadInOrder, PagesBegin, PagesLoading, load # NULL, load.page <= Len(Segment)
  PROVE  /\ Segment[load.page] \in Page
         /\ Lookup(table, load.root, Segment[load.page]) = Lookup(table, pml4, Segment[load.page])
<1> DEFINE v == Segment[load.page]
<1>1. load.page \in 1 .. Len(Segment) /\ load.page \in DOMAIN Segment
  BY LoadFacts
<1>2. v \in Page
  BY <1>1, LoadFacts
<1>3. v = Segments[load.program][load.segment][load.page]
      /\ load.page \in DOMAIN Segments[load.program][load.segment]
      /\ load.segment \in DOMAIN Segments[load.program]
  BY <1>1, LoadFacts
<1>4. Reached(v) \/ Same(v)
  BY <1>3 DEF PagesBegin
<1>5. ASSUME NEW j \in 1 .. load.page - 1 PROVE v # Segment[j]
  <2>1. j \in 1 .. Len(Segment) /\ j # load.page
    BY LoadFacts
  <2> QED
    BY <1>1, <2>1, LoadFacts
<1>6. CASE Same(v)
  <2>1. load.root \in roots \/ load.root = pml4
    BY LoadFacts DEF Roots
  <2> QED
    BY <1>2, <1>6, <2>1 DEF Same, Translate
<1>7. CASE Reached(v)
  <2>1. PICK t \in 1 .. load.segment - 1 : \E j \in DOMAIN Segments[load.program][t] :
          v = Segments[load.program][t][j]
    BY <1>5, <1>7 DEF Reached
  <2>2. PICK j \in DOMAIN Segments[load.program][t] : v = Segments[load.program][t][j]
    BY <2>1
  <2>3. Translate(load.root, Segments[load.program][t][j])
          = Translate(pml4, Segments[load.program][t][j])
    BY DEF PagesLoading
  <2> QED
    BY <1>2, <2>2, <2>3 DEF Translate
<1> QED
  BY <1>4, <1>6, <1>7

\* What a page of a load comes to leaves programs in order.
LEMMA ProgramPageLoaded ==
  ASSUME ProgramsApart, MemoryInOrder, LoadInOrder, PagesBegin, PagesLoading, PagesLoaded,
         content \in [Frame -> SUBSET (Program \X Nat)],
         load # NULL, load.page <= Len(Segment), NEW v, v = Segment[load.page], LoadEffect(v),
         UNCHANGED <<memory, roots, loaded>>
  PROVE  LoadInOrder' /\ PagesBegin' /\ PagesLoading' /\ PagesLoaded'
<1>1. /\ Roots' = Roots /\ loaded' = loaded /\ roots' = roots /\ memory' = memory
      /\ roots \subseteq Roots /\ pml4 \in Roots
      /\ \A l : SpacesOf(l)' = SpacesOf(l)
  BY DEF Roots, SpacesOf
<1>2. \A l \in loaded : l.root \in Roots /\ l.program \in Program /\ SpacesOf(l) \subseteq Roots
  BY <1>1 DEF LoadInOrder, SpacesOf
<1>3. \A u \in Page : (\A s \in Roots : Lookup(table', s, u) = Lookup(table, s, u)) =>
                        (Same(u) => Same(u)')
  BY <1>1 DEF Same, Translate
<1>4. \A l \in loaded : l \in [program : Program, root : Roots', before : SUBSET memory']
  BY <1>1 DEF LoadInOrder
<1>5. CASE /\ load' = NULL /\ refused' = refused \cup {load.program} /\ content' = content
           /\ \A s \in Roots, u \in Page : Lookup(table', s, u) = Lookup(table, s, u)
  <2>1. LoadInOrder'
    BY <1>1, <1>4, <1>5 DEF LoadInOrder
  <2>2. \A p : Begun(p) => Begun(p)'
    BY <1>1, <1>5 DEF Begun
  <2>3. PagesBegin'
    BY <1>3, <1>5, <2>2, ProgramPages DEF PagesBegin
  <2>4. PagesLoading'
    BY <1>5 DEF PagesLoading
  <2>5. PagesLoaded'
    <3>1. SUFFICES ASSUME NEW l \in loaded, NEW s \in DOMAIN Segments[l.program],
                          NEW i \in DOMAIN Segments[l.program][s]
                   PROVE  LET u == Segments[l.program][s][i]
                          IN  /\ Lookup(table', pml4, u) # NULL
                              /\ \A root \in SpacesOf(l) : Lookup(table', root, u) = Lookup(table', pml4, u)
                              /\ <<l.program, s>> \in content[Lookup(table', pml4, u)]
      BY <1>1, <1>5 DEF PagesLoaded, Translate
    <3>2. Segments[l.program][s][i] \in Page
      BY <1>2, ProgramPages
    <3> QED
      BY <1>1, <1>2, <1>5, <3>2 DEF PagesLoaded, Translate
  <2> QED
    BY <2>1, <2>3, <2>4, <2>5
<1>6. ASSUME load' = [load EXCEPT !.page = @ + 1], refused' = refused,
             \A s \in Roots, u \in Page : Lookup(table, s, u) \in {NULL, Lookup(table', s, u)},
             \A s \in Roots, u \in Page : u = v \/ Lookup(table', s, u) = Lookup(table, s, u),
             \A g \in Mapping : content'[g] = content[g],
             Lookup(table', load.root, v) # NULL,
             Lookup(table', pml4, v) \in {NULL, Lookup(table', load.root, v)}
      PROVE  LoadInOrder' /\ PagesBegin' /\ PagesLoading' /\ PagesLoaded'
  <2>1. /\ load'.program = load.program /\ load'.root = load.root
        /\ load'.segment = load.segment /\ load'.page = load.page + 1
        /\ load' = [program |-> load'.program, root |-> load'.root, segment |-> load'.segment,
                    page |-> load'.page]
    BY <1>6, LoadFacts
  <2>2. Segment' = Segment
    BY <2>1 DEF Segment
  <2>3. /\ load.program \in Program /\ load.root \in Roots
        /\ load.segment \in DOMAIN Segments[load.program] /\ load.segment \in Nat
        /\ load.segment >= 1 /\ load.segment <= Len(Segments[load.program])
        /\ load.page \in Nat /\ load.page >= 1 /\ Len(Segment) \in Nat
        /\ DOMAIN Segment = 1 .. Len(Segment)
        /\ Segment = Segments[load.program][load.segment]
    BY LoadFacts
  <2>4. load' # NULL /\ load' \in [program : Program, root : Roots', segment : Nat, page : Nat]
    <3>1. load' \in [program : Program, root : Roots, segment : Nat, page : Nat]
      BY <2>1, <2>3
    <3>2. Roots \subseteq Nat
      BY MemoryFacts
    <3>3. load' \in [program : Program, root : Nat, segment : Nat, page : Nat]
      BY <3>1, <3>2
    <3> QED
      BY <1>1, <3>1, <3>3, LoadAssumption
  <2>5. LoadInOrder'
    <3>1. load'.page \in 1 .. Len(Segment') + 1
      BY <2>1, <2>2, <2>3
    <3>2. load'.segment \in DOMAIN Segments[load'.program]
          /\ load'.program \notin {l.program : l \in loaded'} \cup refused'
      BY <1>1, <1>6, <2>1, <2>3 DEF LoadInOrder
    <3> QED
      BY <1>1, <1>4, <2>4, <3>1, <3>2 DEF LoadInOrder
  <2>6. \A p : Begun(p)' = Begun(p)
    BY <1>1, <1>6, <2>1, <2>4 DEF Begun
  <2>7. \A u : Reached(u) => Reached(u)'
    <3>1. 1 .. load.page - 1 \subseteq 1 .. load'.page - 1
      BY <2>1, <2>3
    <3> QED
      BY <2>1, <2>2, <3>1 DEF Reached
  <2>8. Reached(v)'
    <3>1. load.page \in 1 .. load'.page - 1
      BY <2>1, <2>3
    <3> QED
      BY <2>2, <3>1 DEF Reached
  <2>9. \A p \in Program : ~ Begun(p)' =>
          \A s \in DOMAIN Segments[p] : \A i \in DOMAIN Segments[p][s] : Same(Segments[p][s][i])'
    <3>1. SUFFICES ASSUME NEW p \in Program, ~ Begun(p), NEW s \in DOMAIN Segments[p],
                          NEW i \in DOMAIN Segments[p][s]
                   PROVE  Same(Segments[p][s][i])'
      BY <2>6
    <3>2. p # load.program
      BY <3>1 DEF Begun
    <3>3. Segments[p][s][i] # v
      <4>1. v = Segments[load.program][load.segment][load.page]
            /\ load.page \in DOMAIN Segments[load.program][load.segment]
        BY <2>3
      <4> QED
        BY <2>3, <3>2, <4>1 DEF ProgramsApart
    <3>4. Same(Segments[p][s][i]) /\ Segments[p][s][i] \in Page
      BY <3>1, ProgramPages DEF PagesBegin
    <3> QED
      BY <1>3, <1>6, <3>3, <3>4
  <2>10. \A s \in DOMAIN Segments[load.program] : \A i \in DOMAIN Segments[load.program][s] :
           \A u \in Page : u = Segments[load.program][s][i] => Reached(u)' \/ Same(u)'
    <3>1. SUFFICES ASSUME NEW s \in DOMAIN Segments[load.program],
                          NEW i \in DOMAIN Segments[load.program][s],
                          NEW u \in Page, u = Segments[load.program][s][i]
                   PROVE  Reached(u)' \/ Same(u)'
      OBVIOUS
    <3>2. Reached(u) \/ Same(u)
      BY <3>1 DEF PagesBegin
    <3>3. CASE Reached(u)
      BY <2>7, <3>3
    <3>4. CASE u = v
      BY <2>8, <3>4
    <3>5. CASE Same(u) /\ u # v
      BY <1>3, <1>6, <3>5
    <3> QED
      BY <3>2, <3>3, <3>4, <3>5
  <2>11. PagesBegin'
    <3>1. \A s \in DOMAIN Segments[load'.program] : \A i \in DOMAIN Segments[load'.program][s] :
            Segments[load'.program][s][i] \in Page
      BY <2>1, <2>3, ProgramPages
    <3> QED
      BY <2>1, <2>9, <2>10, <3>1 DEF PagesBegin
  <2>12. \A s \in Roots, u \in Page : Lookup(table, s, u) \in Mapping \cup {NULL}
    BY MemoryFacts
  <2>13. PagesLoading'
    <3>1. ASSUME NEW i \in 1 .. load'.page - 1
          PROVE  /\ Lookup(table', load.root, Segment[i]) # NULL
                 /\ Lookup(table', pml4, Segment[i]) \in {NULL, Lookup(table', load.root, Segment[i])}
      <4>1. CASE i = load.page
        BY <1>6, <4>1
      <4>2. CASE i # load.page
        <5>1. i \in 1 .. load.page - 1 /\ i \in 1 .. Len(Segment) /\ load.page \in 1 .. Len(Segment)
          BY <2>1, <2>3, <4>2
        <5>2. Segment[i] \in Page /\ Segment[i] # v
          BY <4>2, <5>1, LoadFacts
        <5>3. /\ Lookup(table, load.root, Segment[i]) # NULL
              /\ Lookup(table, pml4, Segment[i]) \in {NULL, Lookup(table, load.root, Segment[i])}
          BY <5>1 DEF PagesLoading, Translate
        <5> QED
          BY <1>1, <1>6, <2>3, <5>2, <5>3
      <4> QED
        BY <4>1, <4>2
    <3>2. ASSUME NEW s \in 1 .. load.segment - 1, NEW i \in DOMAIN Segments[load.program][s]
          PROVE  LET u == Segments[load.program][s][i]
                 IN  /\ Lookup(table', pml4, u) # NULL
                     /\ Lookup(table', load.root, u) = Lookup(table', pml4, u)
                     /\ <<load.program, s>> \in content'[Lookup(table', pml4, u)]
      <4> DEFINE u == Segments[load.program][s][i]
      <4>1. u \in Page
        <5>1. s \in DOMAIN Segments[load.program]
          BY <2>3, ProgramPages
        <5> QED
          BY <2>3, <5>1, ProgramPages
      <4>2. /\ Lookup(table, pml4, u) # NULL
            /\ Lookup(table, load.root, u) = Lookup(table, pml4, u)
            /\ <<load.program, s>> \in content[Lookup(table, pml4, u)]
        BY DEF PagesLoading, Translate
      <4> HIDE DEF u
      <4>3. /\ Lookup(table', pml4, u) = Lookup(table, pml4, u)
            /\ Lookup(table', load.root, u) = Lookup(table, pml4, u)
        BY <1>1, <1>6, <2>3, <4>1, <4>2
      <4>4. Lookup(table, pml4, u) \in Mapping
        BY <1>1, <2>12, <4>1, <4>2
      <4> QED
        BY <1>6, <4>2, <4>3, <4>4 DEF u
    <3> QED
      BY <2>1, <2>2, <3>1, <3>2 DEF PagesLoading, Translate
  <2>14. PagesLoaded'
    <3>1. SUFFICES ASSUME NEW l \in loaded, NEW s \in DOMAIN Segments[l.program],
                          NEW i \in DOMAIN Segments[l.program][s]
                   PROVE  LET u == Segments[l.program][s][i]
                          IN  /\ Lookup(table', pml4, u) # NULL
                              /\ \A root \in SpacesOf(l) : Lookup(table', root, u) = Lookup(table', pml4, u)
                              /\ <<l.program, s>> \in content'[Lookup(table', pml4, u)]
      BY <1>1 DEF PagesLoaded, Translate
    <3> DEFINE u == Segments[l.program][s][i]
    <3>2. u \in Page
      BY <1>2, ProgramPages
    <3>3. /\ Lookup(table, pml4, u) # NULL
          /\ \A root \in SpacesOf(l) : Lookup(table, root, u) = Lookup(table, pml4, u)
          /\ <<l.program, s>> \in content[Lookup(table, pml4, u)]
      BY DEF PagesLoaded, Translate
    <3> HIDE DEF u
    <3>4. /\ Lookup(table', pml4, u) = Lookup(table, pml4, u)
          /\ \A root \in SpacesOf(l) : Lookup(table', root, u) = Lookup(table, pml4, u)
      BY <1>1, <1>2, <1>6, <3>2, <3>3
    <3>5. Lookup(table, pml4, u) \in Mapping
      BY <1>1, <2>12, <3>2, <3>3
    <3> QED
      BY <1>6, <3>3, <3>4, <3>5 DEF u
  <2> QED
    BY <2>5, <2>11, <2>13, <2>14
<1>7. v \in Page /\ Lookup(table, load.root, v) = Lookup(table, pml4, v) /\ load.root \in Roots
  BY NextPage, LoadFacts
<1>8. CASE /\ load' = [load EXCEPT !.page = @ + 1] /\ refused' = refused
           /\ Lookup(table, load.root, v) # NULL /\ table' = table /\ content' = content
  BY <1>6, <1>7, <1>8
<1>9. CASE /\ load' = [load EXCEPT !.page = @ + 1] /\ refused' = refused
           /\ \E f \in free :
                /\ content' = [content EXCEPT ![f] = {}]
                /\ Lookup(table, load.root, v) = NULL /\ Lookup(table', load.root, v) = f
                /\ Lookup(table', pml4, v) \in {NULL, f}
                /\ \A s \in Roots, u \in Page :
                     \/ Lookup(table', s, u) = Lookup(table, s, u)
                     \/ u = v /\ Lookup(table, s, u) = NULL /\ Lookup(table', s, u) = f
  <2>1. PICK f \in free :
          /\ content' = [content EXCEPT ![f] = {}]
          /\ Lookup(table, load.root, v) = NULL /\ Lookup(table', load.root, v) = f
          /\ Lookup(table', pml4, v) \in {NULL, f}
          /\ \A s \in Roots, u \in Page :
               \/ Lookup(table', s, u) = Lookup(table, s, u)
               \/ u = v /\ Lookup(table, s, u) = NULL /\ Lookup(table', s, u) = f
    BY <1>9
  <2>2. f # NULL /\ f \notin Mapping /\ Mapping \subseteq Frame
    BY MemoryFacts, 5 \in 1 .. 5
  <2>3. \A g \in Mapping : content'[g] = content[g]
    BY <2>1, <2>2
  <2>4. \A s \in Roots, u \in Page : Lookup(table, s, u) \in {NULL, Lookup(table', s, u)}
    BY <2>1
  <2>5. \A s \in Roots, u \in Page : u = v \/ Lookup(table', s, u) = Lookup(table, s, u)
    BY <2>1
  <2>6. Lookup(table', load.root, v) # NULL
        /\ Lookup(table', pml4, v) \in {NULL, Lookup(table', load.root, v)}
    BY <2>1, <2>2
  <2> QED
    BY <1>6, <1>9, <2>3, <2>4, <2>5, <2>6
<1> QED
  BY <1>5, <1>8, <1>9 DEF LoadEffect

\* A load begins with a program of which nothing was loaded.
LEMMA LoadBegins ==
  ASSUME MemoryInOrder, LoadInOrder, PagesBegin, PagesLoaded, NEW p \in Program,
         NEW root \in Roots, Load(p, root)
  PROVE  LoadInOrder' /\ PagesBegin' /\ PagesLoading' /\ PagesLoaded'
<1>1. /\ load = NULL /\ p \notin {l.program : l \in loaded} \cup refused
      /\ load' = [program |-> p, root |-> root, segment |-> 1, page |-> 1]
      /\ UNCHANGED <<memory, roots, table, content, loaded, refused>>
  BY DEF Load, vmVars
<1>2. /\ load'.program = p /\ load'.root = root /\ load'.segment = 1 /\ load'.page = 1
  BY <1>1
<1>3. Roots' = Roots /\ Roots \subseteq Nat /\ \A l : SpacesOf(l)' = SpacesOf(l)
  BY <1>1, MemoryFacts DEF Roots, SpacesOf
<1>4. load' # NULL /\ load' \in [program : Program, root : Roots', segment : Nat, page : Nat]
  <2>1. load' \in [program : Program, root : Roots, segment : Nat, page : Nat]
    BY <1>1
  <2>2. load' \in [program : Program, root : Nat, segment : Nat, page : Nat]
    BY <1>1, <1>3
  <2> QED
    BY <1>3, <2>1, <2>2, LoadAssumption
<1>5. Segment' = Segments[p][1] /\ 1 \in DOMAIN Segments[p] /\ Len(Segments[p][1]) \in Nat
  BY <1>2, ProgramPages DEF Segment
<1>6. LoadInOrder'
  <2>1. load'.page \in 1 .. Len(Segment') + 1
    BY <1>2, <1>5
  <2>2. \A l \in loaded' : l \in [program : Program, root : Roots', before : SUBSET memory']
    BY <1>1, <1>3 DEF LoadInOrder
  <2> QED
    BY <1>1, <1>2, <1>4, <1>5, <2>1, <2>2 DEF LoadInOrder
<1>7. \A u \in Page : Same(u)' = Same(u)
  BY <1>1 DEF Same, Translate
<1>8. PagesBegin'
  <2>1. \A q : ~ Begun(q)' => ~ Begun(q)
    BY <1>1 DEF Begun
  <2>2. ~ Begun(p)
    BY <1>1 DEF Begun
  <2>3. \A q \in Program : ~ Begun(q) =>
          \A s \in DOMAIN Segments[q] : \A i \in DOMAIN Segments[q][s] :
            \A u \in Page : u = Segments[q][s][i] => Same(u)'
    BY <1>7 DEF PagesBegin
  <2> QED
    BY <1>2, <2>1, <2>2, <2>3, ProgramPages DEF PagesBegin
<1>9. PagesLoading'
  <2>1. 1 .. load'.page - 1 = {} /\ 1 .. load'.segment - 1 = {}
    BY <1>2
  <2> QED
    BY <2>1 DEF PagesLoading
<1>10. PagesLoaded'
  <2>1. SUFFICES ASSUME NEW l \in loaded, NEW s \in DOMAIN Segments[l.program],
                        NEW i \in DOMAIN Segments[l.program][s]
                 PROVE  LET u == Segments[l.program][s][i]
                        IN  /\ Lookup(table', pml4, u) # NULL
                            /\ \A r \in SpacesOf(l)' : Lookup(table', r, u) = Lookup(table', pml4, u)
                            /\ <<l.program, s>> \in content'[Lookup(table', pml4, u)]
    BY <1>1 DEF PagesLoaded, Translate
  <2> QED
    BY <1>1, <1>3 DEF PagesLoaded, Translate
<1> QED
  BY <1>6, <1>8, <1>9, <1>10

\* A segment that is copied to where the kernel has its pages is there, and no other
\* program is overwritten.
LEMMA SegmentCopied ==
  ASSUME ProgramsApart, MemoryInOrder, LoadInOrder, PagesBegin, PagesLoading, PagesLoaded,
         content \in [Frame -> SUBSET (Program \X Nat)], CopySegment, NULL \notin Destination
  PROVE  /\ LoadInOrder' /\ PagesBegin' /\ PagesLoading' /\ PagesLoaded'
         /\ content' \in [Frame -> SUBSET (Program \X Nat)]
<1> DEFINE p == load.program
           root == load.root
           k == load.segment
<1>1. /\ load # NULL /\ load.page > Len(Segment)
      /\ UNCHANGED <<memory, table, roots, refused>>
      /\ content' = [f \in Frame |-> IF f \in Destination THEN Copy(f) ELSE content[f]]
      /\ \/ /\ k < Len(Segments[p]) /\ loaded' = loaded
            /\ load' = [load EXCEPT !.segment = @ + 1, !.page = 1]
         \/ /\ ~ (k < Len(Segments[p])) /\ load' = NULL
            /\ loaded' = loaded \cup {[program |-> p, root |-> root, before |-> roots]}
  BY DEF CopySegment
<1>2. /\ load = [program |-> p, root |-> root, segment |-> k, page |-> load.page]
      /\ p \in Program /\ root \in Roots /\ k \in DOMAIN Segments[p] /\ k \in Nat
      /\ k >= 1 /\ k <= Len(Segments[p]) /\ Len(Segments[p]) \in Nat
      /\ load.page = Len(Segment) + 1 /\ Len(Segment) \in Nat
      /\ DOMAIN Segment = 1 .. Len(Segment) /\ Segment = Segments[p][k]
      /\ \A i \in 1 .. Len(Segment) : Segment[i] \in Page
  BY <1>1, LoadFacts, ProgramPages
<1>3. /\ Roots' = Roots /\ roots' = roots /\ memory' = memory /\ pml4 \in Roots
      /\ Roots \subseteq Nat
      /\ \A u \in Page : Same(u)' = Same(u)
      /\ \A l : SpacesOf(l)' = SpacesOf(l)
  BY <1>1, MemoryFacts DEF Roots, Same, Translate, SpacesOf
<1>4. /\ \A s \in Roots, u \in Page : Lookup(table, s, u) \in Mapping \cup {NULL}
      /\ Mapping \subseteq Frame
  BY MemoryFacts
<1>5. /\ Destination = {Lookup(table, pml4, Segment[i]) : i \in 1 .. Len(Segment)}
      /\ Destination \subseteq Mapping
  <2>1. Destination = {Lookup(table, pml4, Segment[i]) : i \in 1 .. Len(Segment)}
    BY <1>2 DEF Destination, Translate
  <2> QED
    BY <1>2, <1>3, <1>4, <2>1
<1> HIDE DEF p, root, k
<1>6. \A g \in Destination : <<p, k>> \in content'[g]
  BY <1>1, <1>4, <1>5 DEF Copy, p, k
<1>7. \A g \in Mapping, c \in Program \X Nat :
        c \in content[g] /\ (g \notin Destination \/ c[1] = p) => c \in content'[g]
  BY <1>1, <1>4 DEF Copy, p
<1>8. content' \in [Frame -> SUBSET (Program \X Nat)]
  <2>1. \A f \in Frame : content[f] \in SUBSET (Program \X Nat)
    OBVIOUS
  <2>2. \A f \in Frame : Copy(f) \in SUBSET (Program \X Nat)
    BY <1>2, <2>1 DEF Copy, p, k
  <2> QED
    BY <1>1, <2>1, <2>2
<1>9. ASSUME NEW s \in 1 .. k, NEW i \in DOMAIN Segments[p][s], NEW u, u = Segments[p][s][i]
      PROVE  /\ u \in Page /\ Lookup(table, pml4, u) # NULL
             /\ Lookup(table, root, u) = Lookup(table, pml4, u)
             /\ <<p, s>> \in content'[Lookup(table, pml4, u)]
  <2>1. s \in DOMAIN Segments[p] /\ s \in Nat
    BY <1>2, ProgramPages
  <2>2. u \in Page
    BY <1>2, <1>9, <2>1, ProgramPages
  <2>3. CASE s # k
    <3>1. s \in 1 .. load.segment - 1
      BY <1>2, <2>3 DEF k
    <3>2. /\ Lookup(table, pml4, u) # NULL
          /\ Lookup(table, root, u) = Lookup(table, pml4, u)
          /\ <<p, s>> \in content[Lookup(table, pml4, u)]
      BY <1>1, <1>9, <3>1 DEF PagesLoading, Translate, p, root
    <3>3. Lookup(table, pml4, u) \in Mapping
      BY <1>3, <1>4, <2>2, <3>2
    <3>4. <<p, s>> \in Program \X Nat /\ <<p, s>>[1] = p
      BY <1>2, <2>1
    <3> QED
      BY <1>7, <2>2, <3>2, <3>3, <3>4
  <2>4. CASE s = k
    <3>1. i \in 1 .. Len(Segment) /\ u = Segment[i] /\ i \in 1 .. load.page - 1
      BY <1>2, <1>9, <2>4
    <3>2. Lookup(table, pml4, u) \in Destination
      BY <1>5, <3>1
    <3>3. Lookup(table, pml4, u) \in {NULL, Lookup(table, root, u)}
      BY <1>1, <3>1 DEF PagesLoading, Translate, root
    <3> QED
      BY <1>6, <2>2, <2>4, <3>2, <3>3
  <2> QED
    BY <2>3, <2>4
<1>10. ASSUME NEW l \in loaded, NEW s \in DOMAIN Segments[l.program],
              NEW i \in DOMAIN Segments[l.program][s], NEW u, u = Segments[l.program][s][i]
       PROVE  /\ Lookup(table, pml4, u) # NULL
              /\ \A r \in SpacesOf(l) : Lookup(table, r, u) = Lookup(table, pml4, u)
              /\ <<l.program, s>> \in content'[Lookup(table, pml4, u)]
  <2>1. l.program \in Program /\ l.program # p
    BY <1>1 DEF LoadInOrder, p
  <2>2. u \in Page /\ s \in Nat
    BY <1>10, <2>1, ProgramPages
  <2>3. /\ Lookup(table, pml4, u) # NULL
        /\ \A r \in SpacesOf(l) : Lookup(table, r, u) = Lookup(table, pml4, u)
        /\ <<l.program, s>> \in content[Lookup(table, pml4, u)]
    BY <1>10 DEF PagesLoaded, Translate
  <2>4. Lookup(table, pml4, u) \in Mapping
    BY <1>3, <1>4, <2>2, <2>3
  <2>5. Lookup(table, pml4, u) \notin Destination
    <3>1. SUFFICES ASSUME NEW j \in 1 .. Len(Segment),
                          Lookup(table, pml4, u) = Lookup(table, pml4, Segment[j])
                   PROVE  FALSE
      BY <1>5
    <3>2. Segment[j] \in Page
      BY <1>2
    <3>3. u = Segment[j]
      BY <2>2, <2>3, <3>1, <3>2 DEF MemoryInOrder, KernelPagesApart, Translate
    <3>4. Segments[l.program][s][i] = Segments[p][k][j] /\ j \in DOMAIN Segments[p][k]
      BY <1>2, <1>10, <3>3
    <3> QED
      BY <1>2, <2>1, <3>4 DEF ProgramsApart
  <2> QED
    BY <1>7, <2>1, <2>2, <2>3, <2>4, <2>5
<1>11. CASE /\ k < Len(Segments[p]) /\ loaded' = loaded
            /\ load' = [load EXCEPT !.segment = @ + 1, !.page = 1]
  <2>1. /\ load'.program = p /\ load'.root = root /\ load'.segment = k + 1 /\ load'.page = 1
        /\ load' \in [program : Program, root : Roots, segment : Nat, page : Nat]
    <3>1. load.segment = k /\ load.program = p /\ load.root = root
      BY DEF p, root, k
    <3>2. load' = [program |-> p, root |-> root, segment |-> k + 1, page |-> 1]
      BY <1>2, <1>11, <3>1
    <3> QED
      BY <1>2, <3>2
  <2>2. load' # NULL
    <3>1. load' \in [program : Program, root : Nat, segment : Nat, page : Nat]
      BY <1>3, <2>1
    <3> QED
      BY <3>1, LoadAssumption
  <2>3. k + 1 \in DOMAIN Segments[p] /\ Segment' = Segments[p][k + 1]
        /\ Len(Segments[p][k + 1]) \in Nat
    <3>1. k + 1 \in DOMAIN Segments[p]
      BY <1>2, <1>11, ProgramPages
    <3> QED
      BY <1>2, <2>1, <3>1, ProgramPages DEF Segment
  <2>4. LoadInOrder'
    <3>1. load'.page \in 1 .. Len(Segment') + 1
      BY <2>1, <2>3
    <3>2. load'.program \notin {l.program : l \in loaded'} \cup refused'
      BY <1>1, <1>11, <2>1 DEF LoadInOrder, p
    <3>3. \A l \in loaded' : l \in [program : Program, root : Roots', before : SUBSET memory']
      BY <1>3, <1>11 DEF LoadInOrder
    <3> QED
      BY <1>3, <2>1, <2>3, <3>1, <3>2, <3>3 DEF LoadInOrder
  <2>5. \A q : Begun(q)' = Begun(q)
    BY <1>1, <1>11, <2>1, <2>2 DEF Begun, p
  <2>6. \A u : Reached(u) => Reached(u)'
    <3>1. SUFFICES ASSUME NEW u, Reached(u) PROVE Reached(u)'
      OBVIOUS
    <3>2. \E t \in 1 .. k : \E j \in DOMAIN Segments[p][t] : u = Segments[p][t][j]
      <4>1. CASE \E t \in 1 .. load.segment - 1 : \E j \in DOMAIN Segments[load.program][t] :
                   u = Segments[load.program][t][j]
        <5>1. 1 .. load.segment - 1 \subseteq 1 .. k
          BY <1>2 DEF k
        <5> QED
          BY <4>1, <5>1 DEF p
      <4>2. CASE \E j \in 1 .. load.page - 1 : u = Segment[j]
        <5>1. PICK j \in 1 .. load.page - 1 : u = Segment[j]
          BY <4>2
        <5>2. j \in DOMAIN Segments[p][k] /\ u = Segments[p][k][j] /\ k \in 1 .. k
          BY <1>2, <5>1
        <5> QED
          BY <5>2
      <4> QED
        BY <3>1, <4>1, <4>2 DEF Reached
    <3>3. 1 .. load'.segment - 1 = 1 .. k
      BY <1>2, <2>1
    <3> QED
      BY <2>1, <3>2, <3>3 DEF Reached
  <2>7. PagesBegin'
    <3>1. \A q \in Program : ~ Begun(q) =>
            \A s \in DOMAIN Segments[q] : \A i \in DOMAIN Segments[q][s] :
              \A u \in Page : u = Segments[q][s][i] => Same(u)'
      BY <1>3 DEF PagesBegin
    <3>2. \A s \in DOMAIN Segments[p] : \A i \in DOMAIN Segments[p][s] :
            \A u \in Page : u = Segments[p][s][i] => Reached(u)' \/ Same(u)'
      BY <1>1, <1>3, <2>6 DEF PagesBegin, p
    <3> QED
      BY <1>2, <2>1, <2>5, <3>1, <3>2, ProgramPages DEF PagesBegin
  <2>8. PagesLoading'
    <3>1. 1 .. load'.page - 1 = {} /\ 1 .. load'.segment - 1 = 1 .. k
      BY <1>2, <2>1
    <3>2. \A s \in 1 .. k : \A i \in DOMAIN Segments[p][s] :
            LET u == Segments[p][s][i]
            IN  /\ Lookup(table', pml4, u) # NULL
                /\ Lookup(table', root, u) = Lookup(table', pml4, u)
                /\ <<p, s>> \in content'[Lookup(table', pml4, u)]
      BY <1>1, <1>9
    <3> QED
      BY <2>1, <3>1, <3>2 DEF PagesLoading, Translate
  <2>9. PagesLoaded'
    <3>1. SUFFICES ASSUME NEW l \in loaded, NEW s \in DOMAIN Segments[l.program],
                          NEW i \in DOMAIN Segments[l.program][s]
                   PROVE  LET u == Segments[l.program][s][i]
                          IN  /\ Lookup(table', pml4, u) # NULL
                              /\ \A r \in SpacesOf(l)' : Lookup(table', r, u) = Lookup(table', pml4, u)
                              /\ <<l.program, s>> \in content'[Lookup(table', pml4, u)]
      BY <1>11 DEF PagesLoaded, Translate
    <3> QED
      BY <1>1, <1>3, <1>10
  <2> QED
    BY <1>8, <2>4, <2>7, <2>8, <2>9
<1>12. CASE /\ ~ (k < Len(Segments[p])) /\ load' = NULL
            /\ loaded' = loaded \cup {[program |-> p, root |-> root, before |-> roots]}
  <2> DEFINE new == [program |-> p, root |-> root, before |-> roots]
  <2>1. new.program = p /\ new.root = root /\ new.before = roots
    OBVIOUS
  <2>2. new \in [program : Program, root : Roots, before : SUBSET memory]
    <3>1. roots \subseteq memory
      BY DEF MemoryInOrder
    <3> QED
      BY <1>2, <3>1
  <2> HIDE DEF new
  <2>3. LoadInOrder'
    <3>1. \A l \in loaded' : l \in [program : Program, root : Roots', before : SUBSET memory']
      BY <1>3, <1>12, <2>2 DEF LoadInOrder, new
    <3> QED
      BY <1>12, <3>1 DEF LoadInOrder
  <2>4. \A q : Begun(q) => Begun(q)'
    <3>1. p \in {l.program : l \in loaded'}
      BY <1>12, <2>1 DEF new
    <3> QED
      BY <1>1, <1>12, <3>1 DEF Begun, p
  <2>5. PagesBegin'
    <3>1. \A q \in Program : ~ Begun(q) =>
            \A s \in DOMAIN Segments[q] : \A i \in DOMAIN Segments[q][s] :
              \A u \in Page : u = Segments[q][s][i] => Same(u)'
      BY <1>3 DEF PagesBegin
    <3> QED
      BY <1>12, <2>4, <3>1, ProgramPages DEF PagesBegin
  <2>6. PagesLoading'
    BY <1>12 DEF PagesLoading
  <2>7. PagesLoaded'
    <3>0. SUFFICES ASSUME NEW l \in loaded', NEW s \in DOMAIN Segments[l.program],
                          NEW i \in DOMAIN Segments[l.program][s], NEW u, u = Segments[l.program][s][i]
                   PROVE  /\ Lookup(table', pml4, u) # NULL
                          /\ \A r \in SpacesOf(l)' : Lookup(table', r, u) = Lookup(table', pml4, u)
                          /\ <<l.program, s>> \in content'[Lookup(table', pml4, u)]
      BY DEF PagesLoaded, Translate
    <3>1. SUFFICES /\ Lookup(table, pml4, u) # NULL
                   /\ \A r \in SpacesOf(l) : Lookup(table, r, u) = Lookup(table, pml4, u)
                   /\ <<l.program, s>> \in content'[Lookup(table, pml4, u)]
      BY <1>1, <1>3
    <3>2. CASE l \in loaded
      BY <1>10, <3>0, <3>2
    <3>3. CASE l = new
      <4>1. SpacesOf(l) = {root}
        BY <2>1, <3>3 DEF SpacesOf
      <4>2. s \in 1 .. k /\ i \in DOMAIN Segments[p][s] /\ u = Segments[p][s][i] /\ l.program = p
        <5>1. l.program = p
          BY <2>1, <3>3
        <5>2. s \in DOMAIN Segments[p] /\ i \in DOMAIN Segments[p][s] /\ u = Segments[p][s][i]
          BY <3>0, <5>1
        <5>3. DOMAIN Segments[p] = 1 .. k
          BY <1>2, <1>12, ProgramPages
        <5> QED
          BY ONLY <5>1, <5>2, <5>3
      <4> QED
        BY <1>9, <4>1, <4>2
    <3> QED
      BY <1>12, <3>2, <3>3 DEF new
  <2> QED
    BY <1>8, <2>3, <2>5, <2>6, <2>7
<1> QED
  BY <1>1, <1>11, <1>12 DEF p, root, k

------------------------------------------------------------------------------
(* The invariant. *)

\* At first the kernel has the boot code's two tables and no page.
LEMMA InitInOrder == Init => IInv
<1> SUFFICES ASSUME Init PROVE IInv
  OBVIOUS
<1>1. /\ memory \in {1 .. n : n \in MemorySize} /\ memory \subseteq Frame
      /\ others \subseteq memory /\ free = memory \ others
      /\ phase = "test" /\ heap_end = 0 /\ roots = {} /\ load = NULL
      /\ content = [f \in Frame |-> {}] /\ loaded = {} /\ refused = {} /\ dropped = {}
      /\ table = [t \in Place |->
                    CASE t = pml4 -> [Empty EXCEPT ![0] = pdpt]
                      [] t = pdpt -> [Empty EXCEPT ![0] = identity]
                      [] OTHER -> Empty]
  BY DEF Init, VmInit, Frame, Place
<1>2. /\ pml4 \in Place /\ pdpt \in Place /\ pml4 # pdpt /\ 0 \in Index
      /\ pdpt # NULL /\ identity # NULL /\ NULL \notin Place /\ pml4 # NULL
  BY Places
<1>3. /\ Empty \in [Index -> {NULL}] /\ \A i \in Index : Empty[i] = NULL
      /\ \A x : [Empty EXCEPT ![0] = x] \in [Index -> {x, NULL}]
      /\ \A x : \A i \in Index : [Empty EXCEPT ![0] = x][i] = IF i = 0 THEN x ELSE NULL
  BY <1>2 DEF Empty
<1>4. /\ \A i \in Index : table[pml4][i] = IF i = 0 THEN pdpt ELSE NULL
      /\ \A i \in Index : table[pdpt][i] = IF i = 0 THEN identity ELSE NULL
  BY <1>1, <1>2, <1>3
<1>5. Typed(table, memory)
  <2>1. \A t \in Place : table[t] \in [Index -> memory \cup {pdpt, identity, NULL}]
    BY <1>1, <1>2, <1>3
  <2> QED
    BY <1>1, <2>1 DEF Typed
<1> DEFINE L == <<{pml4}, {pdpt}, {}, {}, {}>>
<1>6. /\ L \in [1 .. 5 -> SUBSET Place]
      /\ L[1] = {pml4} /\ L[2] = {pdpt} /\ L[3] = {} /\ L[4] = {} /\ L[5] = {}
  BY <1>2
<1> HIDE DEF L
<1>7. Tree(table, L)
  <2>1. \A k \in 1 .. 5 : k = 1 \/ k = 2 \/ k = 3 \/ k = 4 \/ k = 5
    OBVIOUS
  <2>2. \A j, k \in 1 .. 5 : j # k => L[j] \cap L[k] = {}
    BY <1>2, <1>6, <2>1
  <2>3. \A k \in 1 .. 4 : \A t \in L[k], i \in Index :
          table[t][i] \in L[k + 1] \/ table[t][i] = NULL \/ (t = pdpt /\ i = 0)
    <3>1. SUFFICES ASSUME NEW k \in 1 .. 4, NEW t \in L[k], NEW i \in Index
                   PROVE  table[t][i] \in L[k + 1] \/ table[t][i] = NULL \/ (t = pdpt /\ i = 0)
      OBVIOUS
    <3>2. (k = 1 /\ k + 1 = 2 /\ t = pml4) \/ (k = 2 /\ t = pdpt)
      BY <1>6, <2>1
    <3> QED
      BY <1>4, <1>6, <3>2
  <2>4. \A k \in 1 .. 4 : \A n \in L[k + 1] : \E t \in L[k], i \in Index : table[t][i] = n
    <3>1. SUFFICES ASSUME NEW k \in 1 .. 4, NEW n \in L[k + 1]
                   PROVE  \E t \in L[k], i \in Index : table[t][i] = n
      OBVIOUS
    <3>2. k = 1 /\ n = pdpt
      <4>1. k = 1 \/ k + 1 = 3 \/ k + 1 = 4 \/ k + 1 = 5
        OBVIOUS
      <4> QED
        BY <1>6, <4>1
    <3> QED
      BY <1>2, <1>4, <1>6, <3>2
  <2>5. pml4 \in L[1] /\ (\A t \in L[1] : table[t][0] = pdpt) /\ table[pdpt][0] = identity
    BY <1>2, <1>4, <1>6
  <2>6. \A s, t \in L[1] : \A i, j \in Index :
          table[s][i] = table[t][j] /\ table[s][i] # NULL => i = j
    BY <1>4, <1>6
  <2>7. \A k \in 2 .. 3 : \A s, t \in L[k] : \A i, j \in Index :
          table[s][i] = table[t][j] /\ table[s][i] # NULL => s = t /\ i = j
    <3>1. \A k \in 2 .. 3 : k = 2 \/ k = 3
      OBVIOUS
    <3> QED
      BY <1>4, <1>6, <3>1
  <2> QED
    BY <1>6, <2>2, <2>3, <2>4, <2>5, <2>6, <2>7 DEF Tree
<1>8. Levels = L
  BY <1>1, <1>6, <1>7, LevelsNow DEF Roots
<1>9. /\ Roots = {pml4} /\ Pdpts = {pdpt} /\ Pds = {} /\ Pts = {} /\ Mapping = {}
      /\ Tables = {pml4, pdpt}
  <2>1. /\ Roots = L[1] /\ Pdpts = L[2] /\ Pds = L[3] /\ Pts = L[4] /\ Mapping = L[5]
    BY <1>8 DEF Levels
  <2> QED
    BY <1>6, <2>1 DEF Tables
<1>10. memory \cap {pml4, pdpt} = {}
  BY <1>1, Places
<1>11. FramesAccounted
  BY <1>1, <1>9 DEF FramesAccounted, Boot
<1>12. KernelPagesApart
  <2>1. \A v \in Page : Lookup(table, pml4, v) \in L[5] \cup {NULL}
    BY <1>6, <1>7, PathOnLevels
  <2> QED
    BY <1>6, <2>1 DEF KernelPagesApart, Translate
<1>13. MemoryInOrder
  <2>1. (Tables \cup Mapping) \cap (free \cup others) = {}
    BY <1>1, <1>9, <1>10
  <2>2. free \subseteq memory /\ free \cap others = {} /\ roots \subseteq memory
        /\ dropped \subseteq memory /\ dropped \cap others = {}
    BY <1>1
  <2> QED
    BY <1>1, <1>5, <1>7, <1>8, <1>11, <1>12, <2>1, <2>2 DEF MemoryInOrder
<1>14. Kinds
  <2>1. IsFiniteSet(roots) /\ Cardinality(roots) = 0 /\ MAX_ROOTS \in Nat
    BY <1>1, FS_EmptySet, SizesAssumption
  <2>2. Len(HeapPage) \in Nat
    BY PagesAssumption
  <2> QED
    BY <1>1, <2>1, <2>2 DEF Kinds
<1>15. BootInOrder /\ HeapMapped /\ LoadInOrder
  BY <1>1 DEF BootInOrder, HeapMapped, LoadInOrder
<1>16. PagesBegin /\ PagesLoading /\ PagesLoaded
  BY <1>1 DEF PagesBegin, PagesLoading, PagesLoaded, Same
<1> QED
  BY <1>13, <1>14, <1>15, <1>16 DEF IInv

\* As long as nothing was loaded or made an address space of, there is nothing to show of
\* programs.
LEMMA NothingBegun ==
  ASSUME roots' = {}, heap_end' = 0, load' = NULL, loaded' = {}
  PROVE  HeapMapped' /\ LoadInOrder' /\ PagesBegin' /\ PagesLoading' /\ PagesLoaded'
<1>1. HeapMapped'
  <2>1. 1 .. heap_end' = {}
    OBVIOUS
  <2> QED
    BY <2>1 DEF HeapMapped
<1>2. LoadInOrder' /\ PagesLoading' /\ PagesLoaded'
  BY DEF LoadInOrder, PagesLoading, PagesLoaded
<1>3. PagesBegin'
  BY DEF PagesBegin, Same
<1> QED
  BY <1>1, <1>2, <1>3

\* A page that is mapped stays where it is.
Stay == \A s \in Roots, u \in Page : Lookup(table, s, u) \in {NULL, Lookup(table', s, u)}

\* The heap, of which every address space has the tables, extended or not.
LEMMA HeapStep ==
  ASSUME IInv, phase # "halted", phase' = "up", heap_end \in 0 .. Len(HeapPage) - 1, ExtendHeap,
         UNCHANGED <<memory, others, roots, loadVars>>
  PROVE  IInv' /\ Stay
<1> DEFINE v == HeapPage[heap_end + 1]
<1>1. /\ Kinds /\ MemoryInOrder /\ HeapMapped
      /\ LoadInOrder /\ PagesBegin /\ PagesLoading /\ PagesLoaded
      /\ UNCHANGED <<load, content, loaded, refused, dropped>>
  BY DEF IInv, loadVars
<1>2. v \in Page /\ v[1] = 0 /\ Len(HeapPage) \in Nat
  BY PagesAssumption
<1>3. /\ MemoryInOrder' /\ Kept(v) /\ heap_end' \in {heap_end, heap_end + 1}
      /\ heap_end' = heap_end + 1 => Lookup(table', pml4, v) # NULL
  BY <1>1, HeapExtends
<1> HIDE DEF v
<1>4. Stay
  BY <1>3 DEF Stay, Kept
<1>5. Roots' = Roots /\ roots' = roots /\ pml4 \in Roots /\ roots \subseteq Roots
  BY DEF Roots
<1>6. \A s \in Roots : Lookup(table', s, v) = Lookup(table', pml4, v)
  <2>1. Tree(table', Levels')
    BY <1>3 DEF MemoryInOrder
  <2>2. Levels'[1] = Roots
    BY <1>5 DEF Levels
  <2> QED
    BY <1>2, <2>1, <2>2, SharedPage
<1>7. LoadInOrder' /\ PagesBegin' /\ PagesLoading' /\ PagesLoaded'
  <2>1. \A u \in Page : \/ \A s \in Roots : Lookup(table', s, u) = Lookup(table, s, u)
                        \/ \A s \in Roots' : Lookup(table', s, u) = Lookup(table', pml4, u)
    BY <1>3, <1>5, <1>6 DEF Kept
  <2>2. \A s \in roots' \ roots, u \in Page : Lookup(table', s, u) = Lookup(table', pml4, u)
    BY <1>5
  <2> QED
    BY <1>1, <1>4, <1>5, <2>1, <2>2, PagesKept DEF Stay
<1>8. HeapMapped'
  <2>1. SUFFICES ASSUME NEW i \in 1 .. heap_end' PROVE Lookup(table', pml4, HeapPage[i]) # NULL
    BY DEF HeapMapped, Translate
  <2>2. CASE i \in 1 .. heap_end
    <3>1. Lookup(table, pml4, HeapPage[i]) # NULL
      BY <1>1, <2>2 DEF HeapMapped, Translate
    <3>2. HeapPage[i] \in Page
      <4>1. i \in 1 .. Len(HeapPage)
        BY <1>2, <2>2
      <4> QED
        BY <4>1, PagesAssumption
    <3> QED
      BY <1>4, <1>5, <3>1, <3>2 DEF Stay
  <2>3. CASE i \notin 1 .. heap_end
    <3>1. i = heap_end + 1 /\ heap_end' = heap_end + 1
      BY <1>3, <2>3
    <3> QED
      BY <1>3, <3>1 DEF v
  <2> QED
    BY <2>2, <2>3
<1>9. Kinds'
  <2>1. heap_end' \in 0 .. Len(HeapPage)
    BY <1>2, <1>3
  <2> QED
    BY <1>1, <1>5, <2>1 DEF Kinds
<1>10. BootInOrder'
  BY DEF BootInOrder
<1> QED
  BY <1>3, <1>4, <1>7, <1>8, <1>9, <1>10 DEF IInv

\* A new address space.
LEMMA CreateStep ==
  ASSUME IInv, createUserPML4, UNCHANGED loadVars
  PROVE  IInv' /\ Stay
<1>1. /\ Kinds /\ MemoryInOrder /\ HeapMapped
      /\ LoadInOrder /\ PagesBegin /\ PagesLoading /\ PagesLoaded
      /\ UNCHANGED <<load, content, loaded, refused, dropped>>
  BY DEF IInv, loadVars
<1>2. /\ phase = "up" /\ phase' = "up" /\ heap_end' = heap_end /\ memory' = memory
      /\ Cardinality(roots) < MAX_ROOTS
  BY DEF createUserPML4
<1>3. MemoryInOrder'
  BY <1>1, RootCreated
<1>4. PICK n \in free :
        /\ roots' = roots \cup {n} /\ n \in memory
        /\ \A s \in Roots, u \in Page : Lookup(table', s, u) = Lookup(table, s, u)
        /\ \A u \in Page : Lookup(table', n, u) = Lookup(table, pml4, u)
  BY <1>1, RootCreated
<1>5. Stay /\ pml4 \in Roots
  BY <1>4 DEF Stay, Roots
<1>6. LoadInOrder' /\ PagesBegin' /\ PagesLoading' /\ PagesLoaded'
  <2>1. \A u \in Page : \/ \A s \in Roots : Lookup(table', s, u) = Lookup(table, s, u)
                        \/ \A s \in Roots' : Lookup(table', s, u) = Lookup(table', pml4, u)
    BY <1>4
  <2>2. \A s \in roots' \ roots, u \in Page : Lookup(table', s, u) = Lookup(table', pml4, u)
    BY <1>4, <1>5
  <2>3. roots \subseteq roots'
    BY <1>4
  <2> QED
    BY <1>1, <1>2, <1>5, <2>1, <2>2, <2>3, PagesKept DEF Stay
<1>7. HeapMapped'
  <2>1. SUFFICES ASSUME NEW i \in 1 .. heap_end PROVE Lookup(table', pml4, HeapPage[i]) # NULL
    BY <1>2 DEF HeapMapped, Translate
  <2>2. HeapPage[i] \in Page
    <3>1. i \in 1 .. Len(HeapPage)
      BY <1>1, PagesAssumption DEF Kinds
    <3> QED
      BY <3>1, PagesAssumption
  <2> QED
    BY <1>1, <1>4, <1>5, <2>2 DEF HeapMapped, Translate
<1>8. Kinds'
  <2>1. IsFiniteSet(roots') /\ Cardinality(roots') <= Cardinality(roots) + 1
    <3>1. IsFiniteSet(roots) /\ Cardinality(roots) \in Nat
      BY <1>1, FS_CardinalityType DEF Kinds
    <3>2. /\ IsFiniteSet(roots \cup {n})
          /\ \/ Cardinality(roots \cup {n}) = Cardinality(roots)
             \/ Cardinality(roots \cup {n}) = Cardinality(roots) + 1
      BY <3>1, FS_AddElement
    <3> QED
      BY <1>4, <3>1, <3>2
  <2>2. Cardinality(roots) \in Nat /\ Cardinality(roots') \in Nat /\ MAX_ROOTS \in Nat
    BY <1>1, <2>1, FS_CardinalityType, SizesAssumption DEF Kinds
  <2>3. Cardinality(roots') <= MAX_ROOTS
    BY <1>2, <2>1, <2>2
  <2> QED
    BY <1>1, <1>2, <2>1, <2>3 DEF Kinds
<1>9. BootInOrder'
  BY <1>2 DEF BootInOrder
<1> QED
  BY <1>3, <1>5, <1>6, <1>7, <1>8, <1>9 DEF IInv

\* Tables as they were, and the frames of another component perhaps free.
LEMMA SameTablesStep ==
  ASSUME IInv, MemoryInOrder', Kinds', phase = "up", phase' \in {"up", "halted"},
         UNCHANGED <<memory, table, heap_end, roots, load, content, loaded, refused>>
  PROVE  IInv' /\ Stay
<1>1. HeapMapped /\ LoadInOrder /\ PagesBegin /\ PagesLoading /\ PagesLoaded
  BY DEF IInv
<1>2. Stay
  BY DEF Stay
<1>3. LoadInOrder' /\ PagesBegin' /\ PagesLoading' /\ PagesLoaded'
  BY <1>1, <1>2, PagesKept DEF Stay
<1>4. HeapMapped'
  BY <1>1 DEF HeapMapped, Translate
<1>5. BootInOrder'
  BY DEF BootInOrder
<1> QED
  BY <1>2, <1>3, <1>4, <1>5 DEF IInv

\* A step of a load: its page, or the bytes of a segment.
LEMMA LoadStep ==
  ASSUME ProgramsApart, IInv,
         (\E p \in Program, root \in Roots : Load(p, root)) \/ LoadPage \/ CopySegment
  PROVE  IInv' /\ Stay
<1>1. /\ Kinds /\ MemoryInOrder /\ HeapMapped
      /\ LoadInOrder /\ PagesBegin /\ PagesLoading /\ PagesLoaded
      /\ content \in [Frame -> SUBSET (Program \X Nat)] /\ refused \subseteq Program
  BY DEF IInv, Kinds
<1>2. /\ phase = "up" /\ phase' \in {"up", "halted"} /\ UNCHANGED <<memory, heap_end, roots>>
  BY DEF Load, LoadPage, CopySegment, vmVars
<1>3. BootInOrder'
  BY <1>2 DEF BootInOrder
<1>4. ASSUME Stay PROVE HeapMapped'
  <2>1. SUFFICES ASSUME NEW i \in 1 .. heap_end PROVE Lookup(table', pml4, HeapPage[i]) # NULL
    BY <1>2 DEF HeapMapped, Translate
  <2>2. HeapPage[i] \in Page
    <3>1. i \in 1 .. Len(HeapPage)
      BY <1>1, PagesAssumption DEF Kinds
    <3> QED
      BY <3>1, PagesAssumption
  <2>3. pml4 \in Roots /\ Lookup(table, pml4, HeapPage[i]) # NULL
    BY <1>1 DEF HeapMapped, Translate, Roots
  <2> QED
    BY <1>4, <2>2, <2>3 DEF Stay
<1>5. ASSUME content' \in [Frame -> SUBSET (Program \X Nat)], refused' \subseteq Program
      PROVE  Kinds'
  BY <1>1, <1>2, <1>5 DEF Kinds
<1>6. CASE \E p \in Program, root \in Roots : Load(p, root)
  <2>1. PICK p \in Program, root \in Roots : Load(p, root)
    BY <1>6
  <2>2. /\ UNCHANGED <<memory, free, others, table, phase, roots, content, refused, dropped>>
    BY <2>1 DEF Load, vmVars
  <2>3. LoadInOrder' /\ PagesBegin' /\ PagesLoading' /\ PagesLoaded'
    BY <1>1, <2>1, LoadBegins
  <2>4. MemoryInOrder'
    BY <1>1, <2>2, MemoryStays
  <2>5. Stay
    BY <2>2 DEF Stay
  <2> QED
    BY <1>1, <1>3, <1>4, <1>5, <2>2, <2>3, <2>4, <2>5 DEF IInv
<1>7. CASE LoadPage
  <2> DEFINE v == Segment[load.page]
  <2>1. load # NULL /\ load.page <= Len(Segment) /\ loaded' = loaded
    BY <1>7 DEF LoadPage
  <2>2. v \in Page /\ Lookup(table, load.root, v) = Lookup(table, pml4, v)
        /\ load.root \in Roots /\ load.program \in Program
    BY <1>1, <2>1, NextPage, LoadFacts
  <2>3. MemoryInOrder' /\ LoadEffect(v)
    BY <1>1, <1>7, <2>2, LoadPageMaps
  <2>4. LoadInOrder' /\ PagesBegin' /\ PagesLoading' /\ PagesLoaded'
    BY <1>1, <1>2, <2>1, <2>3, ProgramPageLoaded
  <2> HIDE DEF v
  <2>5. Stay
    BY <2>3 DEF Stay, LoadEffect
  <2>6. content' \in [Frame -> SUBSET (Program \X Nat)] /\ refused' \subseteq Program
    BY <1>1, <2>2, <2>3 DEF LoadEffect
  <2> QED
    BY <1>3, <1>4, <1>5, <2>3, <2>4, <2>5, <2>6 DEF IInv
<1>8. CASE CopySegment
  <2>1. UNCHANGED <<memory, free, others, table, roots, refused, dropped>>
        /\ (phase' = phase \/ phase' = "halted")
    BY <1>8 DEF CopySegment
  <2>2. MemoryInOrder'
    BY <1>1, <2>1, MemoryStays
  <2>3. CASE NULL \in Destination
    <3>1. UNCHANGED <<load, content, loaded>>
      BY <1>8, <2>3 DEF CopySegment
    <3>2. Kinds'
      BY <1>1, <1>5, <2>1, <3>1
    <3> QED
      BY <1>2, <2>1, <2>2, <3>1, <3>2, SameTablesStep
  <2>4. CASE NULL \notin Destination
    <3>1. /\ LoadInOrder' /\ PagesBegin' /\ PagesLoading' /\ PagesLoaded'
          /\ content' \in [Frame -> SUBSET (Program \X Nat)]
      BY <1>1, <1>8, <2>4, SegmentCopied
    <3>2. Stay
      BY <2>1 DEF Stay
    <3> QED
      BY <1>1, <1>3, <1>4, <1>5, <2>1, <2>2, <3>1, <3>2 DEF IInv
  <2> QED
    BY <2>3, <2>4
<1> QED
  BY <1>6, <1>7, <1>8

\* Every step keeps the invariant, and pages where they are once the kernel is up.
LEMMA StepInOrder ==
  ASSUME ProgramsApart, IInv, [Next]_vars
  PROVE  IInv' /\ (phase = "up" => Stay)
<1>1. /\ Kinds /\ MemoryInOrder /\ BootInOrder
      /\ (phase \in {"test", "tested", "heap"} =>
            /\ roots = {} /\ heap_end = 0 /\ load = NULL
            /\ loaded = {} /\ refused = {} /\ dropped = {})
      /\ (phase = "tested" => Translate(pml4, test_virt) # NULL)
  BY DEF IInv, BootInOrder
<1>2. CASE TestMap /\ UNCHANGED loadVars
  <2>1. /\ phase = "test" /\ UNCHANGED <<heap_end, roots, load, content, loaded, refused, dropped>>
    BY <1>2 DEF TestMap, loadVars
  <2>2. /\ MemoryInOrder' /\ phase' \in {"heap", "tested", "halted"}
        /\ phase' = "tested" => Lookup(table', pml4, test_virt) # NULL
    BY <1>1, <1>2, <2>1, TestMaps
  <2>3. HeapMapped' /\ LoadInOrder' /\ PagesBegin' /\ PagesLoading' /\ PagesLoaded'
    BY <1>1, <2>1, NothingBegun
  <2>4. Kinds'
    BY <1>1, <2>1, <2>2 DEF Kinds
  <2>5. BootInOrder'
    BY <1>1, <2>1, <2>2 DEF BootInOrder, Translate
  <2> QED
    BY <2>1, <2>2, <2>3, <2>4, <2>5 DEF IInv
<1>3. CASE TestUnmap /\ UNCHANGED loadVars
  <2>1. /\ phase = "tested" /\ UNCHANGED <<heap_end, roots, load, content, loaded, refused, dropped>>
    BY <1>3 DEF TestUnmap, loadVars
  <2>2. MemoryInOrder' /\ phase' = "heap"
    BY <1>1, <1>3, <2>1, TestUnmaps
  <2>3. HeapMapped' /\ LoadInOrder' /\ PagesBegin' /\ PagesLoading' /\ PagesLoaded'
    BY <1>1, <2>1, NothingBegun
  <2>4. Kinds'
    BY <1>1, <2>1, <2>2 DEF Kinds
  <2>5. BootInOrder'
    BY <1>1, <2>1, <2>2 DEF BootInOrder
  <2> QED
    BY <2>1, <2>2, <2>3, <2>4, <2>5 DEF IInv
<1>4. CASE InitHeap /\ UNCHANGED loadVars
  <2>1. phase = "heap" /\ phase' = "up" /\ ExtendHeap /\ UNCHANGED <<memory, others, roots>>
    BY <1>4 DEF InitHeap
  <2>2. heap_end \in 0 .. Len(HeapPage) - 1
    <3>1. heap_end = 0 /\ Len(HeapPage) \in Nat /\ Len(HeapPage) # 0
      BY <1>1, <2>1, PagesAssumption
    <3> QED
      BY <3>1
  <2> QED
    BY <1>4, <2>1, <2>2, HeapStep
<1>5. CASE Expand /\ UNCHANGED loadVars
  <2>1. phase = "up" /\ phase' = "up" /\ ExtendHeap /\ UNCHANGED <<memory, others, roots>>
        /\ heap_end \in 1 .. Len(HeapPage) - 1
    BY <1>5 DEF Expand
  <2>2. heap_end \in 0 .. Len(HeapPage) - 1
    BY <2>1
  <2> QED
    BY <1>5, <2>1, <2>2, HeapStep
<1>6. CASE createUserPML4 /\ UNCHANGED loadVars
  BY <1>6, CreateStep
<1>7. CASE OthersReturn /\ UNCHANGED loadVars
  <2>1. /\ phase = "up" /\ phase' = "up" /\ others' = {} /\ free' = free \cup others
        /\ UNCHANGED <<memory, table, heap_end, roots, load, content, loaded, refused, dropped>>
    BY <1>7 DEF OthersReturn, loadVars
  <2>2. MemoryInOrder'
    BY <1>1, <2>1, OthersReturned
  <2>3. Kinds'
    BY <1>1, <2>1 DEF Kinds
  <2> QED
    BY <2>1, <2>2, <2>3, SameTablesStep
<1>8. CASE (\E p \in Program, root \in Roots : Load(p, root)) \/ LoadPage \/ CopySegment
  BY <1>8, LoadStep
<1>9. CASE UNCHANGED vars
  <2>1. UNCHANGED <<memory, free, others, table, phase, heap_end, roots, load, content, loaded,
                    refused, dropped>>
    BY <1>9 DEF vars, vmVars, loadVars
  <2>2. IInv'
    <3>1. MemoryInOrder' = MemoryInOrder
      BY <2>1 DEF MemoryInOrder, FramesAccounted, KernelPagesApart, Translate, Levels, Roots,
                  Pdpts, Pds, Pts, Tables, Mapping, Below
    <3>2. Kinds' = Kinds /\ BootInOrder' = BootInOrder /\ HeapMapped' = HeapMapped
      BY <2>1 DEF Kinds, BootInOrder, HeapMapped, Translate
    <3>3. LoadInOrder' /\ PagesBegin' /\ PagesLoading' /\ PagesLoaded'
      <4>1. LoadInOrder /\ PagesBegin /\ PagesLoading /\ PagesLoaded
        BY DEF IInv
      <4>2. \A s \in Roots, u \in Page : Lookup(table, s, u) \in {NULL, Lookup(table', s, u)}
        BY <2>1
      <4> QED
        BY <2>1, <4>1, <4>2, PagesKept
    <3> QED
      BY <3>1, <3>2, <3>3 DEF IInv
  <2> QED
    BY <2>1, <2>2 DEF Stay
<1> QED
  BY <1>2, <1>3, <1>4, <1>5, <1>6, <1>7, <1>8, <1>9 DEF Next, VmNext

------------------------------------------------------------------------------
(* The theorems. *)

\* Invariant: the inductive invariant holds throughout.
THEOREM Invariant ==
  ASSUME ProgramsApart
  PROVE  Spec => []IInv
<1>1. Init => IInv
  BY InitInOrder
<1>2. IInv /\ [Next]_vars => IInv'
  BY StepInOrder
<1> QED
  BY <1>1, <1>2, PTL DEF Spec

\* TypeCorrect: every variable of the memory manager and the loader has its type.
THEOREM TypeCorrect ==
  ASSUME ProgramsApart
  PROVE  Spec => []TypeOK
<1>1. ASSUME IInv PROVE TypeOK
  <2>1. Kinds /\ MemoryInOrder /\ LoadInOrder
    BY <1>1 DEF IInv
  <2>2. load # NULL => load.program \in Program /\ load.root \in Roots
    BY <2>1, LoadFacts
  <2>3. table \in [Frame \cup Boot -> [Index -> memory \cup {pdpt, identity, NULL}]]
    BY <2>1 DEF MemoryInOrder, Typed, Place
  <2> QED
    BY <2>1, <2>2, <2>3 DEF Kinds, MemoryInOrder, TypeOK
<1> QED
  BY <1>1, Invariant, PTL

\* TablesAreSound: in mapPage, mapPageInPML4, unmapPage and createUserPML4, whatever they
\* have run out of, no table or frame is put to two uses, and none in use is free.
THEOREM TablesAreSound ==
  ASSUME ProgramsApart
  PROVE  Spec => []TablesSound
<1>1. ASSUME IInv PROVE TablesSound
  <2> DEFINE Entries(tables) ==
        {x \in tables \X Index : table[x[1]][x[2]] \notin {NULL, identity}}
  <2>1. /\ Tree(table, Levels) /\ KernelPagesApart
        /\ (Tables \cup Mapping) \cap (free \cup others) = {}
    BY <1>1 DEF IInv, MemoryInOrder
  <2>2. DOMAIN Levels = 1 .. 5
    BY DEF Levels
  <2>3. \A i, j \in DOMAIN Levels : i # j => Levels[i] \cap Levels[j] = {}
    BY <2>1, <2>2 DEF Tree
  <2>4. Levels[1] = Roots /\ Levels[2] = Pdpts /\ Levels[3] = Pds
    BY DEF Levels
  <2>5. \A x, y \in Entries(Roots) : table[x[1]][x[2]] = table[y[1]][y[2]] => x[2] = y[2]
    <3>1. \A s, t \in Levels[1] : \A i, j \in Index :
            table[s][i] = table[t][j] /\ table[s][i] # NULL => i = j
      BY <2>1 DEF Tree
    <3> QED
      BY <2>4, <3>1
  <2>6. ASSUME NEW tables \in {Pdpts, Pds}, NEW x \in Entries(tables), NEW y \in Entries(tables),
               table[x[1]][x[2]] = table[y[1]][y[2]]
        PROVE  x = y
    <3>1. \A k \in 2 .. 3 : \A s, t \in Levels[k] : \A i, j \in Index :
            table[s][i] = table[t][j] /\ table[s][i] # NULL => s = t /\ i = j
      BY <2>1 DEF Tree
    <3>2. 2 \in 2 .. 3 /\ 3 \in 2 .. 3
      OBVIOUS
    <3>3. \A s, t \in tables : \A i, j \in Index :
            table[s][i] = table[t][j] /\ table[s][i] # NULL => s = t /\ i = j
      BY <2>4, <2>6, <3>1, <3>2
    <3>4. x[1] = y[1] /\ x[2] = y[2]
      BY <2>6, <3>3
    <3> QED
      BY <3>4
  <2>7. \A v, w \in {u \in Page : Translate(pml4, u) # NULL} :
          Translate(pml4, v) = Translate(pml4, w) => v = w
    BY <2>1 DEF KernelPagesApart
  <2> QED
    BY <2>1, <2>3, <2>5, <2>6, <2>7 DEF TablesSound, Levels
<1> QED
  BY <1>1, Invariant, PTL

\* NoFrameLost: every frame taken is in a table, mapped, another component's or one that a
\* failed load is known to lose, after every request that fails on whatever level.
THEOREM NoFrameLost ==
  ASSUME ProgramsApart
  PROVE  Spec => []FramesAccounted
<1>1. IInv => FramesAccounted
  BY DEF IInv, MemoryInOrder
<1> QED
  BY <1>1, Invariant, PTL

\* HeapIsEverywhere: pages that expand adds to the heap are in the address spaces made
\* before, which share the kernel's table under entry 0.
THEOREM HeapIsEverywhere ==
  ASSUME ProgramsApart
  PROVE  Spec => []HeapEverywhere
<1>1. ASSUME IInv PROVE HeapEverywhere
  <2>1. Tree(table, Levels) /\ HeapMapped /\ heap_end \in 0 .. Len(HeapPage)
    BY <1>1 DEF IInv, MemoryInOrder, Kinds
  <2>2. SUFFICES ASSUME NEW i \in 1 .. heap_end, NEW root \in roots
                 PROVE  /\ Translate(pml4, HeapPage[i]) # NULL
                        /\ Translate(root, HeapPage[i]) = Translate(pml4, HeapPage[i])
    BY DEF HeapEverywhere
  <2>3. HeapPage[i] \in Page /\ HeapPage[i][1] = 0
    <3>1. i \in 1 .. Len(HeapPage)
      BY <2>1, PagesAssumption
    <3> QED
      BY <3>1, PagesAssumption
  <2>4. root \in Levels[1]
    BY DEF Levels, Roots
  <2> QED
    BY <2>1, <2>3, <2>4, SharedPage DEF HeapMapped, Translate
<1> QED
  BY <1>1, Invariant, PTL

\* ProgramsStayIntact: what loadElf and loadElfIntoPML4 have loaded is there as long as the
\* kernel runs, in address spaces made later as well.
THEOREM ProgramsStayIntact ==
  ASSUME ProgramsApart
  PROVE  Spec => []ProgramsIntact
<1>1. ASSUME IInv PROVE ProgramsIntact
  <2>1. PagesLoaded
    BY <1>1 DEF IInv
  <2>2. SUFFICES ASSUME NEW l \in loaded, NEW root \in SpacesOf(l),
                        NEW s \in DOMAIN Segments[l.program],
                        NEW i \in DOMAIN Segments[l.program][s]
                 PROVE  /\ Translate(root, Segments[l.program][s][i]) # NULL
                        /\ <<l.program, s>> \in content[Translate(root, Segments[l.program][s][i])]
    BY DEF ProgramsIntact, SpacesOf
  <2> QED
    BY <2>1, <2>2 DEF PagesLoaded
<1> QED
  BY <1>1, Invariant, PTL

\* PagesStay: no page that a root translates is unmapped or moved once the kernel is up:
\* mapPage refuses it, and the tables taken back after a failure have no page under them.
THEOREM PagesStay ==
  ASSUME ProgramsApart
  PROVE  Spec => TranslationsStay
<1>1. IInv /\ [Next]_vars =>
        [phase = "up" =>
           \A root \in Roots, v \in Page :
             Translate(root, v) \in {NULL, Translate(root, v)'}]_vars
  BY StepInOrder DEF Stay, Translate
<1> QED
  BY <1>1, Invariant, PTL DEF Spec, TranslationsStay

==============================================================================
