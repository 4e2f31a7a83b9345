--------------------------- MODULE Fat32LeakProofs ---------------------------
(***************************************************************************)
(* Proof that no cluster of the FAT32 volume leaks while the disk works    *)
(* and the power stays on: what is not free can be reached from the root,  *)
(* or from what the command that runs has not recorded yet or not given    *)
(* back yet.  Here the FAT is as the driver sees it, through its cache.    *)
(***************************************************************************)
EXTENDS Fat32Proofs, FiniteSetTheorems

\* updateDirEntry finds the files that are written.
NamesFound == \A n \in Written : n.base = n.ext

\* The clusters that the command has allocated and no entry records yet, or that it has
\* still to free.
Pending ==
  {c \in Cluster :
     \/ c = alloc.new /\ (\/ pc = "commit" /\ alloc.prev = NONE
                          \/ pc = "zero" /\ alloc.purpose \in {"mkdir", "first"})
     \/ c = file.first /\ (\/ pc \in {"dots", "undo", "link"}
                           \/ Adding /\ command.kind = "mkdir")
     \/ c = cur /\ pc = "free"}

FollowsLinks(S) == \A c \in S : Seen[c] \in Cluster => Seen[c] \in S

\* The cluster that a directory is growing by, before it is zeroed.
Hidden(c) == pc \in {"commit", "zero"} /\ alloc.purpose = "add" /\ c = alloc.new

\* Clusters S that what is in them does not lead out of; D are those of directories, where
\* alone entries are read: the text of a file may look like one.
Keeps(D, S) ==
  /\ root \in D /\ D \subseteq S /\ Pending \subseteq S /\ FollowsLinks(S)
  /\ \A c \in D : Seen[c] \in Cluster => Seen[c] \in D \/ Hidden(Seen[c])
  /\ \A c \in D, i \in Slot :
       Live(disk[c][i]) /\ disk[c][i].first # NONE =>
         disk[c][i].first \in S /\ (disk[c][i].kind = "dir" => disk[c][i].first \in D)

Reached ==
  \A D, S \in SUBSET Cluster :
    Keeps(D, S) => dir \in D /\ \A c \in Cluster : Seen[c] # FREE => c \in S

\* The directory that is looked in next is reached in directories, too.
Turned == \A D, S \in SUBSET Cluster : Keeps(D, S)' /\ dir \in D => dir' \in D

\* The directory that is looked in next is this one, the root, or one that an entry found
\* leads to.
Turns ==
  \/ dir' \in {dir, root}
  \/ pc = "look" /\ \E i \in Slot :
       Live(disk[cur][i]) /\ disk[cur][i].kind = "dir" /\ disk[cur][i].first = dir'

\* A cluster is linked from the end of a chain, and none from what is pending.
Ends ==
  /\ pc = "scan" /\ alloc.prev # NONE => Seen[alloc.prev] \notin Cluster
  /\ pc \notin {"link", "free"} => \A c \in Pending : Seen[c] \notin Cluster

\* The file that is written has an entry.
Stands ==
  Writing => \A S \in SUBSET Cluster :
               dir \in S /\ FollowsLinks(S) => \E c \in S, i \in Slot : Is(disk[c][i], Name)

Kept == faults = 0 /\ crashes = 0 => Reached /\ Ends /\ Stands

\* The clusters of directories, by a witness, and where they lead.
Inside(w, c) == c \in Cluster /\ w.own[c] \in w.dirs /\ ~ Hidden(c)
Tied(w) ==
  /\ Inside(w, root)
  /\ \A c \in Cluster :
       Inside(w, c) /\ Seen[c] \in Cluster => Inside(w, Seen[c]) \/ Hidden(Seen[c])
  /\ \A c \in Cluster, i \in Slot :
       Inside(w, c) /\ Live(disk[c][i]) /\ disk[c][i].kind = "dir" => Inside(w, disk[c][i].first)

\* Entry i of c is still there, and leads where it led.
Stays(c, i) ==
  /\ Live(disk'[c][i])
  /\ disk'[c][i].first = disk[c][i].first /\ disk'[c][i].kind = disk[c][i].kind

\* What the old links and entries reach is reached from X or from where the step leads.
Changes(w, X) ==
  /\ Tied(w) /\ Pending \subseteq X \cup Pending'
  /\ \A c \in Cluster : Inside(w, c) => ~ Hidden(c)'
  /\ \A c \in X : ~ Inside(w, c) /\ (Seen[c] \in Cluster => Seen[c] \in X \cup Pending')
  /\ \A c \in Cluster \ X : Seen[c] \in Cluster => Seen[c] \in X \/ Seen'[c] = Seen[c]
  /\ \A c \in Cluster, i \in Slot :
       Inside(w, c) /\ Live(disk[c][i]) /\ disk[c][i].first # NONE =>
         \/ disk[c][i].kind # "dir" /\ disk[c][i].first \in X \cup Pending'
         \/ Stays(c, i)

\* Nothing has failed before a step that nothing has failed after.
LEMMA CleanBefore ==
  ASSUME Typed, Grows(F, F'), faults' = 0, crashes = 0
  PROVE  faults = 0 /\ ~ Damaged
<1>1. F \in FatState /\ F' \in FatState
  BY TypesAre DEF Grows
<1>2. faults \in Nat /\ faults' \in Nat /\ faults <= faults'
  <2>1. F.faults = faults /\ F'.faults = faults'
    BY DEF F
  <2> QED
    BY <1>1, <2>1, CacheIs DEF Grows
<1>3. lost => faults > 0 \/ crashes > 0
  BY DEF Typed, CacheTyped
<1> QED
  BY <1>2, <1>3 DEF Damaged

\* Reads show the FAT as it was then.
LEMMA CleanReads ==
  ASSUME Typed, Typed', Reads(F, F'), faults' = 0, crashes' = 0, crashes' = crashes
  PROVE  faults = 0 /\ ~ Damaged /\ Seen' = Seen
<1>1. faults = 0 /\ ~ Damaged
  BY TypesAre, ReadsGrows, CleanBefore
<1>2. Agrees(F) /\ ~ lost'
  BY <1>1 DEF Typed, CacheTyped, Damaged
<1>3. F'.lost = lost'
  BY DEF F
<1> QED
  BY <1>1, <1>2, <1>3 DEF Reads, Seen

\* No request has failed in a step after which none has.
LEMMA NoFailure ==
  ASSUME Typed, faults' = 0
  PROVE  /\ \A kind, parted : ~ FailsWith(kind, parted)
         /\ \A kind : ~ Fails(kind)
         /\ \A c, units : ~ WriteFails(c, units)
<1>1. faults \in Nat
  BY TypesAre
<1>2. \A kind, parted : ~ FailsWith(kind, parted)
  BY <1>1 DEF FailsWith
<1> QED
  BY <1>2 DEF Fails, WriteFails

\* The clusters of directories lead to one another.
LEMMA GoodTied ==
  ASSUME Typed, NEW w, NEW going, NEW loc, NEW m, Good(w, going, loc, m)
  PROVE  Tied(w)
<1>1. /\ w \in Witness /\ Chains(fat, w) /\ Recorded(disk, w) /\ disk \in Disks
      /\ root \in w.dirs /\ w.dirs \subseteq Cluster /\ \A d \in w.dirs : w.own[d] = d /\ d # NONE
      /\ alloc.prev \in Cluster \cup {NONE}
  BY GoodIs, TypesAre
<1>2. pc = "commit" => w.own[alloc.new] = NONE /\ (alloc.prev # NONE => Seen[alloc.prev] = alloc.new)
  BY DEF Good, Control, Commits
<1>3. pc = "zero" => alloc.purpose # "add"
  BY DEF Good, Control, Kinds
<1>4. NONE \notin w.dirs
  BY <1>1, Constants
<1>5. \A c \in Cluster : w.own[c] \in w.dirs => ~ Hidden(c)
  BY <1>2, <1>3, <1>4 DEF Hidden
<1>6. Inside(w, root)
  BY <1>1, <1>5, Constants DEF Inside
<1>7. ASSUME NEW c \in Cluster, Inside(w, c), Seen[c] \in Cluster
      PROVE  Inside(w, Seen[c]) \/ Hidden(Seen[c])
  <2>1. w.own[c] \in w.dirs /\ w.own[c] # NONE
    BY <1>4, <1>7 DEF Inside
  <2>2. CASE Seen[c] = fat[c]
    <3>1. w.own[fat[c]] = w.own[c]
      BY <1>1, <1>7, <2>1, <2>2 DEF Chains
    <3> QED
      BY <1>5, <1>7, <2>1, <2>2, <3>1 DEF Inside
  <2>3. CASE Seen[c] # fat[c]
    <3>1. pc = "commit"
      BY <1>1, <2>1, <2>3, GoodIs
    <3>2. Known(fat, Seen, w, alloc.prev)
      BY <3>1 DEF Good, Structure, Sane, Moving
    <3>3. c = alloc.prev /\ alloc.prev # NONE
      BY <2>1, <2>3, <3>2, Constants DEF Known
    <3>4. alloc.purpose # "extend"
      <4>1. alloc.purpose = "extend" => w.own[alloc.prev] = file.first /\ file.first # NONE /\ Writing
        BY <3>1 DEF Good, Control, Writes, Writing, Allocating
      <4>2. alloc.purpose = "extend" => file.first \notin w.dirs
        BY <4>1 DEF Good, Control, Writes, Held
      <4> QED
        BY <2>1, <3>3, <4>1, <4>2
    <3>5. alloc.purpose \in Purposes /\ alloc.purpose \notin {"mkdir", "first"}
      BY <3>1, <3>3 DEF Good, Control, Kinds, Allocating, Typed, ControlTyped, AllocTyped
    <3>6. Seen[c] = alloc.new
      BY <1>2, <3>1, <3>3
    <3> QED
      BY <3>1, <3>4, <3>5, <3>6 DEF Hidden, Purposes
  <2> QED
    BY <2>2, <2>3
<1>8. ASSUME NEW c \in Cluster, NEW i \in Slot, Inside(w, c), Live(disk[c][i]), disk[c][i].kind = "dir"
      PROVE  Inside(w, disk[c][i].first)
  <2>1. Entry(disk, w, c, i)
    BY <1>8 DEF Entry, Inside
  <2>2. disk[c][i].first \in w.dirs
    BY <1>1, <1>8, <2>1 DEF Recorded
  <2> QED
    BY <1>1, <1>5, <2>2 DEF Inside
<1> QED
  BY <1>6, <1>7, <1>8 DEF Tied

\* So they do when one is just growing.
LEMMA AwaitingTied ==
  ASSUME Typed, NEW w, Awaiting(w)
  PROVE  Tied(w)
<1>1. /\ alloc.new \in Cluster /\ Differs(disk, Zeroed, alloc.new)
      /\ w \in Witness /\ Chains(fat, w) /\ Recorded(Zeroed, w) /\ Known(fat, Seen, w, NONE)
      /\ w.rank[alloc.new] > 0
  BY AwaitingIs DEF Awaiting, Sane
<1>2. root \in w.dirs /\ w.dirs \subseteq Cluster /\ \A d \in w.dirs : w.own[d] = d
  BY <1>1 DEF Recorded, Witness
<1>3. \A d \in w.dirs : ~ Hidden(d)
  <2>1. ASSUME NEW d \in w.dirs, d = alloc.new PROVE FALSE
    <3>1. w.own[d] = d /\ d # NONE /\ d \in Cluster
      BY <1>2, Constants
    <3>2. w.rank[d] = 0
      BY <1>1, <3>1 DEF Chains
    <3> QED
      BY <1>1, <2>1, <3>2
  <2> QED
    BY <2>1 DEF Hidden
<1>4. \A d \in w.dirs : Inside(w, d)
  BY <1>2, <1>3 DEF Inside
<1>5. ASSUME NEW c \in Cluster, Inside(w, c), Seen[c] \in Cluster
      PROVE  Inside(w, Seen[c]) \/ Hidden(Seen[c])
  <2>1. w.own[c] \in w.dirs /\ w.own[c] # NONE /\ c # NONE
    BY <1>2, <1>5, Constants DEF Inside
  <2>2. Seen[c] = fat[c]
    BY <1>1, <2>1 DEF Known
  <2>3. w.own[fat[c]] = w.own[c]
    BY <1>1, <1>5, <2>1, <2>2 DEF Chains
  <2> QED
    BY <1>5, <2>1, <2>2, <2>3 DEF Inside
<1>6. ASSUME NEW c \in Cluster, NEW i \in Slot, Inside(w, c), Live(disk[c][i]), disk[c][i].kind = "dir"
      PROVE  Inside(w, disk[c][i].first)
  <2>1. c # alloc.new
    BY <1>6 DEF Inside, Hidden, Awaiting
  <2>2. Zeroed[c] = disk[c]
    BY <1>1, <2>1 DEF Differs
  <2>3. Entry(Zeroed, w, c, i)
    BY <1>6, <2>2 DEF Entry, Inside
  <2>4. disk[c][i].first \in w.dirs
    BY <1>1, <1>6, <2>2, <2>3 DEF Recorded
  <2> QED
    BY <1>4, <2>4
<1> QED
  BY <1>2, <1>4, <1>5, <1>6 DEF Tied

\* A step that goes to the root or stays in its directory.
LEMMA SameDirectory ==
  ASSUME dir' \in {dir, root}
  PROVE  Turned
BY DEF Turned, Keeps

LEMMA ReachedBut ==
  ASSUME Reached, NEW X \in SUBSET Cluster, NEW w, Changes(w, X),
         NEW D \in SUBSET Cluster, NEW S \in SUBSET Cluster, Keeps(D, S)'
  PROVE  dir \in D /\ \A c \in Cluster : Seen[c] # FREE => c \in S \cup X
<1> DEFINE T == S \cup X
           E == {c \in D : Inside(w, c)}
<1>1. /\ root \in D /\ D \subseteq S /\ Pending' \subseteq S
      /\ \A c \in S : Seen'[c] \in Cluster => Seen'[c] \in S
      /\ \A c \in D : Seen'[c] \in Cluster => Seen'[c] \in D \/ Hidden(Seen[c])'
      /\ \A c \in D, i \in Slot :
           Live(disk'[c][i]) /\ disk'[c][i].first # NONE =>
             disk'[c][i].first \in S /\ (disk'[c][i].kind = "dir" => disk'[c][i].first \in D)
  BY DEF Keeps, FollowsLinks
<1>2. root \in E /\ Pending \subseteq T
  BY <1>1 DEF Changes, Tied
<1>3. FollowsLinks(T)
  <2>1. SUFFICES ASSUME NEW c \in T, Seen[c] \in Cluster PROVE Seen[c] \in T
    BY DEF FollowsLinks
  <2>2. CASE c \in X
    BY <1>1, <2>1, <2>2 DEF Changes
  <2>3. CASE c \notin X
    <3>1. c \in Cluster \ X /\ c \in S
      BY <2>3
    <3>2. Seen[c] \in X \/ Seen'[c] = Seen[c]
      BY <2>1, <3>1 DEF Changes
    <3> QED
      BY <1>1, <2>1, <3>1, <3>2
  <2> QED
    BY <2>2, <2>3
<1>4. ASSUME NEW c \in E, Seen[c] \in Cluster
      PROVE  Seen[c] \in E \/ Hidden(Seen[c])
  <2>1. c \in D /\ Inside(w, c) /\ c \in Cluster \ X
    BY DEF Changes
  <2>2. CASE Inside(w, Seen[c])
    <3>1. Seen[c] \notin X /\ ~ Hidden(Seen[c])'
      BY <1>4, <2>2 DEF Changes
    <3>2. Seen'[c] = Seen[c]
      BY <1>4, <2>1, <3>1 DEF Changes
    <3>3. Seen[c] \in D
      BY <1>1, <1>4, <2>1, <3>1, <3>2
    <3> QED
      BY <2>2, <3>3
  <2>3. CASE Hidden(Seen[c])
    BY <2>3
  <2> QED
    BY <1>4, <2>1, <2>2, <2>3 DEF Changes, Tied
<1>5. ASSUME NEW c \in E, NEW i \in Slot, Live(disk[c][i]), disk[c][i].first # NONE
      PROVE  disk[c][i].first \in T /\ (disk[c][i].kind = "dir" => disk[c][i].first \in E)
  <2>1. c \in D /\ Inside(w, c) /\ c \in Cluster
    OBVIOUS
  <2>2. \/ disk[c][i].kind # "dir" /\ disk[c][i].first \in X \cup Pending'
        \/ Stays(c, i)
    BY <1>5, <2>1 DEF Changes
  <2>3. disk[c][i].kind = "dir" => Inside(w, disk[c][i].first)
    BY <1>5, <2>1 DEF Changes, Tied
  <2>4. CASE disk[c][i].kind # "dir" /\ disk[c][i].first \in X \cup Pending'
    BY <1>1, <2>4
  <2>5. CASE Stays(c, i)
    BY <1>1, <1>5, <2>1, <2>3, <2>5 DEF Stays
  <2> QED
    BY <2>2, <2>4, <2>5
<1>6. T \in SUBSET Cluster /\ E \in SUBSET Cluster /\ E \subseteq T
  BY <1>1
<1> HIDE DEF T, E
<1>7. Keeps(E, T)
  BY <1>2, <1>3, <1>4, <1>5, <1>6 DEF Keeps
<1>8. dir \in E /\ \A c \in Cluster : Seen[c] # FREE => c \in T
  BY <1>6, <1>7 DEF Reached
<1> QED
  BY <1>8 DEF T, E

\* Nothing is left behind when all that was reached is still, and what is new is linked to
\* it or pending.
LEMMA ReachedStays ==
  ASSUME Reached, NEW w, Changes(w, {}), Turned,
         \A c \in Cluster : Seen'[c] # FREE =>
           Seen[c] # FREE \/ c \in Pending' \/ \E p \in Cluster : Seen[p] # FREE /\ Seen'[p] = c
  PROVE  Reached'
<1>1. SUFFICES ASSUME NEW D \in SUBSET Cluster, NEW S \in SUBSET Cluster, Keeps(D, S)'
               PROVE  dir' \in D /\ \A c \in Cluster : Seen'[c] # FREE => c \in S
  BY DEF Reached
<1>2. dir \in D /\ \A b \in Cluster : Seen[b] # FREE => b \in S
  <2>1. dir \in D /\ \A b \in Cluster : Seen[b] # FREE => b \in S \cup {}
    BY <1>1, ReachedBut
  <2> QED
    BY <2>1
<1>3. Pending' \subseteq S /\ \A b \in S : Seen'[b] \in Cluster => Seen'[b] \in S
  BY <1>1 DEF Keeps, FollowsLinks
<1> QED
  BY <1>1, <1>2, <1>3 DEF Turned

LEMMA ReachedQuiet ==
  ASSUME Reached, NEW w, Tied(w), Turned, Seen' = Seen, disk' = disk, Pending \subseteq Pending',
         pc' \in {"commit", "zero"} => pc \in {"commit", "zero"} /\ alloc' = alloc
  PROVE  Reached'
<1>1. \A c \in Cluster : Inside(w, c) => ~ Hidden(c)'
  BY DEF Inside, Hidden
<1>2. Changes(w, {})
  BY <1>1 DEF Changes, Stays
<1> QED
  BY <1>2, ReachedStays

\* A chain is in every set that has its first cluster and that no link leads out of.
LEMMA ChainInside ==
  ASSUME NEW t, NEW w \in Witness, Chains(t, w), NEW h \in Cluster, w.own[h] = h,
         NEW S, h \in S, \A c \in S : w.own[c] = h /\ t[c] \in Cluster => t[c] \in S
  PROVE  \A c \in Cluster : w.own[c] = h => c \in S
<1> DEFINE In == {k \in Nat : \A c \in Cluster : w.own[c] = h /\ w.rank[c] = k => c \in S}
<1>1. h # NONE /\ w.rank[h] = 0
  BY Constants DEF Chains
<1>2. 0 \in In
  <2>1. ASSUME NEW c \in Cluster, w.own[c] = h, w.rank[c] = 0 PROVE c \in S
    <3>1. c = h
      BY <1>1, <2>1 DEF Chains
    <3> QED
      BY <3>1
  <2> QED
    BY <2>1
<1>3. ASSUME NEW k \in In PROVE k + 1 \in In
  <2>1. ASSUME NEW c \in Cluster, w.own[c] = h, w.rank[c] = k + 1 PROVE c \in S
    <3>1. c # h
      BY <1>1, <2>1
    <3>2. PICK p \in Cluster : w.own[p] = h /\ t[p] = c
      BY <1>1, <2>1, <3>1 DEF Chains
    <3>3. w.rank[c] = w.rank[p] + 1
      BY <1>1, <3>2 DEF Chains
    <3>4. w.rank[p] = k
      BY <2>1, <3>3, WitnessIs
    <3> QED
      BY <3>2, <3>4
  <2> QED
    BY <2>1
<1>4. In = Nat
  <2>1. In \in SUBSET Nat
    OBVIOUS
  <2> HIDE DEF In
  <2> QED
    BY <1>2, <1>3, <2>1, SetInduction
<1> QED
  BY <1>4, WitnessIs

\* What is reached from a directory's first cluster has all its clusters.
LEMMA StandsThere ==
  ASSUME Typed, NEW w, NEW going, NEW loc, NEW m, Good(w, going, loc, m), pc # "commit",
         Seen' = Seen, NEW S, dir \in S, \A c \in S : Seen'[c] \in Cluster => Seen'[c] \in S
  PROVE  \A c \in Cluster : w.own[c] = dir => c \in S
<1>1. /\ w \in Witness /\ Chains(fat, w) /\ dir \in Cluster /\ w.own[dir] = dir /\ dir # NONE
      /\ \A c \in Cluster : w.own[c] # NONE => Seen[c] = fat[c]
  BY GoodIs
<1>2. PICK T : T = S \cap Cluster
  OBVIOUS
<1>3. dir \in T /\ \A c \in T : w.own[c] = dir /\ fat[c] \in Cluster => fat[c] \in T
  BY <1>1, <1>2
<1>4. PICK h \in Cluster : h = dir
  BY <1>1
<1>5. \A c \in Cluster : w.own[c] = h => c \in T
  BY <1>1, <1>3, <1>4, ChainInside
<1> QED
  BY <1>2, <1>4, <1>5

\* The file that is written keeps its entry when its directory's chain stays as it is.
LEMMA StandsOn ==
  ASSUME Typed, NEW w, NEW going, NEW loc, NEW m, Good(w, going, loc, m), Stands, Writing,
         UNCHANGED <<dir, command>>,
         \A c \in Cluster : w.own[c] = dir => Seen[c] = fat[c] /\ Seen'[c] = Seen[c],
         \A c \in Cluster, i \in Slot :
           w.own[c] = dir /\ Is(disk[c][i], Name) => Is(disk'[c][i], Name)
  PROVE  Stands'
<1>1. Name' = Name
  BY DEF Name
<1>2. SUFFICES ASSUME NEW S \in SUBSET Cluster, dir \in S,
                      \A c \in S : Seen'[c] \in Cluster => Seen'[c] \in S
               PROVE  \E c \in S, i \in Slot : Is(disk'[c][i], Name)
  BY <1>1 DEF Stands, FollowsLinks
<1>3. w \in Witness /\ Chains(fat, w) /\ w.own[dir] = dir /\ dir \in Cluster /\ dir # NONE
  BY GoodIs
<1>4. PICK T \in SUBSET Cluster : T = {c \in S : w.own[c] = dir}
  OBVIOUS
<1>5. FollowsLinks(T)
  <2>1. SUFFICES ASSUME NEW c \in T, Seen[c] \in Cluster PROVE Seen[c] \in T
    BY DEF FollowsLinks
  <2>2. c \in S /\ w.own[c] = dir /\ Seen[c] = fat[c] /\ Seen'[c] = Seen[c]
    BY <1>4, <2>1
  <2>3. w.own[Seen[c]] = dir
    BY <1>3, <2>1, <2>2 DEF Chains
  <2> QED
    BY <1>2, <1>4, <2>1, <2>2, <2>3
<1>6. PICK c \in T, i \in Slot : Is(disk[c][i], Name)
  BY <1>2, <1>3, <1>4, <1>5 DEF Stands
<1> QED
  BY <1>4, <1>6

\* Where nothing is pending and no chain is about to grow.
LEMMA Calm ==
  /\ pc \in {"idle", "look", "next", "walk", "last", "data", "read", "wrote", "mark", "freed"}
       => Pending = {} /\ Ends
  /\ pc' \in {"idle", "look", "next", "walk", "last", "data", "read", "wrote", "mark", "freed"}
       => Pending' = {} /\ Ends'
  BY DEF Pending, Ends, Adding, Allocating

LEMMA CleanKept ==
  ASSUME Typed, Kept, Grows(F, F'), faults' = 0, crashes' = 0, crashes' = crashes
  PROVE  faults = 0 /\ crashes = 0 /\ ~ Damaged /\ Reached /\ Ends /\ Stands
  BY CleanBefore DEF Kept

\* An entry that leads to a directory is read in a directory that is reached.
LEMMA TurnsReach ==
  ASSUME Typed, Typed', NEW w, NEW going, NEW loc, NEW m, Good(w, going, loc, m),
         Seen' = Seen, disk' = disk, pc # "commit", pc' \notin {"commit", "zero"}, Turns
  PROVE  Turned
<1>1. SUFFICES ASSUME NEW D \in SUBSET Cluster, NEW S \in SUBSET Cluster, Keeps(D, S)', dir \in D
               PROVE  dir' \in D
  BY DEF Turned
<1>2. root \in D /\ \A c \in D : Seen'[c] \in Cluster => Seen'[c] \in D
  BY <1>1 DEF Keeps, Hidden
<1>3. ASSUME pc = "look", NEW i \in Slot,
             Live(disk[cur][i]), disk[cur][i].kind = "dir", disk[cur][i].first = dir'
      PROVE  dir' \in D
  <2>1. cur \in Cluster /\ w.own[cur] = dir
    BY <1>3, TypesAre DEF Good, Control, Searching
  <2>2. \A c \in Cluster : w.own[c] = dir => c \in D
    BY <1>1, <1>2, StandsThere
  <2>3. dir' \in Cluster
    BY DEF Typed, ControlTyped, LoopTyped
  <2> QED
    BY <1>1, <1>3, <2>1, <2>2, <2>3, Constants DEF Keeps
<1> QED
  BY <1>1, <1>2, <1>3 DEF Turns

\* Nothing leaks when a command only reads.
LEMMA QuietKept ==
  ASSUME Typed, Typed', Promise, Kept, Reads(F, F'), crashes' = crashes, disk' = disk,
         pc \notin {"commit", "zero"}, pc' \notin {"commit", "zero"}, Pending \subseteq Pending',
         Turns, Writing' => Writing /\ UNCHANGED <<dir, command>>,
         faults' = faults /\ Ends /\ Seen' = Seen => Ends'
  PROVE  Kept'
<1>1. SUFFICES ASSUME faults' = 0, crashes' = 0 PROVE Reached' /\ Ends' /\ Stands'
  BY DEF Kept
<1>2. Grows(F, F') /\ Seen' = Seen
  BY <1>1, TypesAre, ReadsGrows, CleanReads
<1>3. faults = 0 /\ ~ Damaged /\ Reached /\ Ends /\ Stands
  BY <1>1, <1>2, CleanKept
<1>4. PICK w, going, loc, m : Good(w, going, loc, m)
  BY <1>3, PromiseIs
<1>5. Reached'
  <2>1. Turned
    BY <1>2, <1>4, TurnsReach
  <2> QED
    BY <1>2, <1>3, <1>4, <2>1, GoodTied, ReachedQuiet
<1>6. Stands'
  <2>1. CASE Writing'
    <3>1. dir \in Cluster /\ dir # NONE /\ \A c \in Cluster : w.own[c] # NONE => Seen[c] = fat[c]
      BY <1>4, GoodIs
    <3> QED
      BY <1>2, <1>3, <1>4, <2>1, <3>1, StandsOn
  <2>2. CASE ~ Writing'
    BY <2>2 DEF Stands
  <2> QED
    BY <2>1, <2>2
<1> QED
  BY <1>1, <1>2, <1>3, <1>5, <1>6

\* A command that has returned writes no file.
LEMMA ReturnKept ==
  ASSUME NEW ok, NEW data, Return(ok, data)
  PROVE  /\ pc' = "idle" /\ crashes' = crashes /\ dir' = root
         /\ Pending' = {} /\ Ends' /\ ~ Writing' /\ Stands'
<1>1. pc' = "idle" /\ crashes' = crashes /\ dir' = root
  BY DEF Return
<1>2. ~ Writing'
  BY <1>1 DEF Writing, Allocating
<1> QED
  BY <1>1, <1>2, Calm DEF Stands

LEMMA InitKept ==
  ASSUME Init
  PROVE  Kept
<1>1. Seen = fat
  <2>1. \A c \in Cluster : Sector(c) # -1
    BY SectorIsFatSector
  <2> QED
    BY <2>1 DEF Init, NoCache, Seen, SeenIn, F
<1>2. Reached
  BY <1>1, Constants DEF Init, Reached, Keeps
<1>3. Ends /\ Stands
  BY Calm DEF Init, Stands, Writing, Allocating
<1> QED
  BY <1>2, <1>3 DEF Kept

LEMMA CrashKept ==
  ASSUME Typed, Crash
  PROVE  Kept'
<1>1. crashes' # 0
  BY TypesAre DEF Crash
<1> QED
  BY <1>1 DEF Kept

LEMMA CallKept ==
  ASSUME Typed, Typed', Promise, Kept, NEW c \in Command, Call(c)
  PROVE  Kept'
<1>1. /\ pc = "idle" /\ pc' = "look" /\ UNCHANGED <<fat, cache, faults, lost>> /\ disk' = disk
      /\ crashes' = crashes /\ dir' = root
  BY DEF Call, LookUp, fatVars
<1>2. Reads(F, F')
  BY <1>1, AloneGrows
<1>3. ~ Writing'
  BY <1>1 DEF Writing, Allocating
<1> QED
  BY <1>1, <1>2, <1>3, Calm, QuietKept DEF Turns

LEMMA NextUnitsKept ==
  ASSUME Typed, Typed', Promise, Kept, NextUnits
  PROVE  Kept'
<1>1. /\ pc = "next" /\ UNCHANGED <<disk, fatVars, dir>> /\ UNCHANGED <<command, crashes>>
      /\ command # NULL
  BY TypesAre DEF NextUnits, Goto, Allocate
<1>2. Reads(F, F')
  BY <1>1, AloneGrows DEF fatVars
<1>3. /\ pc' = "scan" => alloc'.prev = NONE /\ alloc'.purpose = "first" /\ command.kind = "write"
      /\ pc' # "scan" => pc' \in {"walk", "read", "wrote"}
  BY DEF NextUnits, Goto, Allocate
<1>4. Ends' /\ Pending = {}
  <2>1. CASE pc' = "scan"
    BY <1>1, <1>3, <2>1, Calm DEF Ends, Pending, Adding, Allocating
  <2> QED
    BY <1>1, <1>3, <2>1, Calm
<1>5. Writing' => Writing
  BY <1>1, <1>3 DEF Writing, Allocating
<1> QED
  BY <1>1, <1>2, <1>3, <1>4, <1>5, QuietKept DEF Turns

LEMMA WalkKept ==
  ASSUME Typed, Typed', Promise, Kept, Walk
  PROVE  Kept'
<1>1. /\ pc = "walk" /\ UNCHANGED <<disk, dir, command, crashes>>
      /\ command # NULL /\ FTyped /\ cur \in Cluster /\ F \in FatState
      /\ pc' \in {"data", "walk", "last", "read"}
  BY TypesAre DEF Walk, Goto
<1>2. Reads(F, F')
  <2>1. CASE count = 0
    BY <2>1, AloneGrows DEF fatVars, Walk
  <2>2. CASE count # 0
    <3>1. PICK n \in getNextCluster(F, cur) : Becomes(n.f)
      BY <2>2 DEF Walk
    <3> QED
      BY <1>1, <3>1, NextReads
  <2> QED
    BY <2>1, <2>2
<1>3. Writing' => Writing
  BY <1>1 DEF Writing, Allocating
<1> QED
  BY <1>1, <1>2, <1>3, Calm, QuietKept DEF Turns

LEMMA LastClusterKept ==
  ASSUME Typed, Typed', Promise, Kept, LastCluster
  PROVE  Kept'
<1>1. /\ pc = "last" /\ UNCHANGED <<disk, dir, command, crashes>>
      /\ command # NULL /\ FTyped /\ cur \in Cluster /\ F \in FatState
  BY TypesAre DEF LastCluster, Goto, Allocate
<1>2. PICK n \in getNextCluster(F, cur) :
        /\ Becomes(n.f)
        /\ IF n.next # NONE
           THEN cur' = n.next /\ Goto("last") /\ UNCHANGED alloc
           ELSE Allocate(cur, "extend") /\ UNCHANGED cur
  BY DEF LastCluster
<1>3. Reads(F, F') /\ (faults' = faults /\ n.next = NONE => ~ {fat[cur], Seen[cur]} \subseteq Cluster)
  BY <1>1, <1>2, NextReads
<1>4. Pending = {} /\ (pc' = "last" \/ (pc' = "scan" /\ n.next = NONE /\ alloc' = [sector |-> 0, prev |-> cur, new |-> NONE, purpose |-> "extend"]))
  BY <1>1, <1>2, Calm DEF Goto, Allocate
<1>5. SUFFICES ASSUME ~ Damaged' PROVE Kept'
  <2>1. Damaged' => faults' # 0 \/ crashes' # 0
    BY DEF Damaged, Typed, CacheTyped
  <2> QED
    BY <1>5, <2>1 DEF Kept
<1>6. ~ Damaged
  BY <1>1, <1>3, <1>5, ReadsGrows, NotMended
<1>7. PICK w, going, loc, m : Good(w, going, loc, m)
  BY <1>1, <1>6, PromiseIs
<1>8. command.kind = "write"
  BY <1>1, <1>7 DEF Good, Control, Kinds
<1>9. Writing
  BY <1>1, <1>8 DEF Writing
<1>10. Seen[cur] = fat[cur]
  <2>1. file.first # NONE /\ w.own[cur] = file.first
    BY <1>1, <1>7, <1>9 DEF Good, Control, Writes
  <2> QED
    BY <1>1, <1>7, <2>1, GoodIs
<1>11. faults' = faults /\ Seen' = Seen => Ends'
  <2>1. CASE pc' = "last"
    BY <2>1, Calm
  <2>2. CASE pc' = "scan"
    <3>1. Pending' = {}
      BY <1>4, <2>2 DEF Pending, Adding, Allocating
    <3> QED
      BY <1>3, <1>4, <1>10, <2>2, <3>1 DEF Ends
  <2> QED
    BY <1>4, <2>1, <2>2
<1> QED
  BY <1>1, <1>3, <1>4, <1>9, <1>11, QuietKept DEF Turns

LEMMA ReadDataKept ==
  ASSUME Typed, Typed', Promise, Kept, ReadData
  PROVE  Kept'
<1>1. /\ pc = "data" /\ UNCHANGED <<fat, cache, disk, dir, command, crashes>>
      /\ command.kind = "cat" /\ pc' \in {"next", "read"}
  BY DEF ReadData, Goto
<1>2. Reads(F, F')
  BY <1>1, AloneGrows DEF ReadData, Succeeds, Fails
<1>3. ~ Writing'
  BY <1>1 DEF Writing, Allocating
<1> QED
  BY <1>1, <1>2, <1>3, Calm, QuietKept DEF Turns

LEMMA ReadKept ==
  ASSUME Typed, Typed', Promise, Kept, Read
  PROVE  Kept'
<1>1. pc = "read" /\ UNCHANGED <<disk, fatVars>> /\ crashes' = crashes /\ pc' \in {"next", "idle"}
      /\ dir' \in {dir, root}
  BY DEF Read, Goto, Return
<1>2. Reads(F, F')
  BY <1>1, AloneGrows DEF fatVars
<1>3. SUFFICES ASSUME ~ Damaged' PROVE Kept'
  <2>1. Damaged' => faults' # 0 \/ crashes' # 0
    BY DEF Damaged, Typed, CacheTyped
  <2> QED
    BY <1>3, <2>1 DEF Kept
<1>4. ~ Writing'
  <2>1. ~ Damaged
    BY <1>2, <1>3, TypesAre, ReadsGrows, NotMended
  <2>2. PICK w, going, loc, m : Good(w, going, loc, m)
    BY <1>1, <2>1, PromiseIs
  <2>3. command.kind # "write"
    BY <1>1, <2>2 DEF Good, Control, Kinds
  <2>4. pc' = "next" => command' = command
    BY DEF Read, Goto, Return
  <2> QED
    BY <1>1, <2>3, <2>4 DEF Writing, Allocating
<1> QED
  BY <1>1, <1>2, <1>4, Calm, QuietKept DEF Turns

LEMMA WroteKept ==
  ASSUME Typed, Typed', Promise, Kept, Wrote
  PROVE  Kept'
<1>1. pc = "wrote" /\ UNCHANGED <<disk, fatVars>> /\ crashes' = crashes /\ pc' \in {"link", "idle"}
      /\ (pc' = "link" => UNCHANGED <<dir, command>>) /\ command # NULL
      /\ dir' \in {dir, root}
  BY TypesAre DEF Wrote, Goto, Return
<1>2. Reads(F, F')
  BY <1>1, AloneGrows DEF fatVars
<1>3. Ends' /\ Pending = {}
  <2>1. pc' = "link" => Ends'
    BY DEF Ends
  <2> QED
    BY <1>1, <2>1, Calm
<1>4. Writing' => Writing /\ UNCHANGED <<dir, command>>
  BY <1>1 DEF Writing, Allocating
<1> QED
  BY <1>1, <1>2, <1>3, <1>4, QuietKept DEF Turns

LEMMA FreedKept ==
  ASSUME Typed, Typed', Promise, Kept, Freed
  PROVE  Kept'
<1>1. pc = "freed" /\ disk' = disk /\ Return(TRUE, << >>) /\ \E f \in flushFatCache(F) : Becomes(f)
  BY DEF Freed
<1>2. Reads(F, F')
  BY <1>1, TypesAre, FlushReads, BecomesIs DEF Reads
<1> QED
  BY <1>1, <1>2, Calm, ReturnKept, QuietKept DEF Turns

\* A name that is not there is looked up again or created, or the command returns.
LEMMA NotFoundKept ==
  ASSUME Typed, Typed', Promise, Kept, pc = "look", Reads(F, F'), NotFound
  PROVE  Kept'
<1>1. disk' = disk /\ crashes' = crashes /\ dir' \in {dir, root}
      /\ \/ pc' \in {"look", "idle"}
         \/ pc' = "add" /\ command' = command /\ command.kind # "mkdir"
         \/ pc' = "scan" /\ alloc'.prev = NONE /\ alloc'.purpose = "mkdir"
  BY DEF NotFound, Goto, Return, Allocate, LookUp
<1>2. ~ Writing'
  BY <1>1 DEF Writing, Allocating
<1>3. Pending = {} /\ Ends'
  <2>1. CASE pc' \in {"look", "idle"}
    BY <2>1, Calm
  <2>2. CASE pc' = "add" /\ command' = command /\ command.kind # "mkdir"
    BY <2>2, Calm DEF Ends, Pending, Adding, Allocating
  <2>3. CASE pc' = "scan" /\ alloc'.prev = NONE /\ alloc'.purpose = "mkdir"
    BY <2>3, Calm DEF Ends, Pending, Adding, Allocating
  <2> QED
    BY <1>1, <2>1, <2>2, <2>3, Calm
<1> QED
  BY <1>1, <1>2, <1>3, QuietKept DEF Turns

\* A file that is opened to be written is the one with that name.
LEMMA OpenedKept ==
  ASSUME Typed, Typed', Promise, Kept, pc = "look", UNCHANGED fatVars, Len(rest) = 1,
         NEW i \in Slot, Is(disk[cur][i], Head(rest)), Opened(disk[cur][i])
  PROVE  Kept'
<1>1. disk' = disk /\ crashes' = crashes /\ pc' \in {"look", "idle", "mark", "next"}
      /\ (pc' = "next" => UNCHANGED <<dir, command>>) /\ Turns
  BY DEF Opened, Goto, Return, LookUp, Turns, Is
<1>2. Reads(F, F')
  BY AloneGrows DEF fatVars
<1>3. CASE ~ Writing'
  BY <1>1, <1>2, <1>3, Calm, QuietKept
<1>4. CASE Writing'
  <2>1. pc' = "next" /\ command.kind = "write" /\ UNCHANGED <<dir, command>>
    BY <1>1, <1>4 DEF Writing, Allocating
  <2>2. SUFFICES ASSUME faults' = 0, crashes' = 0 PROVE Reached' /\ Ends' /\ Stands'
    BY DEF Kept
  <2>3. Grows(F, F') /\ Seen' = Seen
    BY <1>1, <1>2, <2>2, TypesAre, ReadsGrows, CleanReads
  <2>4. faults = 0 /\ ~ Damaged /\ Reached
    BY <1>1, <2>2, <2>3, CleanKept
  <2>5. PICK w, g, loc, m : Good(w, g, loc, m)
    BY <2>4, PromiseIs
  <2>6. Reached' /\ Ends'
    <3>1. Turned
      BY <1>1, <2>1, <2>3, <2>5, TurnsReach
    <3> QED
      BY <1>1, <2>1, <2>3, <2>4, <2>5, <3>1, GoodTied, Calm, ReachedQuiet
  <2>7. Head(rest) = Name
    <3>1. Led(disk, w, command.path, loc, m) /\ AtComponent(loc, m)
      BY <2>5 DEF Good, Control, Looking
    <3>2. PICK k \in 1 .. m :
            /\ Head(rest) = command.path[k] /\ Len(rest) = Upto - k + 1 /\ k <= Upto
            /\ Upto \in Nat /\ m \in Nat
            /\ Upto = Len(command.path) => command.path[Upto] = Name
      BY <3>1, RestIs
    <3>3. Upto = k
      BY <3>2
    <3>4. Upto = Len(command.path)
      BY <2>1 DEF Upto
    <3> QED
      BY <3>2, <3>3, <3>4
  <2>8. Stands'
    <3>1. SUFFICES ASSUME NEW S \in SUBSET Cluster, dir \in S,
                          \A c \in S : Seen'[c] \in Cluster => Seen'[c] \in S
                   PROVE  \E c \in S, j \in Slot : Is(disk'[c][j], Name')
      BY <2>1 DEF Stands, FollowsLinks
    <3>2. w.own[cur] = dir /\ cur \in Cluster
      BY <2>5, TypesAre DEF Good, Control, Searching
    <3>3. cur \in S
      BY <2>3, <2>5, <3>1, <3>2, StandsThere
    <3>4. Name' = Name
      BY <2>1 DEF Name
    <3> QED
      BY <1>1, <2>7, <3>3, <3>4
  <2> QED
    BY <2>6, <2>8
<1> QED
  BY <1>3, <1>4

LEMMA LookKept ==
  ASSUME Typed, Typed', Promise, Kept, Look
  PROVE  Kept'
<1>1. /\ FTyped /\ cur \in Cluster /\ pc = "look"
  BY TypesAre DEF Look
<1>2. \/ \E i \in Slot :
           Is(disk[cur][i], Head(rest)) /\ UNCHANGED fatVars /\ LookFound(disk[cur][i])
      \/ UNCHANGED fatVars /\ NotFound
      \/ \E n \in Cluster \cup {NONE} : Onward(n) /\ (NotFound \/ GoOn(n))
  BY <1>1, LookCases
<1>3. UNCHANGED fatVars => Reads(F, F')
  BY AloneGrows DEF fatVars
<1>4. ASSUME pc' = "look", disk' = disk, crashes' = crashes, Reads(F, F'), Turns PROVE Kept'
  <2>1. ~ Writing'
    BY <1>4 DEF Writing, Allocating
  <2> QED
    BY <1>1, <1>4, <2>1, Calm, QuietKept
<1>5. ASSUME NEW i \in Slot, Is(disk[cur][i], Head(rest)), UNCHANGED fatVars, LookFound(disk[cur][i])
      PROVE  Kept'
  <2>1. CASE Len(rest) = 1
    BY <1>1, <1>5, <2>1, OpenedKept DEF LookFound
  <2>2. CASE Len(rest) # 1 /\ disk[cur][i].kind # "dir"
    BY <1>1, <1>3, <1>5, <2>2, NotFoundKept DEF LookFound
  <2>3. CASE Len(rest) # 1 /\ disk[cur][i].kind = "dir"
    BY <1>1, <1>3, <1>4, <1>5, <2>3 DEF LookFound, Goto, Turns, Is
  <2> QED
    BY <2>1, <2>2, <2>3
<1>6. ASSUME NEW n, Onward(n), NotFound \/ GoOn(n) PROVE Kept'
  <2>1. Reads(F, F')
    BY <1>6 DEF Onward
  <2>2. GoOn(n) => pc' = "look" /\ disk' = disk /\ crashes' = crashes /\ Turns
    BY <1>1 DEF GoOn, Goto, Turns
  <2> QED
    BY <1>1, <1>4, <1>6, <2>1, <2>2, NotFoundKept
<1> QED
  BY <1>1, <1>2, <1>3, <1>5, <1>6, NotFoundKept

\* No cluster was found, or none yet.
LEMMA ScanOnKept ==
  ASSUME Typed, Typed', Promise, Kept, pc = "scan", Reads(F, F'), disk' = disk, ScanOn
  PROVE  Kept'
<1>1. /\ alloc.purpose \in Purposes /\ command # NULL
      /\ alloc \in [sector : FatSector, prev : Cluster \cup {NONE}, new : Cluster \cup {NONE},
                    purpose : Purposes \cup {"none"}]
  BY TypesAre DEF Typed, ControlTyped, AllocTyped
<1>2. CASE NoCluster
  <2>1. \/ \E ok, data : Return(ok, data)
        \/ pc' = "undo" /\ alloc.purpose = "add" /\ UNCHANGED <<command, crashes, file, dir>>
           /\ command.kind = "mkdir"
        \/ pc' = "wrote" /\ alloc.purpose \in {"first", "extend"} /\ UNCHANGED <<dir, command, crashes>>
    BY <1>1, <1>2 DEF NoCluster, NotAdded, Goto, locals, Purposes
  <2>2. CASE pc' = "undo" /\ alloc.purpose = "add" /\ UNCHANGED <<command, crashes, file, dir>>
           /\ command.kind = "mkdir"
    <3>1. Pending' = Pending
      BY <2>2 DEF Pending, Adding, Allocating
    <3>2. Ends /\ Seen' = Seen => Ends'
      BY <2>2, <3>1 DEF Ends
    <3>3. ~ Writing'
      BY <2>2 DEF Writing, Allocating
    <3> QED
      BY <2>2, <3>1, <3>2, <3>3, QuietKept DEF Turns
  <2>3. CASE pc' = "wrote" /\ alloc.purpose \in {"first", "extend"} /\ UNCHANGED <<dir, command, crashes>>
    <3>1. Pending = {} /\ Writing
      BY <2>3 DEF Pending, Adding, Allocating, Writing
    <3> QED
      BY <2>3, <3>1, Calm, QuietKept DEF Turns
  <2>4. ASSUME NEW ok, NEW data, Return(ok, data), ~ (alloc.purpose = "add" /\ command.kind = "mkdir")
        PROVE  Kept'
    <3>1. Pending = {}
      BY <2>4 DEF Pending, Adding, Allocating
    <3> QED
      BY <2>4, <3>1, ReturnKept, QuietKept DEF Turns
  <2>5. alloc.purpose = "add" /\ command.kind = "mkdir" => pc' = "undo"
    BY <1>2 DEF NoCluster, NotAdded, Goto
  <2>6. \A ok, data : Return(ok, data) => pc' # "undo"
    BY DEF Return
  <2> QED
    BY <2>1, <2>2, <2>3, <2>4, <2>5, <2>6
<1>3. CASE ~ NoCluster
  <2>1. /\ alloc' = [alloc EXCEPT !.sector = @ + 1] /\ pc' = "scan"
        /\ UNCHANGED <<dir, file, command, crashes>>
    BY <1>3 DEF ScanOn, Goto
  <2>2. alloc'.prev = alloc.prev /\ alloc'.purpose = alloc.purpose /\ alloc'.new = alloc.new
    BY <1>1, <2>1
  <2>3. Pending' = Pending
    BY <2>1, <2>2 DEF Pending, Adding, Allocating
  <2>4. Seen' = Seen /\ Ends => Ends'
    BY <2>1, <2>2, <2>3 DEF Ends
  <2>5. Writing' => Writing
    BY <2>1, <2>2 DEF Writing, Allocating
  <2> QED
    BY <2>1, <2>3, <2>4, <2>5, QuietKept DEF Turns
<1> QED
  BY <1>2, <1>3

LEMMA ScanKept ==
  ASSUME Typed, Typed', Promise, Kept, Scan
  PROVE  Kept'
<1>1. /\ FTyped /\ F \in FatState /\ crashes \in Nat /\ pc = "scan" /\ disk' = disk /\ command # NULL
      /\ alloc.sector \in FatSector /\ alloc.prev \in Cluster \cup {NONE}
      /\ alloc \in [sector : FatSector, prev : Cluster \cup {NONE}, new : Cluster \cup {NONE},
                    purpose : Purposes \cup {"none"}]
      /\ alloc.purpose \in Purposes
  BY TypesAre DEF Typed, ControlTyped, AllocTyped, Scan
<1>2. \/ Reads(F, F') /\ ScanOn
      \/ \E f \in FatState, c \in Cluster : \E k \in Claim(f, c) :
           /\ Reads(F, f) /\ f.cache.sector = Sector(c) /\ SeenIn(f)[c] = FREE
           /\ Becomes(k.f)
           /\ IF k.ok THEN Take(c) ELSE NoCluster
  BY <1>1, ScanCases
<1>3. ASSUME NEW f \in FatState, NEW c \in Cluster, NEW k \in Claim(f, c),
             Reads(F, f), f.cache.sector = Sector(c), SeenIn(f)[c] = FREE, Becomes(k.f),
             IF k.ok THEN Take(c) ELSE NoCluster, faults' = 0, crashes' = 0
      PROVE  Reached' /\ Ends' /\ Stands'
  <2>1. Grows(f, k.f) /\ k.f \in FatState /\ (~ k.ok => k.f.faults > f.faults)
    BY <1>1, <1>3, ClaimGrows DEF Grows
  <2>2. Grows(F, F') /\ F' = k.f
    BY <1>1, <1>3, <2>1, ReadsGrows, GrowsTransitive, BecomesIs
  <2>3. k.ok
    <3>1. k.f.faults = 0 /\ f.faults \in Nat
      BY <1>3, CacheIs DEF Becomes
    <3> QED
      BY <2>1, <3>1
  <2>4. /\ alloc' = [alloc EXCEPT !.new = c] /\ pc' = "commit" /\ command' = command
        /\ UNCHANGED <<rest, tries, dir, cur, count, file, done, crashes>>
    BY <1>3, <2>3 DEF Take, Goto
  <2>5. faults = 0 /\ ~ Damaged /\ Reached /\ Ends /\ Stands
    BY <1>3, <2>2, <2>4, CleanKept
  <2>6. PICK w, going, loc, m : Good(w, going, loc, m)
    BY <1>1, <2>5, PromiseIs
  <2>7. PICK p \in Cluster \cup {NONE} : p = alloc.prev
    BY <1>1
  <2>8. alloc'.prev = p /\ alloc'.purpose = alloc.purpose /\ alloc'.new = c
    BY <1>1, <2>4, <2>7
  <2>9. /\ dir \in w.dirs /\ dir # NONE /\ Chains(fat, w) /\ w \in Witness
        /\ \A d \in Cluster : w.own[d] # NONE => Seen[d] = fat[d]
    BY <1>1, <2>6, GoodIs
  <2>10. ~ lost' /\ f.lost = FALSE /\ SeenIn(f) = Seen
    <3>1. lost' = k.f.lost /\ (f.lost => k.f.lost) /\ f.lost \in BOOLEAN
      BY <1>3, <2>1, CacheIs DEF Becomes, Grows
    <3>2. ~ lost'
      BY <1>3 DEF Typed, CacheTyped
    <3>3. Agrees(F)
      BY <2>5 DEF Typed, CacheTyped, Damaged
    <3> QED
      BY <1>3, <3>1, <3>2, <3>3 DEF Reads, Seen
  <2>11. w.own[c] = NONE
    BY <1>3, <2>9, <2>10 DEF Chains
  <2>12. /\ p = NONE <=> alloc.purpose \in {"mkdir", "first"}
         /\ alloc.purpose = "add" => w.own[p] = dir
         /\ alloc.purpose = "extend" =>
              w.own[p] = file.first /\ file.first # NONE /\ file.first \notin w.dirs
         /\ Adding /\ command.kind = "mkdir" => w.own[file.first] = file.first /\ file.first \notin w.dirs
    <3>1. Allocating /\ (alloc.purpose = "extend" => Writing)
      BY <1>1 DEF Allocating, Writing
    <3> QED
      BY <1>1, <2>6, <2>7, <3>1 DEF Good, Control, Kinds, Adds, Writes, Creates, Held, Unlisted
  <2>13. p # NONE => w.own[p] # NONE /\ Seen[p] # FREE /\ Seen[p] \notin Cluster /\ p # c
    <3>1. p # NONE => w.own[p] # NONE
      BY <1>1, <2>9, <2>12 DEF Purposes
    <3> QED
      BY <1>1, <2>5, <2>7, <2>9, <2>11, <3>1 DEF Chains, Ends
  <2>14. /\ Seen'[c] = EOF /\ (p # NONE => Seen'[p] = c)
         /\ \A d \in Cluster : d \notin {c, p} => Seen'[d] = Seen[d]
    <3>1. alloc.prev # c
      BY <2>7, <2>13, Constants
    <3>2. Claims(f, c, p, k.f)
      BY <1>1, <1>3, <2>3, <2>7, <3>1, ClaimIs
    <3>3. lost' = k.f.lost /\ Seen' = SeenIn(k.f)
      BY <1>3, <2>2 DEF Becomes, Seen
    <3> QED
      BY <2>10, <3>2, <3>3 DEF Claims
  <2>15. Pending \subseteq Pending'
    BY <1>1, <2>4, <2>8 DEF Pending, Adding, Allocating
  <2>16. Changes(w, {})
    <3>1. \A d \in Cluster : Inside(w, d) => ~ Hidden(d)'
      BY <2>4, <2>8, <2>9, <2>11, Constants DEF Inside, Hidden, Witness
    <3>2. Tied(w)
      BY <2>6, GoodTied
    <3> QED
      BY <1>1, <1>3, <2>10, <2>13, <2>14, <2>15, <3>1, <3>2, Constants DEF Changes, Stays
  <2>17. Reached'
    <3>1. p = NONE => c \in Pending'
      BY <2>4, <2>8 DEF Pending
    <3>2. \A d \in Cluster : Seen'[d] # FREE =>
            Seen[d] # FREE \/ d \in Pending' \/ \E b \in Cluster : Seen[b] # FREE /\ Seen'[b] = d
      <4>1. p # NONE => p \in Cluster /\ Seen[p] # FREE /\ Seen'[p] = c
        BY <2>13, <2>14
      <4>2. ASSUME NEW d \in Cluster, Seen'[d] # FREE, d # c PROVE Seen[d] # FREE
        BY <2>14, <4>1, <4>2, Constants
      <4>3. c \in Pending' \/ \E b \in Cluster : Seen[b] # FREE /\ Seen'[b] = c
        BY <3>1, <4>1
      <4> QED
        BY <4>2, <4>3
    <3> QED
      BY <2>4, <2>5, <2>16, <3>2, SameDirectory, ReachedStays
  <2>18. Ends'
    <3>1. SUFFICES ASSUME NEW d \in Pending' PROVE Seen'[d] \notin Cluster
      BY <2>4 DEF Ends
    <3>2. CASE d = c
      BY <2>14, <3>2, Constants
    <3>3. CASE d # c
      <4>1. d = file.first /\ Adding /\ command.kind = "mkdir" /\ d \in Cluster
        BY <1>1, <2>4, <2>8, <3>3 DEF Pending, Adding, Allocating
      <4>2. d \in Pending /\ d # p
        BY <1>1, <2>9, <2>12, <4>1 DEF Pending, Adding, Allocating
      <4> QED
        BY <1>1, <2>5, <2>14, <3>3, <4>1, <4>2 DEF Ends
    <3> QED
      BY <3>2, <3>3
  <2>19. Stands'
    <3>1. CASE Writing'
      <4>1. Writing /\ alloc.purpose \in {"first", "extend"}
        BY <1>1, <2>4, <2>8, <3>1 DEF Writing, Allocating
      <4>2. p \in Cluster => w.own[p] # dir
        BY <2>9, <2>12, <4>1, Constants
      <4>3. \A d \in Cluster : w.own[d] = dir => d # c /\ d # p
        BY <2>9, <2>11, <4>2
      <4>4. \A d \in Cluster : w.own[d] = dir => Seen[d] = fat[d] /\ Seen'[d] = Seen[d]
        BY <2>9, <2>14, <4>3
      <4> QED
        BY <1>1, <2>4, <2>5, <2>6, <4>1, <4>4, StandsOn
    <3>2. CASE ~ Writing'
      BY <3>2 DEF Stands
    <3> QED
      BY <3>1, <3>2
  <2> QED
    BY <2>17, <2>18, <2>19
<1>4. CASE Reads(F, F') /\ ScanOn
  BY <1>1, <1>4, ScanOnKept
<1>5. CASE ~ (Reads(F, F') /\ ScanOn)
  BY <1>2, <1>3, <1>5 DEF Kept
<1> QED
  BY <1>4, <1>5

LEMMA CommitKept ==
  ASSUME Typed, Typed', Promise, Kept, Commit
  PROVE  Kept'
<1>1. SUFFICES ASSUME faults' = 0, crashes' = 0 PROVE Reached' /\ Ends' /\ Stands'
  BY DEF Kept
<1>2. /\ F \in FatState /\ crashes \in Nat /\ pc = "commit" /\ pc' = "zero"
      /\ UNCHANGED <<disk, dir, command, alloc, file, crashes>> /\ alloc.purpose \in Purposes
  BY TypesAre DEF Typed, ControlTyped, AllocTyped, Commit, Goto, locals
<1>3. Reads(F, F')
  <2>1. PICK f \in flushFatCache(F) : Becomes(f)
    BY DEF Commit
  <2> QED
    BY <1>2, <2>1, FlushReads, BecomesIs DEF Reads
<1>4. faults = 0 /\ ~ Damaged /\ Reached /\ Ends /\ Stands /\ Seen' = Seen
  BY <1>1, <1>2, <1>3, ReadsGrows, CleanReads, CleanKept
<1>5. PICK w, going, loc, m : Good(w, going, loc, m)
  BY <1>2, <1>4, PromiseIs
<1>6. Allocating /\ (alloc.prev = NONE <=> alloc.purpose \in {"mkdir", "first"})
  BY <1>2, <1>5 DEF Good, Control, Kinds, Allocating
<1>7. Pending' = Pending
  BY <1>2, <1>6 DEF Pending, Adding, Allocating
<1>8. Reached' /\ Ends'
  <2>1. Ends'
    BY <1>2, <1>4, <1>7 DEF Ends
  <2> QED
    BY <1>2, <1>4, <1>5, <1>7, <2>1, GoodTied, SameDirectory, ReachedQuiet
<1>9. CASE Writing'
  <2>1. Writing /\ alloc.purpose \in {"first", "extend"}
    BY <1>2, <1>9 DEF Writing, Allocating
  <2>2. alloc.purpose = "extend" => w.own[alloc.prev] = file.first /\ file.first \notin w.dirs
    BY <1>2, <1>5, <2>1 DEF Good, Control, Writes, Held
  <2>3. dir \in w.dirs /\ dir # NONE /\ w.own[dir] = dir /\ dir \in Cluster
    BY <1>5, GoodIs
  <2>4. Known(fat, Seen, w, alloc.prev)
    BY <1>2, <1>5 DEF Good, Structure, Sane, Moving
  <2>5. \A c \in Cluster : w.own[c] = dir => Seen[c] = fat[c] /\ Seen'[c] = Seen[c]
    BY <1>4, <1>6, <2>1, <2>2, <2>3, <2>4, Constants DEF Known
  <2>6. Stands'
    BY <1>2, <1>4, <1>5, <2>1, <2>5, StandsOn
  <2> QED
    BY <1>8, <2>6
<1>10. CASE ~ Writing'
  BY <1>8, <1>10 DEF Stands
<1> QED
  BY <1>9, <1>10

\* A cluster is written that is not in a directory, or was not zeroed yet.
LEMMA VacantKept ==
  ASSUME Typed, Typed', Kept, faults' = 0, crashes' = 0,
         UNCHANGED <<fat, cache, faults, lost, crashes>>, pc # "commit", pc' \notin {"commit", "zero"},
         NEW w, Tied(w), Writing => \E going, loc, m : Good(w, going, loc, m),
         NEW c \in Cluster, Differs(disk, disk', c), ~ Inside(w, c), dir' \in {dir, root},
         Pending \subseteq Pending', Writing' => Writing /\ UNCHANGED <<dir, command>> /\ ~ Hidden(c),
         Ends => Ends'
  PROVE  Reached' /\ Ends' /\ Stands'
<1>1. Grows(F, F') /\ Seen' = Seen
  BY AloneGrows
<1>2. faults = 0 /\ ~ Damaged /\ Reached /\ Ends /\ Stands
  BY <1>1, CleanKept
<1>3. \A b \in Cluster, i \in Slot : b # c => disk'[b][i] = disk[b][i]
  BY DEF Differs
<1>4. Reached'
  <2>1. Changes(w, {})
    BY <1>1, <1>3 DEF Changes, Stays, Hidden
  <2> QED
    BY <1>1, <1>2, <2>1, SameDirectory, ReachedStays
<1>5. CASE Writing'
  <2>1. PICK going, loc, m : Good(w, going, loc, m)
    BY <1>5
  <2>2. dir \in w.dirs /\ \A b \in Cluster : w.own[b] = dir => Seen[b] = fat[b] /\ Seen'[b] = Seen[b]
    BY <1>1, <2>1, GoodIs
  <2>3. \A b \in Cluster, i \in Slot : w.own[b] = dir /\ Is(disk[b][i], Name) => Is(disk'[b][i], Name)
    <3>1. w.own[c] # dir
      BY <1>5, <2>2 DEF Inside
    <3> QED
      BY <1>3, <3>1 DEF Is
  <2>4. Stands'
    BY <1>2, <1>5, <2>1, <2>2, <2>3, StandsOn
  <2> QED
    BY <1>2, <1>4, <2>4
<1>6. CASE ~ Writing'
  BY <1>2, <1>4, <1>6 DEF Stands
<1> QED
  BY <1>5, <1>6

LEMMA ZeroKept ==
  ASSUME Typed, Typed', Promise, Kept, Zero
  PROVE  Kept'
<1>1. SUFFICES ASSUME faults' = 0, crashes' = 0 PROVE Reached' /\ Ends' /\ Stands'
  BY DEF Kept
<1>2. /\ pc = "zero" /\ UNCHANGED <<command, crashes, fat, cache, dir, alloc, faults, lost>>
      /\ disk \in Disks /\ disk' \in Disks /\ alloc.new \in Cluster /\ alloc.purpose \in Purposes
      /\ file \in [first : Cluster \cup {NONE}, size : Nat, position : Nat]
  BY <1>1, NoFailure, TypesAre
     DEF Typed, DiskTyped, Disks, ControlTyped, AllocTyped, Zero, Goto, Purposes, Succeeds
<1>3. ~ Damaged
  BY <1>1, <1>2, AloneGrows, CleanKept
<1>4. PICK w : (\E going, loc, m : Good(w, going, loc, m)) \/ Awaiting(w)
  BY <1>3 DEF Promise
<1>5. PICK c \in Cluster : c = alloc.new
  BY <1>2
<1>6. Differs(disk, disk', c)
  <2>1. disk \in [Cluster -> [Slot -> Units]]
    BY <1>2 DEF Disks
  <2> QED
    BY <1>2, <1>5, <2>1 DEF Zero, Write, Differs
<1>7. Tied(w) /\ ~ Inside(w, c) /\ (Writing => ~ Hidden(c) /\ \E going, loc, m : Good(w, going, loc, m))
  <2>1. CASE Awaiting(w)
    <3>1. Hidden(c) /\ ~ Writing
      BY <1>2, <1>5, <2>1 DEF Hidden, Awaiting, Writing, Allocating
    <3> QED
      BY <2>1, <3>1, AwaitingTied DEF Inside
  <2>2. CASE \E going, loc, m : Good(w, going, loc, m)
    <3>1. PICK going, loc, m : Good(w, going, loc, m)
      BY <2>2
    <3>2. alloc.purpose # "add" /\ ~ Hidden(c)
      BY <1>2, <3>1 DEF Good, Control, Kinds, Hidden
    <3>3. w.own[c] \notin w.dirs
      <4>1. alloc.purpose \in {"mkdir", "first"} => Unlisted(disk, w, c)
        BY <1>2, <1>5, <3>1 DEF Good, Control, Writes
      <4>2. alloc.purpose = "extend" => Writing
        BY <1>2 DEF Writing, Allocating
      <4>3. alloc.purpose = "extend" =>
              w.own[c] = file.first /\ file.first # NONE /\ file.first \notin w.dirs
        BY <1>2, <1>5, <3>1, <4>2 DEF Good, Control, Writes, Held
      <4> QED
        BY <1>2, <3>2, <4>1, <4>3, Constants DEF Unlisted, Purposes
    <3> QED
      BY <3>1, <3>2, <3>3, GoodTied DEF Inside
  <2> QED
    BY <1>4, <2>1, <2>2
<1>8. /\ alloc.purpose = "mkdir" => pc' = "dots" /\ file'.first = c
      /\ alloc.purpose = "add" => pc' = "add" /\ file' = file
      /\ alloc.purpose = "extend" => pc' = "data" /\ file' = file
      /\ alloc.purpose = "first" => pc' = "link" /\ file'.first = c
  BY <1>2, <1>5 DEF Zero, Goto
<1>9. Pending \subseteq Pending' /\ (Ends => Ends')
  <2>1. Seen' = Seen
    BY <1>2, AloneGrows
  <2>2. alloc.purpose \in {"mkdir", "add"} => Pending' = Pending
    BY <1>2, <1>5, <1>8 DEF Pending, Adding, Allocating
  <2>3. alloc.purpose = "first" => Pending = {c} /\ Pending' = {c}
    BY <1>2, <1>5, <1>8 DEF Pending, Adding, Allocating
  <2>4. alloc.purpose = "extend" => Pending = {}
    BY <1>2 DEF Pending, Adding, Allocating
  <2>5. alloc.purpose = "first" => Ends'
    BY <1>8 DEF Ends
  <2>6. alloc.purpose = "extend" => Ends'
    BY <1>8, Calm
  <2>7. alloc.purpose \in {"mkdir", "add"} /\ Ends => Ends'
    BY <1>2, <1>8, <2>1, <2>2 DEF Ends
  <2> QED
    BY <1>2, <2>2, <2>3, <2>4, <2>5, <2>6, <2>7 DEF Purposes
<1>10. Writing' => Writing
  BY <1>2, <1>8 DEF Writing, Allocating, Purposes
<1> QED
  BY <1>1, <1>2, <1>6, <1>7, <1>8, <1>9, <1>10, VacantKept DEF Purposes

LEMMA DotsKept ==
  ASSUME Typed, Typed', Promise, Kept, Dots
  PROVE  Kept'
<1>1. SUFFICES ASSUME faults' = 0, crashes' = 0 PROVE Reached' /\ Ends' /\ Stands'
  BY DEF Kept
<1>2. /\ pc = "dots" /\ pc' \in {"add", "undo"} /\ UNCHANGED <<command, crashes, fat, cache, faults, lost, dir, file>>
      /\ disk \in Disks /\ file.first \in Cluster
  BY <1>1, NoFailure, TypesAre DEF Typed, ControlTyped, FileTyped, Dots, Goto, Succeeds
<1>3. ~ Damaged
  BY <1>1, <1>2, AloneGrows, CleanKept
<1>4. PICK w, going, loc, m : Good(w, going, loc, m)
  BY <1>2, <1>3, PromiseIs
<1>5. PICK c \in Cluster : c = file.first
  BY <1>2
<1>6. Unlisted(disk, w, c) /\ alloc.new = c /\ command.kind = "mkdir"
  BY <1>2, <1>4, <1>5 DEF Good, Control, Kinds, Creates, Creating
<1>7. Differs(disk, disk', c)
  <2>1. disk \in [Cluster -> [Slot -> Units]] /\ disk' \in Disks
    BY <1>2 DEF Disks, Typed, DiskTyped
  <2> QED
    BY <1>1, <1>2, <1>6, <2>1, NoFailure DEF Dots, Write, Differs
<1>8. Tied(w) /\ ~ Inside(w, c)
  BY <1>4, <1>6, GoodTied DEF Unlisted, Inside
<1>9. Pending' = Pending
  BY <1>2, <1>6 DEF Pending, Adding, Allocating
<1>10. Ends => Ends'
  <2>1. Seen' = Seen
    BY <1>2, AloneGrows
  <2> QED
    BY <1>2, <1>9, <2>1 DEF Ends
<1>11. ~ Writing'
  BY <1>2 DEF Writing, Allocating
<1> QED
  BY <1>1, <1>2, <1>4, <1>7, <1>8, <1>9, <1>10, <1>11, VacantKept

LEMMA WriteDataKept ==
  ASSUME Typed, Typed', Promise, Kept, WriteData
  PROVE  Kept'
<1>1. SUFFICES ASSUME faults' = 0, crashes' = 0 PROVE Reached' /\ Ends' /\ Stands'
  BY DEF Kept
<1>2. /\ pc = "data" /\ command.kind = "write" /\ command # NULL
      /\ UNCHANGED <<command, crashes, fat, cache, faults, lost, dir, file>> /\ pc' \in {"next", "wrote"}
      /\ cur \in Cluster /\ disk \in Disks
  BY <1>1, NoFailure, TypesAre DEF WriteData, Goto, Succeeds
<1>3. ~ Damaged
  BY <1>1, <1>2, AloneGrows, CleanKept
<1>4. PICK w, going, loc, m : Good(w, going, loc, m)
  BY <1>2, <1>3, PromiseIs
<1>5. Writing
  BY <1>2 DEF Writing
<1>6. w.own[cur] # NONE /\ w.own[cur] \notin w.dirs
  BY <1>2, <1>4, <1>5 DEF Good, Control, Writes, Held
<1>7. Differs(disk, disk', cur)
  <2>1. disk \in [Cluster -> [Slot -> Units]] /\ disk' \in Disks
    BY <1>2 DEF Disks, Typed, DiskTyped
  <2> QED
    BY <1>1, <1>2, <2>1, NoFailure DEF WriteData, Write, Differs
<1>8. Tied(w) /\ ~ Inside(w, cur)
  BY <1>4, <1>6, GoodTied DEF Inside
<1> QED
  BY <1>1, <1>2, <1>4, <1>5, <1>7, <1>8, Calm, VacantKept DEF Hidden

LEMMA AddKept ==
  ASSUME Typed, Typed', Promise, Kept, AddDirEntry
  PROVE  Kept'
<1>1. /\ FTyped /\ cur \in Cluster /\ disk \in Disks /\ pc = "add" /\ command # NULL
  BY TypesAre DEF AddDirEntry
<1>2. \/ \E i \in Slot : disk[cur][i] \in {END, DELETED} /\ AddFound(i)
      \/ \E n \in Cluster \cup {NONE} :
           /\ Onward(n)
           /\ IF n = NONE THEN AddExtend ELSE GoOn(n)
  BY <1>1, AddCases
<1>3. ASSUME NEW n \in Cluster, Onward(n), GoOn(n) PROVE Kept'
  <2>1. pc' = "add" /\ UNCHANGED <<disk, command, crashes, dir, file, alloc>> /\ Reads(F, F')
    BY <1>1, <1>3 DEF GoOn, Goto, Onward
  <2>2. Pending' = Pending /\ ~ Writing'
    BY <1>1, <2>1 DEF Pending, Adding, Allocating, Writing
  <2>3. Ends /\ Seen' = Seen => Ends'
    BY <1>1, <2>1, <2>2 DEF Ends
  <2> QED
    BY <1>1, <2>1, <2>2, <2>3, QuietKept DEF Turns
<1>4. ASSUME Onward(NONE), AddExtend PROVE Kept'
  <2>1. /\ pc' = "scan" /\ alloc'.prev = cur /\ alloc'.purpose = "add"
        /\ UNCHANGED <<disk, command, crashes, dir, file>> /\ Reads(F, F')
    BY <1>4 DEF AddExtend, Allocate, Goto, Onward
  <2>2. Pending' = Pending /\ ~ Writing'
    BY <1>1, <2>1 DEF Pending, Adding, Allocating, Writing
  <2>3. SUFFICES ASSUME faults' = 0, crashes' = 0 PROVE Kept'
    BY DEF Kept
  <2>4. faults = 0 /\ ~ Damaged /\ Seen' = Seen
    BY <2>1, <2>3, CleanReads
  <2>5. PICK w, going, loc, m : Good(w, going, loc, m)
    BY <1>1, <2>4, PromiseIs
  <2>6. w.own[cur] = dir /\ dir # NONE /\ Seen[cur] = fat[cur]
    BY <1>1, <2>5, GoodIs DEF Good, Control, Searching
  <2>7. fat[cur] \notin Cluster
    BY <1>1, <1>4, <2>3, <2>4, <2>5, <2>6, SearchOn
  <2>8. Ends => Ends'
    BY <1>1, <2>1, <2>2, <2>4, <2>6, <2>7 DEF Ends
  <2> QED
    BY <1>1, <2>1, <2>2, <2>8, QuietKept DEF Turns
<1>5. ASSUME NEW i \in Slot, disk[cur][i] \in {END, DELETED}, AddFound(i), faults' = 0, crashes' = 0
      PROVE  Reached' /\ Ends' /\ Stands'
  <2>1. Grows(F, F') /\ Seen' = Seen
    BY <1>5, NoFailure, AloneGrows DEF AddFound, Succeeds
  <2>3. /\ Write(cur, EntryAdded(i))
        /\ IF command.kind = "write" THEN Goto("next") /\ UNCHANGED locals
           ELSE Return(TRUE, << >>)
    BY <1>5, NoFailure DEF AddFound
  <2>4. crashes' = crashes
    BY <2>3 DEF Goto, Return
  <2>2. faults = 0 /\ faults \in Nat
    BY <1>5, <2>1, <2>4, CleanBefore, TypesAre
  <2>5. ~ Damaged /\ Reached /\ Ends
    BY <1>5, <2>1, <2>4, CleanKept
  <2>6. PICK w, going, loc, m : Good(w, going, loc, m)
    BY <1>1, <2>5, PromiseIs
  <2>7. /\ command.kind \in {"touch", "mkdir", "write"} /\ w.own[cur] = dir /\ dir \in w.dirs
        /\ w \in Witness /\ Chains(fat, w) /\ dir # NONE /\ dir \in Cluster /\ Sound(disk, w)
        /\ \A c \in Cluster : w.own[c] # NONE => Seen[c] = fat[c]
    BY <1>1, <2>2, <2>6, GoodIs DEF Good, Control, Kinds, Searching, Adding
  <2>8. PICK e : e = (IF command.kind = "mkdir" THEN Unit("dir", Name, file.first, 0)
                      ELSE Unit("file", Name, NONE, 0))
    OBVIOUS
  <2>9. /\ Live(e) /\ e.name = Name
        /\ e.first = IF command.kind = "mkdir" THEN file.first ELSE NONE
    BY <2>8 DEF Unit, Live
  <2>10. /\ \A b \in Cluster \ {cur} : disk'[b] = disk[b]
         /\ \A j \in Slot : disk'[cur][j] = IF j = i THEN e
                      ELSE IF j = i + 1 /\ disk[cur][i] = END THEN END ELSE disk[cur][j]
    <3>1. disk \in [Cluster -> [Slot -> Units]]
      BY <1>1 DEF Disks
    <3> QED
      BY <1>1, <2>3, <2>8, <3>1 DEF Write, EntryAdded
  <2>11. \A b \in Cluster, j \in Slot : Live(disk[b][j]) => disk'[b][j] = disk[b][j] /\ Stays(b, j)
    <3>1. ASSUME NEW j \in Slot, Live(disk[cur][j]), disk'[cur][j] # disk[cur][j] PROVE FALSE
      <4>1. j # i
        BY <1>5, <3>1, UnitsAre
      <4>2. j = i + 1 /\ disk[cur][i] = END
        BY <2>10, <3>1, <4>1
      <4>3. i \in Nat /\ j \in Nat
        BY <1>5, Constants
      <4>4. Entry(disk, w, cur, j) /\ Before(w, cur, i, cur, j)
        BY <2>7, <3>1, <4>2, <4>3 DEF Entry, Before
      <4> QED
        BY <1>1, <1>5, <2>7, <4>2, <4>4 DEF Sound
    <3> QED
      BY <2>10, <3>1 DEF Stays
  <2>12. pc' \in {"next", "idle"} /\ dir' \in {dir, root} /\ (pc' = "next" => command.kind = "write" /\ UNCHANGED <<dir, command>>)
    BY <2>3 DEF Goto, Return, locals
  <2>13. Pending' = {} /\ Ends'
    BY <2>12, Calm
  <2>14. CASE command.kind # "mkdir"
    <3>1. Pending = {}
      BY <1>1, <2>14 DEF Pending, Allocating
    <3>2. Changes(w, {})
      BY <2>1, <2>6, <2>11, <2>12, <3>1, GoodTied DEF Changes, Hidden
    <3>3. Reached'
      BY <2>1, <2>5, <2>12, <3>2, SameDirectory, ReachedStays
    <3>4. CASE Writing'
      <4>1. Name' = Name /\ dir' = dir
        BY <2>12, <3>4 DEF Writing, Allocating, Name
      <4>2. ASSUME NEW S \in SUBSET Cluster, dir \in S, \A c \in S : Seen'[c] \in Cluster => Seen'[c] \in S
            PROVE  \E c \in S, j \in Slot : Is(disk'[c][j], Name)
        <5>1. cur \in S
          BY <1>1, <2>1, <2>6, <2>7, <4>2, StandsThere
        <5>2. Is(disk'[cur][i], Name)
          BY <1>1, <1>5, <2>9, <2>10 DEF Is
        <5> QED
          BY <1>5, <5>1, <5>2
      <4> QED
        BY <2>13, <3>3, <4>1, <4>2 DEF Stands, FollowsLinks
    <3>5. CASE ~ Writing'
      BY <2>13, <3>3, <3>5 DEF Stands
    <3> QED
      BY <3>4, <3>5
  <2>15. CASE command.kind = "mkdir"
    <3>1. Adding /\ file.first \in Cluster
      BY <1>1, <2>15 DEF Adding, Typed, ControlTyped, FileTyped
    <3>2. PICK h \in Cluster : h = file.first
      BY <3>1
    <3>3. Unlisted(disk, w, h)
      BY <2>6, <2>15, <3>1, <3>2 DEF Good, Control, Creates
    <3>4. w.own[h] = h /\ h \notin w.dirs /\ ~ Inside(w, h)
      BY <3>3 DEF Unlisted, Inside
    <3>5. Pending = {h}
      BY <1>1, <2>15, <3>1, <3>2 DEF Pending, Allocating
    <3>6. Changes(w, {h})
      BY <1>1, <2>1, <2>5, <2>6, <2>11, <2>12, <3>4, <3>5, GoodTied DEF Changes, Ends, Hidden
    <3>7. Reached'
      <4>1. SUFFICES ASSUME NEW D \in SUBSET Cluster, NEW S \in SUBSET Cluster, Keeps(D, S)'
                     PROVE  dir' \in D /\ \A c \in Cluster : Seen'[c] # FREE => c \in S
        BY DEF Reached
      <4>2. dir \in D /\ \A b \in Cluster : Seen[b] # FREE => b \in S \cup {h}
        BY <2>5, <3>6, <4>1, ReachedBut
      <4>3. cur \in D
        <5>1. \A b \in D : Seen'[b] \in Cluster => Seen'[b] \in D
          BY <2>12, <4>1 DEF Keeps, Hidden
        <5> QED
          BY <1>1, <2>1, <2>6, <2>7, <4>2, <5>1, StandsThere
      <4>4. Live(disk'[cur][i]) /\ disk'[cur][i].first = h
        BY <1>5, <2>9, <2>10, <2>15, <3>2
      <4>5. h \in S
        BY <1>5, <4>1, <4>3, <4>4, Constants DEF Keeps
      <4> QED
        BY <2>1, <2>3, <2>15, <4>1, <4>2, <4>5 DEF Return, Keeps
    <3>8. Stands'
      BY <2>3, <2>15, ReturnKept
    <3> QED
      BY <2>13, <3>7, <3>8
  <2> QED
    BY <2>14, <2>15
<1>6. ASSUME NEW i \in Slot, disk[cur][i] \in {END, DELETED}, AddFound(i) PROVE Kept'
  BY <1>5, <1>6 DEF Kept
<1> QED
  BY <1>2, <1>3, <1>4, <1>6

\* The mark of a directory that was not made is taken away.
LEMMA UndoKept ==
  ASSUME Typed, Typed', Promise, Kept, Undo
  PROVE  Kept'
<1>1. SUFFICES ASSUME faults' = 0, crashes' = 0 PROVE Reached' /\ Ends' /\ Stands'
  BY DEF Kept
<1>2. /\ F \in FatState /\ crashes \in Nat /\ pc = "undo" /\ disk' = disk /\ Return(FALSE, << >>)
      /\ file.first \in Cluster
  BY TypesAre DEF Typed, ControlTyped, FileTyped, Undo
<1>3. PICK h \in Cluster : h = file.first
  BY <1>2
<1>4a. PICK r \in setFatEntry(F, h, FREE) : \E f \in flushFatCache(r.f) : Becomes(f)
  BY <1>3 DEF Undo
<1>4. PICK f \in flushFatCache(r.f) : Becomes(f)
  BY <1>4a
<1>5. Grows(F, r.f) /\ (~ r.ok => r.f.faults > 0) /\ r.f \in FatState
  BY <1>2, SetGrows, CacheIs DEF Value, Grows
<1>6. Reads(r.f, f) /\ f \in FatState
  BY <1>2, <1>5, FlushReads DEF Reads
<1>7. F' = f /\ Grows(F, F') /\ lost' = f.lost /\ faults' = f.faults
  BY <1>2, <1>4, <1>5, <1>6, ReadsGrows, GrowsTransitive, BecomesIs DEF Becomes
<1>8. /\ pc' = "idle" /\ crashes' = crashes /\ Pending' = {} /\ Ends' /\ Stands'
  BY <1>2, ReturnKept
<1>9. faults = 0 /\ ~ Damaged /\ Reached /\ Ends
  BY <1>1, <1>7, <1>8, CleanKept
<1>10. PICK w, going, loc, m : Good(w, going, loc, m)
  BY <1>2, <1>9, PromiseIs
<1>11. ~ lost' /\ r.ok /\ ~ r.f.lost
  <2>1. r.f.faults \in Nat /\ r.f.faults <= f.faults /\ (r.f.lost => f.lost)
    BY <1>5, <1>6, CacheIs DEF Reads
  <2>2. ~ lost'
    BY <1>1 DEF Typed, CacheTyped
  <2> QED
    BY <1>1, <1>5, <1>7, <2>1, <2>2
<1>12. Sets(F, h, FREE, r.f)
  BY <1>2, <1>4, <1>11, SetIs DEF Value
<1>13. Seen' = SeenIn(r.f)
  BY <1>6, <1>7, <1>11, <1>12 DEF Reads, Sets, Agrees, Seen
<1>14. Seen'[h] = FREE /\ \A c \in Cluster : c # h => Seen'[c] = Seen[c]
  <2>1. Agrees(F)
    BY <1>9 DEF Typed, CacheTyped, Damaged
  <2> QED
    BY <1>11, <1>12, <1>13, <2>1 DEF Sets, Seen
<1>15. Unlisted(disk, w, h)
  BY <1>2, <1>3, <1>10 DEF Good, Control, Kinds, Creates
<1>16. Tied(w) /\ ~ Inside(w, h)
  BY <1>10, <1>15, GoodTied DEF Unlisted, Inside
<1>17. Pending = {h}
  BY <1>2, <1>3 DEF Pending, Adding, Allocating
<1>18. Changes(w, {h})
  BY <1>2, <1>8, <1>9, <1>14, <1>16, <1>17 DEF Changes, Ends, Stays, Hidden
<1>19. Reached'
  <2>1. SUFFICES ASSUME NEW D \in SUBSET Cluster, NEW S \in SUBSET Cluster, Keeps(D, S)'
                 PROVE  dir' \in D /\ \A c \in Cluster : Seen'[c] # FREE => c \in S
    BY DEF Reached
  <2>2. dir \in D /\ \A b \in Cluster : Seen[b] # FREE => b \in S \cup {h}
    BY <1>9, <1>18, <2>1, ReachedBut
  <2> QED
    BY <1>2, <1>14, <2>1, <2>2 DEF Return, Keeps
<1> QED
  BY <1>8, <1>19

\* The entry of a file is gone, and its clusters are pending until they are freed.
LEMMA MarkKept ==
  ASSUME Typed, Typed', Promise, Kept, Mark
  PROVE  Kept'
<1>1. /\ FTyped /\ cur \in Cluster /\ disk \in Disks /\ pc = "mark" /\ command # NULL
      /\ file.first \in Cluster \cup {NONE}
  BY TypesAre DEF Mark
<1>2. \/ \E i \in Slot :
           /\ ~ command.slash /\ Is(disk[cur][i], Name)
           /\ \A j \in 1 .. i - 1 : ~ Is(disk[cur][j], Name) /\ disk[cur][j] # END
           /\ MarkFound(i)
      \/ UNCHANGED fatVars /\ NotThere
      \/ \E n \in Cluster \cup {NONE} :
           /\ Onward(n)
           /\ IF n = NONE THEN NotThere ELSE GoOn(n)
  BY <1>1, MarkCases
<1>3. ASSUME Reads(F, F'), NotThere PROVE Kept'
  BY <1>1, <1>3, Calm, ReturnKept, QuietKept DEF NotThere, Turns
<1>4. ASSUME NEW n, Reads(F, F'), GoOn(n) PROVE Kept'
  <2>1. pc' = "mark" /\ UNCHANGED <<disk, crashes, dir>>
    BY <1>1, <1>4 DEF GoOn, Goto
  <2>2. ~ Writing'
    BY <2>1 DEF Writing, Allocating
  <2> QED
    BY <1>1, <1>4, <2>1, <2>2, Calm, QuietKept DEF Turns
<1>5. ASSUME NEW i \in Slot, ~ command.slash, Is(disk[cur][i], Name),
             \A j \in 1 .. i - 1 : ~ Is(disk[cur][j], Name) /\ disk[cur][j] # END,
             MarkFound(i), faults' = 0, crashes' = 0
      PROVE  Reached' /\ Ends' /\ Stands'
  <2>1. Grows(F, F') /\ Seen' = Seen
    BY <1>5, NoFailure, AloneGrows DEF MarkFound, Succeeds
  <2>4. /\ Write(cur, [disk[cur] EXCEPT ![i] = DELETED])
        /\ \/ file.first = NONE /\ Return(TRUE, << >>)
           \/ cur' = file.first /\ Goto("free") /\ dir' = dir
    BY <1>5, NoFailure DEF MarkFound
  <2>5. /\ crashes' = crashes /\ dir' \in {dir, root} /\ ~ Writing' /\ Ends'
        /\ file.first # NONE => pc' = "free" /\ cur' = file.first
    <3>1. CASE cur' = file.first /\ Goto("free") /\ dir' = dir
      BY <3>1 DEF Goto, Writing, Allocating, Ends
    <3>2. CASE file.first = NONE /\ Return(TRUE, << >>)
      BY <3>2, ReturnKept
    <3> QED
      BY <2>4, <3>1, <3>2
  <2>6. ~ Damaged /\ Reached
    BY <1>5, <2>1, <2>5, CleanKept
  <2>7. PICK w, going, loc, m : Good(w, going, loc, m)
    BY <1>1, <2>6, PromiseIs
  <2>8. disk[cur][i].first = file.first /\ disk[cur][i].kind = "file"
    <3>1. w.own[cur] = dir /\ Covered(w, Name) /\ Leads(disk, w, dir, Name, file.first)
      BY <1>1, <1>5, <2>7 DEF Good, Control, Marking, Searching
    <3>2. First(disk, w, dir, Name, cur, i)
      BY <1>5, <2>7, <3>1, Covers
    <3> QED
      BY <1>1, <1>5, <3>1, <3>2 DEF Leads
  <2>9. \A b \in Cluster, j \in Slot : ~ (b = cur /\ j = i) => disk'[b][j] = disk[b][j]
    <3>1. disk \in [Cluster -> [Slot -> Units]]
      BY <1>1 DEF Disks
    <3> QED
      BY <1>1, <2>4, <3>1 DEF Write
  <2>10. file.first # NONE => file.first \in Pending'
    BY <1>1, <2>5 DEF Pending
  <2>11. Changes(w, {})
    <3>1. pc' \notin {"commit", "zero"}
      BY <2>4 DEF Goto, Return
    <3> QED
      BY <1>1, <2>1, <2>7, <2>8, <2>9, <2>10, <3>1, GoodTied, Calm DEF Changes, Stays, Hidden
  <2>12. Reached'
    BY <2>1, <2>5, <2>6, <2>11, SameDirectory, ReachedStays
  <2> QED
    BY <2>5, <2>12 DEF Stands
<1>6. ASSUME NEW i \in Slot, ~ command.slash, Is(disk[cur][i], Name),
             \A j \in 1 .. i - 1 : ~ Is(disk[cur][j], Name) /\ disk[cur][j] # END,
             MarkFound(i)
      PROVE  Kept'
  BY <1>5, <1>6 DEF Kept
<1>7. UNCHANGED fatVars => Reads(F, F')
  BY AloneGrows DEF fatVars
<1>8. \A n : Onward(n) => Reads(F, F')
  BY DEF Onward
<1> QED
  BY <1>2, <1>3, <1>4, <1>6, <1>7, <1>8

\* Where nothing fails, the next cluster is the one that the driver sees.
LEMMA NextSeen ==
  ASSUME NEW f \in FatState, NEW c \in Cluster, NEW n \in getNextCluster(f, c), crashes \in Nat,
         Agrees(f), ~ n.f.lost, n.f.faults = f.faults
  PROVE  n.next = IF SeenIn(f)[c] \in Cluster THEN SeenIn(f)[c] ELSE NONE
<1>1. PICK r \in Load(f, Sector(c)) :
        n = [next |-> IF r.ok /\ r.f.cache.buf[c] \in Cluster THEN r.f.cache.buf[c] ELSE NONE,
             f |-> r.f]
  BY DEF getNextCluster
<1>2. n.f = r.f /\ n.next = (IF r.ok /\ r.f.cache.buf[c] \in Cluster THEN r.f.cache.buf[c] ELSE NONE)
  BY <1>1
<1>3. /\ Reads(f, r.f) /\ (r.ok => r.f.cache.sector = Sector(c))
      /\ ~ r.ok => r.f.faults > f.faults
  BY <1>1, SectorIsFatSector, LoadIs
<1>4. r.ok
  BY <1>2, <1>3, CacheIs
<1>5. SeenIn(r.f) = SeenIn(f)
  BY <1>2, <1>3 DEF Reads
<1>6. SeenIn(r.f)[c] = r.f.cache.buf[c]
  BY <1>3, <1>4 DEF SeenIn
<1> QED
  BY <1>2, <1>4, <1>5, <1>6

LEMMA FreeClusterKept ==
  ASSUME Typed, Typed', Promise, Kept, FreeCluster
  PROVE  Kept'
<1>1. SUFFICES ASSUME faults' = 0, crashes' = 0 PROVE Reached' /\ Ends' /\ Stands'
  BY DEF Kept
<1>2. /\ F \in FatState /\ crashes \in Nat /\ pc = "free" /\ disk' = disk /\ crashes' = crashes
      /\ cur \in Cluster /\ dir' = dir
  BY TypesAre DEF FreeCluster, Goto
<1>3a. PICK n \in getNextCluster(F, cur) :
        /\ \E r \in setFatEntry(n.f, cur, FREE) : Becomes(r.f)
        /\ IF n.next = NONE THEN Goto("freed") /\ UNCHANGED cur
           ELSE cur' = n.next /\ Goto("free")
  BY DEF FreeCluster
<1>3. PICK r \in setFatEntry(n.f, cur, FREE) : Becomes(r.f)
  BY <1>3a
<1>4. Reads(F, n.f) /\ n.f \in FatState
  BY <1>2, GetNextIs DEF Reads
<1>5. Grows(n.f, r.f) /\ (~ r.ok => r.f.faults > n.f.faults) /\ r.f \in FatState
  BY <1>2, <1>4, SetGrows DEF Value, Grows
<1>6. F' = r.f /\ Grows(F, F') /\ lost' = r.f.lost /\ r.f.faults = 0
  BY <1>1, <1>2, <1>3, <1>4, <1>5, ReadsGrows, GrowsTransitive, BecomesIs DEF Becomes
<1>7. faults = 0 /\ ~ Damaged /\ Reached /\ Ends
  BY <1>1, <1>2, <1>6, CleanKept
<1>8. PICK w, going, loc, m : Good(w, going, loc, m)
  BY <1>2, <1>7, PromiseIs
<1>9. r.ok /\ ~ r.f.lost /\ ~ n.f.lost /\ n.f.faults = F.faults
  <2>1. n.f.faults \in Nat /\ n.f.faults <= r.f.faults /\ F.faults <= n.f.faults /\ F.faults = 0
        /\ (n.f.lost => r.f.lost)
    BY <1>4, <1>5, <1>7, CacheIs, FIs DEF Reads, Grows
  <2>2. ~ lost'
    BY <1>1 DEF Typed, CacheTyped
  <2> QED
    BY <1>5, <1>6, <2>1, <2>2
<1>10. Agrees(F)
  BY <1>7 DEF Typed, CacheTyped, Damaged
<1>11. SeenIn(n.f) = Seen /\ Agrees(n.f)
  BY <1>4, <1>9, <1>10 DEF Reads, Seen
<1>12. Sets(n.f, cur, FREE, r.f)
  BY <1>2, <1>3, <1>4, <1>9, SetIs DEF Value
<1>13. Seen'[cur] = FREE /\ \A c \in Cluster : c # cur => Seen'[c] = Seen[c]
  BY <1>6, <1>9, <1>11, <1>12 DEF Sets, Seen
<1>14. n.next = IF Seen[cur] \in Cluster THEN Seen[cur] ELSE NONE
  BY <1>2, <1>9, <1>10, NextSeen DEF Seen
<1>15. Tied(w) /\ ~ Inside(w, cur)
  <2>1. w.own[cur] = NONE
    BY <1>2, <1>8 DEF Good, Control, Frees, Structure, Sane, Going
  <2> QED
    BY <1>8, <2>1, GoodTied, GoodIs, Constants DEF Inside
<1>16. pc' \in {"free", "freed"} /\ (Seen[cur] \in Cluster => pc' = "free" /\ cur' = Seen[cur])
  BY <1>3a, <1>14, Constants DEF Goto
<1>17. Pending = {cur} /\ (Seen[cur] \in Cluster => Seen[cur] \in Pending')
  BY <1>2, <1>16 DEF Pending, Adding, Allocating
<1>18. Changes(w, {cur})
  BY <1>2, <1>13, <1>15, <1>16, <1>17 DEF Changes, Stays, Hidden
<1>19. Reached'
  <2>1. SUFFICES ASSUME NEW D \in SUBSET Cluster, NEW S \in SUBSET Cluster, Keeps(D, S)'
                 PROVE  dir' \in D /\ \A c \in Cluster : Seen'[c] # FREE => c \in S
    BY DEF Reached
  <2>2. dir \in D /\ \A b \in Cluster : Seen[b] # FREE => b \in S \cup {cur}
    BY <1>2, <1>7, <1>18, <2>1, ReachedBut
  <2> QED
    BY <1>2, <1>13, <2>1, <2>2
<1>20. Ends' /\ ~ Writing'
  BY <1>16, Calm DEF Ends, Writing, Allocating
<1> QED
  BY <1>19, <1>20 DEF Stands

\* The entry of the file that is written is found, and has its first cluster from then on.
LEMMA LinkKept ==
  ASSUME NamesTold, NamesFound, Typed, Typed', Promise, Kept, UpdateDirEntry
  PROVE  Kept'
<1>1. /\ FTyped /\ cur \in Cluster /\ disk \in Disks /\ disk' \in Disks /\ pc = "link"
      /\ command \in Command /\ command # NULL /\ file.first \in Cluster \cup {NONE}
  BY TypesAre DEF Typed, DiskTyped, Disks, UpdateDirEntry
<1>2. /\ \/ \E i \in Slot :
              /\ Live(disk[cur][i]) /\ Matches(disk[cur][i], Name)
              /\ \A j \in 1 .. i - 1 : ~ (Live(disk[cur][j]) /\ Matches(disk[cur][j], Name)) /\ disk[cur][j] # END
              /\ LinkFound(i)
         \/ \E i \in Slot :
              /\ disk[cur][i] = END
              /\ \A j \in 1 .. i - 1 : ~ (Live(disk[cur][j]) /\ Matches(disk[cur][j], Name)) /\ disk[cur][j] # END
              /\ UNCHANGED fatVars
              /\ NotUpdated
         \/ \E n \in Cluster \cup {NONE} :
              /\ Onward(n)
              /\ faults' = faults =>
                   \A j \in Slot : ~ (Live(disk[cur][j]) /\ Matches(disk[cur][j], Name)) /\ disk[cur][j] # END
              /\ IF n = NONE THEN NotUpdated ELSE GoOn(n)
  BY <1>1, LinkCases
<1>3. Reads(F, F') /\ Grows(F, F')
  <2>1. CASE UNCHANGED fatVars
    BY <2>1, AloneGrows DEF fatVars
  <2>2. ASSUME NEW i \in Slot, LinkFound(i) PROVE Reads(F, F') /\ Grows(F, F')
    BY <2>2, AloneGrows DEF LinkFound, Succeeds, Fails, WriteFails
  <2>3. ASSUME NEW n, Onward(n) PROVE Reads(F, F') /\ Grows(F, F')
    BY <2>3, TypesAre, ReadsGrows DEF Onward
  <2> QED
    BY <1>2, <2>1, <2>2, <2>3
<1>4. ASSUME NEW n \in Cluster, GoOn(n) PROVE Kept'
  <2>1. pc' = "link" /\ UNCHANGED <<disk, command, crashes, dir, file>>
    BY <1>1, <1>4 DEF GoOn, Goto
  <2>2. Pending' = Pending /\ Ends'
    BY <1>1, <2>1 DEF Pending, Adding, Allocating, Ends
  <2>3. Writing' => Writing
    BY <1>1, <2>1 DEF Writing, Allocating
  <2> QED
    BY <1>1, <1>3, <2>1, <2>2, <2>3, QuietKept DEF Turns
<1>5. SUFFICES ASSUME faults' = 0, crashes' = 0, \A n \in Cluster : ~ GoOn(n)
               PROVE  Reached' /\ Ends' /\ Stands'
  BY <1>4 DEF Kept
<1>6. Updated
  BY <1>2, <1>5, Constants DEF LinkFound, NotUpdated
<1>7. /\ crashes' = crashes /\ Pending' = {} /\ Ends' /\ pc' \in {"data", "idle"} /\ dir' \in {dir, root}
      /\ Writing' => UNCHANGED <<dir, command>>
  <2>1. CASE done = << >>
    <3>1. pc' = "data" /\ UNCHANGED <<dir, command, crashes>>
      BY <1>6, <2>1 DEF Updated, Goto
    <3> QED
      BY <3>1, Calm
  <2>2. CASE done # << >>
    BY <1>6, <2>2, ReturnKept DEF Updated, Return
  <2> QED
    BY <2>1, <2>2
<1>8. faults = 0 /\ faults' = faults /\ ~ Damaged /\ Reached /\ Stands /\ Seen' = Seen
  BY <1>1, <1>3, <1>5, <1>7, CleanKept, CleanReads
<1>9. PICK w, going, loc, m : Good(w, going, loc, m)
  BY <1>1, <1>8, PromiseIs
<1>10. /\ command.kind = "write" /\ w.own[cur] = dir /\ dir \in w.dirs /\ w \in Witness
       /\ dir \in Cluster /\ dir # NONE /\ Chains(fat, w) /\ Sound(disk, w) /\ w.own[dir] = dir
       /\ \A c \in Cluster : w.own[c] # NONE => Seen[c] = fat[c]
  BY <1>1, <1>8, <1>9, GoodIs DEF Good, Control, Kinds, Searching
<1>11. Writing
  BY <1>1, <1>10 DEF Writing
<1>12. Name \in Written
  BY <1>1, <1>10 DEF Written, Name
<1>13. /\ MayLead(disk, w, dir, Name, file.first)
       /\ file.first # NONE => Held(disk, w, dir, Name, file.first)
       /\ Passed(disk, w, dir, cur, Name)
  BY <1>1, <1>8, <1>9, <1>11, <1>12 DEF Good, Control, Writes, Covered, NamesFound
<1>14. \A c \in Cluster, j \in Slot :
         Live(disk[c][j]) /\ Matches(disk[c][j], Name) <=> Is(disk[c][j], Name)
  <2>1. ASSUME NEW c \in Cluster, NEW j \in Slot, Live(disk[c][j]), Matches(disk[c][j], Name)
        PROVE  Is(disk[c][j], Name)
    <3>1. disk[c][j].name \in Names
      BY <1>1, <2>1, LiveIs
    <3>2. disk[c][j].name = Name
      BY <1>12, <2>1, <3>1 DEF NamesTold, Matches
    <3> QED
      BY <2>1, <3>2 DEF Is
  <2> QED
    BY <1>12, <2>1 DEF Is, Matches, NamesFound
<1>15. PICK h \in Cluster : h = dir
  BY <1>10
<1>16. \E c \in Cluster, j \in Slot : First(disk, w, dir, Name, c, j)
  <2>1. PICK S \in SUBSET Cluster : S = {c \in Cluster : w.own[c] = h}
    OBVIOUS
  <2>2. dir \in S /\ FollowsLinks(S)
    BY <1>10, <1>15, <2>1, Constants DEF FollowsLinks, Chains
  <2>3. PICK c \in S, j \in Slot : Is(disk[c][j], Name)
    BY <1>8, <1>11, <2>2 DEF Stands
  <2> QED
    BY <1>10, <1>15, <2>1, <2>3, SoundFirst
<1>17. PICK i \in Slot :
         /\ Is(disk[cur][i], Name) /\ \A j \in 1 .. i - 1 : ~ Is(disk[cur][j], Name) /\ disk[cur][j] # END
         /\ LinkFound(i)
  <2>1. ~ NoFirst(disk, w, dir, Name)
    BY <1>16 DEF NoFirst
  <2>2. PICK name : name = Name
    OBVIOUS
  <2>3. ASSUME NEW i \in Slot, disk[cur][i] = END, \A j \in 1 .. i - 1 : ~ Is(disk[cur][j], Name)
        PROVE  FALSE
    BY <1>1, <1>10, <1>13, <2>1, <2>2, <2>3, NoneFound
  <2>4. ASSUME Onward(NONE), \A j \in Slot : ~ Is(disk[cur][j], Name) PROVE FALSE
    <3>1. fat[cur] \notin Cluster
      BY <1>1, <1>8, <1>9, <1>10, <2>4, SearchOn
    <3> QED
      BY <1>1, <1>10, <1>13, <2>1, <2>2, <2>4, <3>1, NoneFound
  <2>5. \A i \in Slot : \A j \in 1 .. i - 1 : j \in Slot
    BY SlotsBefore
  <2> QED
    BY <1>1, <1>2, <1>5, <1>8, <1>14, <2>3, <2>4, <2>5
<1>18. First(disk, w, dir, Name, cur, i)
  BY <1>1, <1>10, <1>13, <1>17, HitIsFirst
<1>19. disk[cur][i].first \in {file.first, NONE} /\ disk[cur][i] \in
         [kind : {"file", "dir"}, name : Names, first : Cluster \cup {NONE}, size : Nat]
  BY <1>1, <1>13, <1>17, <1>18, LiveIs, UnitsAre DEF MayLead, Is
<1>20. /\ \A b \in Cluster, j \in Slot : ~ (b = cur /\ j = i) => disk'[b][j] = disk[b][j]
       /\ Is(disk'[cur][i], Name) /\ disk'[cur][i].first = file.first
       /\ disk[cur][i].kind = "file"
  <2>2. disk' = [disk EXCEPT ![cur] =
                   [disk[cur] EXCEPT ![i].first = file.first, ![i].size = file.size]]
    BY <1>5, <1>17, NoFailure DEF LinkFound, Write
  <2>3. disk \in [Cluster -> [Slot -> Units]]
    BY <1>1 DEF Disks
  <2>4. /\ \A b \in Cluster \ {cur} : disk'[b] = disk[b]
        /\ disk'[cur] = [disk[cur] EXCEPT ![i].first = file.first, ![i].size = file.size]
        /\ disk[cur] \in [Slot -> Units]
    BY <1>1, <2>2, <2>3
  <2>5. \A j \in Slot : j # i => disk'[cur][j] = disk[cur][j]
    BY <2>4
  <2>6. disk'[cur][i] = [disk[cur][i] EXCEPT !.first = file.first, !.size = file.size]
    BY <2>4
  <2>7. /\ disk'[cur][i].kind = disk[cur][i].kind /\ disk'[cur][i].name = disk[cur][i].name
        /\ disk'[cur][i].first = file.first
    BY <1>19, <2>6
  <2>8. Is(disk'[cur][i], Name)
    BY <1>17, <2>7 DEF Is, Live
  <2> QED
    BY <1>1, <1>13, <1>18, <2>4, <2>5, <2>7, <2>8 DEF MayLead
<1>21. PICK f \in Cluster \cup {NONE} : f = file.first
  BY <1>1
<1>22. PICK X \in SUBSET Cluster : X = {c \in Cluster : f # NONE /\ w.own[c] = f}
  OBVIOUS
<1>23. f # NONE => w.own[f] = f /\ f \notin w.dirs /\ f \in Cluster /\ f \in X
  BY <1>13, <1>21, <1>22 DEF Held
<1>24. Changes(w, X)
  <2>1. Pending \subseteq X
    BY <1>1, <1>21, <1>23, Constants DEF Pending, Adding, Allocating
  <2>2. ASSUME NEW c \in X
        PROVE  (Seen[c] \in Cluster => Seen[c] \in X) /\ ~ Inside(w, c)
    <3>1. w.own[c] = f /\ f # NONE /\ c \in Cluster
      BY <1>22, <2>2
    <3>2. ~ Inside(w, c)
      BY <1>23, <3>1 DEF Inside
    <3>3. Seen[c] \in Cluster => w.own[Seen[c]] = f
      BY <1>10, <3>1 DEF Chains
    <3> QED
      BY <1>22, <3>1, <3>2, <3>3
  <2>3. ASSUME NEW c \in Cluster, NEW j \in Slot, Live(disk[c][j]), disk[c][j].first # NONE
        PROVE  \/ disk[c][j].kind # "dir" /\ disk[c][j].first \in X
               \/ Stays(c, j)
    <3>1. CASE c = cur /\ j = i
      BY <1>19, <1>20, <1>21, <1>23, <2>3, <3>1
    <3>2. CASE ~ (c = cur /\ j = i)
      BY <1>20, <2>3, <3>2 DEF Stays
    <3> QED
      BY <3>1, <3>2
  <2>4. Tied(w) /\ \A c \in Cluster : ~ Hidden(c)'
    BY <1>7, <1>9, GoodTied DEF Hidden
  <2> QED
    BY <1>8, <2>1, <2>2, <2>3, <2>4 DEF Changes
<1>25. Reached'
  <2>1. SUFFICES ASSUME NEW D \in SUBSET Cluster, NEW S \in SUBSET Cluster, Keeps(D, S)'
                 PROVE  dir' \in D /\ \A c \in Cluster : Seen'[c] # FREE => c \in S
    BY DEF Reached
  <2>2. dir \in D /\ \A b \in Cluster : Seen[b] # FREE => b \in S \cup X
    BY <1>8, <1>24, <2>1, ReachedBut
  <2>3. cur \in D
    <3>1. \A b \in D : Seen'[b] \in Cluster => Seen'[b] \in D
      BY <1>7, <2>1 DEF Keeps, Hidden
    <3> QED
      BY <1>1, <1>8, <1>9, <1>10, <2>2, <3>1, StandsThere
  <2>4. f # NONE => f \in S
    BY <1>17, <1>20, <1>21, <2>1, <2>3 DEF Keeps, Is
  <2>5. \A b \in S : Seen[b] \in Cluster => Seen[b] \in S
    BY <1>8, <2>1 DEF Keeps, FollowsLinks
  <2>6. X \subseteq S
    <3>1. CASE f # NONE
      <4>1. \A b \in S : w.own[b] = f /\ fat[b] \in Cluster => fat[b] \in S
        BY <1>10, <2>5, <3>1
      <4>2. \A b \in Cluster : w.own[b] = f => b \in S
        BY <1>10, <1>23, <2>4, <3>1, <4>1, ChainInside
      <4> QED
        BY <1>22, <4>2
    <3>2. CASE f = NONE
      BY <1>22, <3>2
    <3> QED
      BY <3>1, <3>2
  <2> QED
    BY <1>7, <1>8, <2>1, <2>2, <2>6 DEF Keeps
<1>26. CASE Writing'
  <2>1. \A c \in Cluster, j \in Slot : Is(disk[c][j], Name) => Is(disk'[c][j], Name)
    BY <1>20
  <2>2. \A c \in Cluster : w.own[c] = dir => Seen[c] = fat[c] /\ Seen'[c] = Seen[c]
    BY <1>8, <1>10
  <2>3. Stands'
    BY <1>7, <1>8, <1>9, <1>11, <1>26, <2>1, <2>2, StandsOn
  <2> QED
    BY <1>7, <1>25, <2>3
<1>27. CASE ~ Writing'
  BY <1>7, <1>25, <1>27 DEF Stands
<1> QED
  BY <1>26, <1>27

LEMMA StutterKept ==
  ASSUME Kept, UNCHANGED vars
  PROVE  Kept'
<1>1. Seen' = Seen /\ Pending' = Pending /\ (Writing' <=> Writing) /\ Name' = Name
  BY DEF vars, Seen, SeenIn, F, Pending, Adding, Allocating, Writing, Name
<1> QED
  BY <1>1 DEF vars, Kept, Reached, Keeps, FollowsLinks, Hidden, Ends, Stands

\* No step leaves a cluster behind, while nothing fails.
LEMMA StepKept ==
  ASSUME NamesTold, NamesFound, Typed, Typed', Promise, Kept, [Next]_vars
  PROVE  Kept'
<1>1. CASE \E c \in Command : Call(c)
  BY <1>1, CallKept
<1>2. CASE Look \/ Scan \/ Commit \/ Zero \/ Dots \/ AddDirEntry \/ Undo
  BY <1>2, LookKept, ScanKept, CommitKept, ZeroKept, DotsKept, AddKept, UndoKept
<1>3. CASE NextUnits \/ Walk \/ LastCluster \/ WriteData \/ ReadData \/ Read \/ Wrote
  BY <1>3, NextUnitsKept, WalkKept, LastClusterKept, WriteDataKept, ReadDataKept, ReadKept, WroteKept
<1>4. CASE UpdateDirEntry \/ Mark \/ FreeCluster \/ Freed
  BY <1>4, LinkKept, MarkKept, FreeClusterKept, FreedKept
<1>5. CASE Crash \/ UNCHANGED vars
  BY <1>5, CrashKept, StutterKept
<1> QED
  BY <1>1, <1>2, <1>3, <1>4, <1>5 DEF Next, Step

------------------------------------------------------------------------------

\* What is read from the disk leaves no cluster of a chain out, and no entry.
LEMMA ChainIsAll ==
  ASSUME fat \in Table, NEW w \in Witness, Chains(fat, w), NEW h \in Cluster, w.own[h] = h
  PROVE  \E len \in Nat :
           /\ Len(Chain(h)) = len /\ DOMAIN Chain(h) = 1 .. len
           /\ \A c \in Cluster : w.own[c] = h => \E i \in 1 .. len : Chain(h)[i] = c /\ w.rank[c] = i - 1
<1>1. PICK len \in Nat :
           /\ len >= 1 /\ Chain(h) \in [1 .. len -> Cluster] /\ Len(Chain(h)) = len
           /\ DOMAIN Chain(h) = 1 .. len
           /\ \A i \in 1 .. len : /\ Chain(h)[i] = Nth(h)[i - 1]
                                  /\ w.own[Chain(h)[i]] = h /\ w.rank[Chain(h)[i]] = i - 1
           /\ len <= total_data_clusters + 1
           /\ Nth(h)[len] = NONE \/ len = total_data_clusters + 1
  BY ChainIs
<1>2. PICK chain : chain = Chain(h)
  OBVIOUS
<1>3. PICK at : at = Nth(h)
  OBVIOUS
<1>i. /\ chain \in [1 .. len -> Cluster] /\ Len(chain) = len /\ DOMAIN chain = 1 .. len
      /\ at[len] = NONE \/ len = total_data_clusters + 1
  BY <1>1, <1>2, <1>3
<1>j. \A i \in 1 .. len : /\ chain[i] = at[i - 1]
                          /\ w.own[chain[i]] = h /\ w.rank[chain[i]] = i - 1
  BY <1>1, <1>2, <1>3
<1>4. PICK N \in Nat : N = total_data_clusters
  BY GeometryAssumption
<1>5. len # N + 1
  <2>1. SUFFICES ASSUME len = N + 1 PROVE FALSE
    OBVIOUS
  <2>2. IsFiniteSet(Cluster) /\ Cardinality(Cluster) = N
    <3>1. Cluster = 2 .. N + 1 /\ 2 \in Int /\ N + 1 \in Int
      BY <1>4 DEF Cluster
    <3>2. /\ IsFiniteSet(2 .. N + 1)
          /\ Cardinality(2 .. N + 1) = IF 2 > N + 1 THEN 0 ELSE (N + 1) - 2 + 1
      BY <3>1, FS_Interval
    <3> QED
      BY <3>1, <3>2
  <2>3. IsFiniteSet(1 .. len) /\ Cardinality(1 .. len) = N + 1
    <3>1. 1 \in Int /\ len \in Int
      OBVIOUS
    <3>2. IsFiniteSet(1 .. len) /\ Cardinality(1 .. len) = IF 1 > len THEN 0 ELSE len - 1 + 1
      BY <3>1, FS_Interval
    <3> QED
      BY <2>1, <3>2
  <2>4. PICK x, y \in 1 .. len : x # y /\ chain[x] = chain[y]
    <3>1. Cardinality(Cluster) < Cardinality(1 .. len)
      BY <2>2, <2>3
    <3> QED
      BY <1>i, <2>2, <2>3, <3>1, FS_PigeonHole
  <2>5. x - 1 = y - 1
    BY <1>j, <2>4
  <2> QED
    BY <2>4, <2>5
<1>6. at[len] = NONE
  BY <1>i, <1>4, <1>5
<1>7. \A n \in Nat : at[n + 1] = IF at[n] # NONE /\ fat[at[n]] \in Cluster THEN fat[at[n]] ELSE NONE
  BY <1>3, NthIs
<1>8. PICK S : S = {chain[i] : i \in 1 .. len}
  OBVIOUS
<1>9. h \in S
  <2>1. 1 \in 1 .. len /\ 1 - 1 = 0
    BY <1>1
  <2>2. chain[1] = at[0] /\ at[0] = h
    BY <1>3, <1>j, <2>1, NthIs
  <2> QED
    BY <1>8, <2>1, <2>2
<1>10. ASSUME NEW c \in S, fat[c] \in Cluster PROVE fat[c] \in S
  <2>1. PICK i \in 1 .. len : c = chain[i]
    BY <1>8, <1>10
  <2>2. i - 1 \in Nat /\ (i - 1) + 1 = i /\ at[i - 1] = c /\ c # NONE
    BY <1>i, <1>j, <2>1, Constants
  <2>3. at[i] = fat[c]
    BY <1>7, <1>10, <2>2
  <2>4. i # len
    BY <1>6, <1>10, <2>3, Constants
  <2>5. i + 1 \in 1 .. len /\ (i + 1) - 1 = i
    BY <2>1, <2>4
  <2>6. chain[i + 1] = fat[c]
    BY <1>j, <2>3, <2>5
  <2> QED
    BY <1>8, <2>5, <2>6
<1>11. \A c \in Cluster : w.own[c] = h => c \in S
  BY <1>9, <1>10, ChainInside
<1>12. \A c \in Cluster : w.own[c] = h => \E i \in 1 .. len : chain[i] = c /\ w.rank[c] = i - 1
  BY <1>j, <1>8, <1>11
<1> QED
  BY <1>1, <1>2, <1>12

LEMMA UnitsAreAll ==
  ASSUME fat \in Table, NEW w \in Witness, Chains(fat, w), NEW h \in Cluster, w.own[h] = h,
         NEW c \in Cluster, w.own[c] = h, NEW i \in Slot
  PROVE  \E k \in DOMAIN UnitsOf(h) : IsUnit(w, h, k, c, i)
<1>1. PICK len \in Nat :
           /\ Len(Chain(h)) = len /\ DOMAIN Chain(h) = 1 .. len
           /\ \A b \in Cluster : w.own[b] = h => \E j \in 1 .. len : Chain(h)[j] = b /\ w.rank[b] = j - 1
  BY ChainIsAll
<1>2. PICK u \in Nat : u = UNITS /\ u > 1
  BY GeometryAssumption
<1>3. PICK j \in 1 .. len : Chain(h)[j] = c /\ w.rank[c] = j - 1
  BY <1>1
<1>4. PICK q \in Nat : q = j - 1
  BY <1>3
<1>5. i \in 1 .. u
  BY <1>2 DEF Slot
<1>6. PICK k : k = q * u + i
  OBVIOUS
<1>7. q * u \in Nat /\ k \in Nat /\ k >= 1 /\ k - 1 = q * u + (i - 1) /\ i - 1 \in 0 .. u - 1
  BY <1>2, <1>4, <1>5, <1>6
<1>8. (k - 1) \div u = q /\ (k - 1) % u = i - 1
  <2>1. PICK p : p = (k - 1) \div u
    OBVIOUS
  <2>2. PICK r : r = (k - 1) % u
    OBVIOUS
  <2>3. p \in Nat /\ r \in 0 .. u - 1 /\ k - 1 = p * u + r
    BY <1>2, <1>7, <2>1, <2>2
  <2>4. ASSUME NEW a \in Nat, NEW b \in Nat, NEW x \in 0 .. u - 1, NEW y \in 0 .. u - 1,
               a * u + x = b * u + y
        PROVE  ~ a < b
    <3>1. SUFFICES ASSUME a < b PROVE FALSE
      OBVIOUS
    <3>2. (a + 1) * u <= b * u
      BY <1>2, <3>1
    <3>3. (a + 1) * u = a * u + u /\ a * u \in Nat /\ b * u \in Nat
      BY <1>2
    <3> QED
      BY <1>2, <2>4, <3>2, <3>3
  <2>5. p = q
    BY <1>4, <1>7, <2>3, <2>4
  <2>6. p * u \in Nat /\ p * u = q * u /\ i - 1 \in Int /\ r \in Int
    BY <1>2, <1>7, <2>3, <2>5
  <2>7. r = i - 1
    BY <1>7, <2>3, <2>6
  <2> QED
    BY <2>1, <2>2, <2>5, <2>7
<1>9. k <= len * u
  <2>1. q + 1 <= len /\ (q + 1) * u = q * u + u /\ len * u \in Nat
    BY <1>2, <1>3, <1>4
  <2>2. (q + 1) * u <= len * u
    BY <1>2, <1>4, <2>1
  <2> QED
    BY <1>2, <1>5, <1>6, <1>7, <2>1, <2>2
<1>10. k \in 1 .. len * UNITS
  BY <1>2, <1>7, <1>9
<1>11. UnitsOf(h)[k] = disk[Chain(h)[((k - 1) \div UNITS) + 1]][((k - 1) % UNITS) + 1]
  BY <1>1, <1>10 DEF UnitsOf
<1>12. ((k - 1) \div UNITS) + 1 = j /\ ((k - 1) % UNITS) + 1 = i
  BY <1>2, <1>3, <1>4, <1>5, <1>8
<1>13. UnitsOf(h)[k] = disk[c][i]
  BY <1>3, <1>11, <1>12
<1>14. k \in DOMAIN UnitsOf(h)
  BY <1>1, <1>10 DEF UnitsOf
<1>15. k = w.rank[c] * UNITS + i
  BY <1>2, <1>3, <1>4, <1>6
<1> QED
  BY <1>13, <1>14, <1>15 DEF IsUnit

\* While the disk works, no entry of a directory is behind an end mark.
LEMMA ListedAll ==
  ASSUME Typed, NEW w, NEW going, NEW loc, NEW m, Good(w, going, loc, m), faults = 0,
         NEW d \in w.dirs, NEW c \in Cluster, w.own[c] = d, NEW i \in Slot, Live(disk[c][i])
  PROVE  \E k \in InUse(UnitsOf(d)) : UnitsOf(d)[k] = disk[c][i]
<1>1. fat \in Table /\ w \in Witness /\ Chains(fat, w) /\ d \in Cluster /\ w.own[d] = d /\ Sound(disk, w)
  BY TypesAre, GoodIs
<1>2. PICK k \in DOMAIN UnitsOf(d) : IsUnit(w, d, k, c, i)
  BY <1>1, UnitsAreAll
<1>3. PICK n \in Nat : DOMAIN UnitsOf(d) = 1 .. n
  BY <1>1, UnitsOfIs
<1>4. ASSUME NEW l \in 1 .. k - 1 PROVE UnitsOf(d)[l] # END
  <2>1. l \in DOMAIN UnitsOf(d) /\ l < k
    BY <1>2, <1>3, <1>4
  <2>2. PICK b, j : IsUnit(w, d, l, b, j)
    BY <1>1, <2>1, UnitsOfIs
  <2>3. Before(w, b, j, c, i)
    BY <1>1, <1>2, <2>1, <2>2, UnitsInOrder
  <2> QED
    BY <1>1, <2>2, <2>3 DEF Sound, Entry, IsUnit
<1>5. UnitsOf(d)[k] = disk[c][i]
  BY <1>2 DEF IsUnit
<1> QED
  BY <1>2, <1>4, <1>5 DEF InUse

\* What a directory lists that can be reached can be reached.
LEMMA DirectoriesLead ==
  ASSUME root \in Cluster, NEW d \in Directories, NEW e \in Listed(d), e.kind = "dir", e.first \in Cluster
  PROVE  root \in Directories /\ e.first \in Directories
<1> DEFINE lists == UNION {{<<b, x.first>> : x \in {y \in Listed(b) : y.kind = "dir"}} :
                             b \in Cluster}
<1>1. d \in Cluster /\ \A S \in SUBSET Cluster :
        root \in S /\ (\A p \in lists : p[1] \in S => p[2] \in S \cup {NONE}) => d \in S
  BY DEF Directories
<1>2. <<d, e.first>> \in lists
  BY <1>1
<1>3. Directories = {c \in Cluster : \A S \in SUBSET Cluster :
        root \in S /\ (\A p \in lists : p[1] \in S => p[2] \in S \cup {NONE}) => c \in S}
  BY DEF Directories
<1> HIDE DEF lists
<1>4. ASSUME NEW S \in SUBSET Cluster, root \in S, \A p \in lists : p[1] \in S => p[2] \in S \cup {NONE}
      PROVE  e.first \in S
  BY <1>1, <1>2, <1>4, Constants
<1> QED
  BY <1>3, <1>4

LEMMA RootIsOne ==
  ASSUME root \in Cluster
  PROVE  root \in Directories
  BY DEF Directories

\* Between commands on a disk that works, everything that is not free can be reached.
LEMMA NoneLost ==
  ASSUME Typed, Promise, Kept
  PROVE  NothingLeaks
<1>1. SUFFICES ASSUME pc = "idle", faults = 0, crashes = 0
               PROVE  {c \in Cluster : fat[c] # FREE} =
                        Elements(Chain(root)) \cup UNION {Elements(o.clusters) : o \in Owners}
  BY DEF NothingLeaks, Idle
<1>2. Pending = {} /\ Reached /\ ~ Damaged /\ Seen = fat
  <2>1. Pending = {} /\ Reached
    BY <1>1, Calm DEF Kept
  <2>2. ~ lost /\ ~ cache.dirty /\ Agrees(F)
    BY <1>1 DEF Typed, CacheTyped
  <2>3. \A c \in Cluster : Sector(c) = cache.sector => cache.buf[c] = fat[c]
    <3>1. F \in FatState /\ F.cache = cache /\ F.fat = fat
      BY TypesAre DEF F
    <3>2. cache \in Cache /\ \A c \in DOMAIN cache.buf : cache.buf[c] = fat[c]
      BY <2>2, <3>1, CacheIs DEF Agrees
    <3> QED
      BY <3>2, CacheBuf
  <2>4. Seen = fat
    <3>1. fat \in Table
      BY TypesAre
    <3> QED
      BY <2>3, <3>1 DEF Seen, SeenIn, F, Table
  <2> QED
    BY <1>1, <2>1, <2>2, <2>4 DEF Damaged
<1>3. PICK w, going, loc, m : Good(w, going, loc, m)
  BY <1>1, <1>2, PromiseIs
<1>3a. Explains(w)
  BY <1>3 DEF Good, Structure, Explains
<1>4. /\ fat \in Table /\ w \in Witness /\ Chains(fat, w) /\ Recorded(disk, w) /\ w.dirs \subseteq Cluster
      /\ root \in Cluster /\ w.own[root] = root /\ root \in w.dirs /\ root # NONE /\ disk \in Disks
      /\ Directories \subseteq w.dirs /\ \A d \in w.dirs : w.own[d] = d /\ d # NONE
  BY <1>3, <1>3a, TypesAre, GoodIs, DirectoriesAre
<1>5. ASSUME NEW h \in Cluster, w.own[h] = h
      PROVE  Elements(Chain(h)) = {c \in Cluster : w.own[c] = h} /\ \A c \in Elements(Chain(h)) : fat[c] # FREE
  <2>1. \A c \in Elements(Chain(h)) : c \in Cluster /\ w.own[c] = h /\ fat[c] # FREE
    BY <1>3a, <1>5, ClustersAre
  <2>2. PICK len \in Nat :
           /\ DOMAIN Chain(h) = 1 .. len
           /\ \A c \in Cluster : w.own[c] = h => \E i \in 1 .. len : Chain(h)[i] = c
    BY <1>4, <1>5, ChainIsAll
  <2>3. \A c \in Cluster : w.own[c] = h => c \in Elements(Chain(h))
    BY <2>2 DEF Elements
  <2> QED
    BY <2>1, <2>3
<1>6. ASSUME NEW c \in Cluster, NEW i \in Slot, w.own[c] \in Directories, Live(disk[c][i]), disk[c][i].first # NONE
      PROVE  /\ disk[c][i].first \in Cluster /\ w.own[disk[c][i].first] = disk[c][i].first
             /\ disk[c][i].first \in w.dirs => disk[c][i].first \in Directories
             /\ \E o \in Owners : Elements(o.clusters) = {b \in Cluster : w.own[b] = disk[c][i].first}
  <2>1. PICK d \in Directories : d = w.own[c]
    BY <1>6
  <2>2. Entry(disk, w, c, i) /\ d \in w.dirs
    BY <1>4, <1>6, <2>1 DEF Entry
  <2>3. PICK e : e = disk[c][i]
    OBVIOUS
  <2>4. e.first \in Cluster /\ w.own[e.first] = e.first /\ (e.kind = "dir" <=> e.first \in w.dirs)
    <3>1. e.first \in Cluster \cup {NONE}
      BY <1>4, <1>6, <2>3, LiveIs
    <3> QED
      BY <1>4, <1>6, <2>2, <2>3, <3>1 DEF Recorded
  <2>5. PICK k \in InUse(UnitsOf(d)) : UnitsOf(d)[k] = e
    BY <1>1, <1>3, <1>6, <2>1, <2>2, <2>3, ListedAll
  <2>6. e \in Listed(d)
    BY <2>5 DEF Listed
  <2>7. e.first \in w.dirs => e.first \in Directories
    BY <1>4, <2>4, <2>6, DirectoriesLead
  <2>8. [at |-> <<d, k>>, clusters |-> Chain(e.first)] \in Owners
    <3>1. k \in {j \in InUse(UnitsOf(d)) : UnitsOf(d)[j].first # NONE}
      BY <1>6, <2>3, <2>5
    <3> QED
      BY <2>5, <3>1 DEF Owners
  <2>9. Elements(Chain(e.first)) = {b \in Cluster : w.own[b] = e.first}
    BY <1>5, <2>4
  <2>10. \E o \in Owners : o.clusters = Chain(e.first)
    BY <2>8
  <2> QED
    BY <2>3, <2>4, <2>7, <2>9, <2>10
<1>7. PICK S \in SUBSET Cluster :
        S = {c \in Cluster : \/ w.own[c] = root
                             \/ \E b \in Cluster, i \in Slot :
                                  /\ w.own[b] \in Directories /\ Live(disk[b][i])
                                  /\ disk[b][i].first # NONE /\ w.own[c] = disk[b][i].first}
  OBVIOUS
<1>8. ASSUME NEW c \in S PROVE c \in Cluster /\ w.own[c] # NONE
  BY <1>4, <1>7, <1>8
<1>9. FollowsLinks(S)
  <2>1. SUFFICES ASSUME NEW c \in S, fat[c] \in Cluster PROVE fat[c] \in S
    BY <1>2 DEF FollowsLinks
  <2>2. w.own[fat[c]] = w.own[c]
    BY <1>4, <1>8, <2>1 DEF Chains
  <2> QED
    BY <1>7, <2>1, <2>2
<1>10. PICK D \in SUBSET Cluster : D = {c \in S : w.own[c] \in Directories}
  OBVIOUS
<1>11. Keeps(D, S)
  <2>1. \A c \in D : fat[c] \in Cluster => fat[c] \in D
    <3>1. SUFFICES ASSUME NEW c \in D, fat[c] \in Cluster PROVE fat[c] \in D
      OBVIOUS
    <3>2. fat[c] \in S /\ w.own[fat[c]] = w.own[c] /\ w.own[c] \in Directories
      BY <1>2, <1>4, <1>8, <1>9, <1>10, <3>1 DEF FollowsLinks, Chains
    <3> QED
      BY <1>10, <3>2
  <2>2. ASSUME NEW c \in D, NEW i \in Slot, Live(disk[c][i]), disk[c][i].first # NONE
        PROVE  disk[c][i].first \in S /\ (disk[c][i].kind = "dir" => disk[c][i].first \in D)
    <3>1. c \in Cluster /\ w.own[c] \in Directories
      BY <1>10
    <3>2. PICK h \in Cluster : h = disk[c][i].first /\ w.own[h] = h /\ (h \in w.dirs => h \in Directories)
      BY <1>6, <2>2, <3>1
    <3>3. h \in S
      BY <1>7, <2>2, <3>1, <3>2
    <3>4. disk[c][i].kind = "dir" => h \in w.dirs
      BY <1>4, <2>2, <3>1, <3>2 DEF Recorded, Entry
    <3> QED
      BY <1>10, <3>2, <3>3, <3>4
  <2>3. root \in D
    BY <1>4, <1>7, <1>10, RootIsOne
  <2> QED
    BY <1>2, <1>9, <1>10, <2>1, <2>2, <2>3 DEF Keeps
<1>12. ASSUME NEW c \in Cluster, fat[c] # FREE
       PROVE  c \in Elements(Chain(root)) \cup UNION {Elements(o.clusters) : o \in Owners}
  <2>1. c \in S
    BY <1>2, <1>11, <1>12 DEF Reached
  <2>2. CASE w.own[c] = root
    BY <1>4, <1>5, <2>2
  <2>3. CASE w.own[c] # root
    <3>1. PICK b \in Cluster, i \in Slot :
            /\ w.own[b] \in Directories /\ Live(disk[b][i])
            /\ disk[b][i].first # NONE /\ w.own[c] = disk[b][i].first
      BY <1>7, <2>1, <2>3
    <3>2. PICK o \in Owners : Elements(o.clusters) = {x \in Cluster : w.own[x] = disk[b][i].first}
      BY <1>6, <3>1
    <3> QED
      BY <3>1, <3>2
  <2> QED
    BY <2>2, <2>3
<1>13. ASSUME NEW o \in Owners, NEW c \in Elements(o.clusters) PROVE c \in Cluster /\ fat[c] # FREE
  <2>1. PICK d \in w.dirs, k \in Nat, b \in Cluster, i \in Slot :
           /\ IsUnit(w, d, k, b, i) /\ Entry(disk, w, b, i) /\ disk[b][i].first # NONE
           /\ o = [at |-> <<d, k>>, clusters |-> Chain(disk[b][i].first)]
    BY <1>3a, OwnersAre
  <2>2. disk[b][i].first \in Cluster /\ w.own[disk[b][i].first] = disk[b][i].first
    <3>1. disk[b][i].first \in Cluster \cup {NONE}
      BY <1>4, <2>1, LiveIs DEF Entry
    <3> QED
      BY <1>4, <2>1, <3>1 DEF Recorded
  <2>3. c \in Elements(Chain(disk[b][i].first))
    BY <1>13, <2>1
  <2> QED
    BY <1>5, <2>2, <2>3
<1>14. ASSUME NEW c \in Elements(Chain(root)) PROVE c \in Cluster /\ fat[c] # FREE
  BY <1>4, <1>5
<1> QED
  BY <1>12, <1>13, <1>14

\* While the disk works and the power stays on, every cluster that is not free between
\* commands can be reached from the root: what allocCluster takes an entry or a chain comes
\* to have, on every way out of a command that runs out of space, and what rm takes out of a
\* directory freeClusterChain frees to its end.  NamesFound leaves out the files whose entry
\* updateDirEntry does not find: what is allocated for them is lost.
THEOREM NothingLeaksCorrect == NamesTold /\ NamesFound => (Spec => []NothingLeaks)
<1>1. Init => Typed /\ Promise /\ Kept
  BY InitTyped, InitPromise, InitKept
<1>2. SUFFICES ASSUME NamesTold, NamesFound PROVE Spec => []NothingLeaks
  OBVIOUS
<1>3. Typed /\ Promise /\ Kept /\ [Next]_vars => (Typed /\ Promise /\ Kept)'
  BY <1>2, StepTyped, StepPromise, StepKept
<1>4. Typed /\ Promise /\ Kept => NothingLeaks
  BY NoneLost
<1> QED
  BY <1>1, <1>3, <1>4, PTL DEF Spec

==============================================================================
