-------------------------------- MODULE Fat32 --------------------------------
(***************************************************************************)
(* The FAT32 driver (fat32.zig) as the shell uses it (main64.zig): one     *)
(* command at a time, every command resolving its path anew.               *)
(*                                                                         *)
(* A cluster is one sector of UNITS units; a unit of a directory is an     *)
(* entry, a unit of a file a piece of text.  One step does at most one     *)
(* write to the disk, so power may be lost between any two writes; reads   *)
(* and cache updates are taken together with the write that follows them.  *)
(* The first copy of the FAT is modelled: the others are written after it  *)
(* and never read.  Long names, time stamps and attributes beyond the kind *)
(* of an entry are left out.                                               *)
(*                                                                         *)
(* Definitions named Faulty... are not the code's: each is a plausible     *)
(* mistake in the definition after it, put in its place to see that a      *)
(* property notices.                                                       *)
(***************************************************************************)
EXTENDS Integers, Sequences

CONSTANTS
  total_data_clusters,
  entries_per_sector,  \* of the FAT
  UNITS,               \* per cluster
  Command,             \* what is typed: [kind, path, data, slash]
  Failures,            \* which requests the disk may fail: "read", "write", "fat"
  MaxMishaps,          \* how many failed requests and power losses there may be
  NULL

ASSUME GeometryAssumption ==
  /\ {total_data_clusters, entries_per_sector, UNITS} \subseteq Nat \ {0}
  /\ entries_per_sector > 2 /\ UNITS > 1
ASSUME FaultAssumption ==
  Failures \subseteq {"read", "write", "fat"} /\ MaxMishaps \in Nat

Cluster == 2 .. total_data_clusters + 1
Slot == 1 .. UNITS
root == 2

FREE == 0
EOF == -1
NONE == 0      \* a cluster number that is none

Live(e) == e.kind \in {"file", "dir"}
Is(e, name) == Live(e) /\ e.name = name

Pieces == UNION {{c.data[i] : i \in DOMAIN c.data} : c \in Command}  \* of text
Names == UNION {{c.path[i] : i \in DOMAIN c.path} : c \in Command}
           \cup {u.name : u \in {p \in Pieces : Live(p)}}
DirEntry == [kind : {"file", "dir"}, name : Names, first : Cluster \cup {NONE}, size : Nat]

\* Text is only told from an entry by where it is read: what is "text" here is passed over
\* when it is read as one (its twelfth character marks a volume label), a piece that is not
\* is taken for a file or a directory.
ASSUME CommandAssumption ==
  /\ NULL \notin Command
  /\ Command \subseteq [kind : {"cat", "touch", "write", "mkdir", "rm"},
                       path : Seq(Names) \ {<< >>}, data : Seq(Pieces),
                       slash : BOOLEAN]  \* a single slash in front of a single name
  /\ \A c \in Command : c.slash => Len(c.path) = 1
  /\ \A u \in Pieces : u.kind = "text" \/ u \in DirEntry

Sector(c) == c \div entries_per_sector
FatSector == 0 .. Sector(total_data_clusters + 1)
Entries(sec) == {c \in Cluster : Sector(c) = sec}

Unit(kind, name, first, size) ==
  [kind |-> kind, name |-> name, first |-> first, size |-> size]

END == Unit("end", NULL, NONE, 0)      \* zeros: nothing in use from here on
DELETED == Unit("deleted", NULL, NONE, 0)
Dot(c) == Unit("dot", NULL, c, 0)      \* "." and ".."
Text(v) == Unit("text", v, NONE, 0)

Zeros == [i \in Slot |-> END]

VARIABLES
  fat,     \* on the disk
  disk,    \* the clusters
  cache,   \* fat_buf: [sector, buf, dirty]; sector -1 before the first load
  faults,  \* requests the disk has failed
  lost,    \* history: the driver and the disk have parted (see Damaged)
  pc, command,
  rest,    \* components of the path still to be looked up
  tries,   \* how often a path has been looked up without success
  dir,     \* first cluster of the directory looked in
  cur,     \* cluster a loop has come to
  count,   \* steps a loop along a chain has to go
  file,    \* the File handle: first, size, position
  done,    \* bytes_written, or what has been read
  alloc,   \* allocCluster: sector scanned, cluster to link from, cluster found, purpose
  answer,
  crashes  \* how often power was lost

fatVars == <<fat, cache, faults, lost>>
locals == <<rest, tries, dir, cur, count, file, done, alloc>>
vars == <<fat, disk, cache, faults, lost, pc, command, rest, tries, dir, cur, count,
          file, done, alloc, answer, crashes>>

NoCache == [sector |-> -1, buf |-> << >>, dirty |-> FALSE]
NoFile == [first |-> NONE, size |-> 0, position |-> 0]
NoAlloc == [sector |-> 0, prev |-> NONE, new |-> NONE, purpose |-> "none"]

\* A freshly formatted disk, mounted.
Init ==
  /\ fat = [c \in Cluster |-> IF c = root THEN EOF ELSE FREE]
  /\ disk = [c \in Cluster |-> Zeros]
  /\ cache = NoCache
  /\ faults = 0 /\ lost = FALSE /\ crashes = 0
  /\ pc = "idle" /\ command = NULL /\ answer = NULL
  /\ rest = << >> /\ tries = 0 /\ dir = root /\ cur = root /\ count = 0
  /\ file = NoFile /\ done = << >> /\ alloc = NoAlloc

------------------------------------------------------------------------------
(* Requests to the disk that may fail. *)

MayFail(kind, n) == kind \in Failures /\ n + crashes < MaxMishaps

\* A read that fails changes nothing.  A write that is answered with an error or not in
\* time may have been carried out all the same; parted says whether the driver and the
\* disk then disagree for good.
Succeeds == UNCHANGED <<faults, lost>>
FailsWith(kind, parted) ==
  MayFail(kind, faults) /\ faults' = faults + 1 /\ lost' = (lost \/ parted)
Fails(kind) == FailsWith(kind, FALSE)

Write(c, units) == disk' = [disk EXCEPT ![c] = units]
WriteFails(c, units) == (UNCHANGED disk \/ Write(c, units)) /\ Fails("write")

------------------------------------------------------------------------------
(* The FAT and its cache: what an operation may make of [fat, cache, faults, lost]. *)

F == [fat |-> fat, cache |-> cache, faults |-> faults, lost |-> lost]

Becomes(f) ==
  /\ fat' = f.fat /\ cache' = f.cache /\ faults' = f.faults /\ lost' = f.lost

\* A write that fails is logged, and the cache is clean all the same.
flushFatCache(f) ==
  IF ~ f.cache.dirty THEN {f}
  ELSE LET clean == [f EXCEPT !.cache.dirty = FALSE]
           written == [clean EXCEPT !.fat = [c \in Cluster |-> IF Sector(c) = f.cache.sector
                                                            THEN f.cache.buf[c] ELSE f.fat[c]]]
       IN  {written}
           \cup (IF MayFail("fat", f.faults)
                 THEN {[written EXCEPT !.faults = @ + 1],
                       [clean EXCEPT !.faults = @ + 1, !.lost = TRUE]} ELSE {})

\* The cached sector is flushed before another takes its place.
Load(f, sec) ==
  IF f.cache.sector = sec THEN {[ok |-> TRUE, f |-> f]}
  ELSE UNION {
    {[ok |-> TRUE, f |-> [g EXCEPT !.cache =
        [sector |-> sec, buf |-> [c \in Entries(sec) |-> g.fat[c]], dirty |-> FALSE]]]}
    \cup (IF MayFail("read", g.faults)
          THEN {[ok |-> FALSE, f |-> [g EXCEPT !.faults = @ + 1]]} ELSE {})
    : g \in flushFatCache(f)}

FaultyGetNextCluster(f, c) ==
  {[next |-> IF r.ok THEN r.f.cache.buf[c] ELSE NONE, f |-> r.f] : r \in Load(f, Sector(c))}

\* NONE at the end of the chain, and also when the FAT cannot be read.
getNextCluster(f, c) ==
  {[next |-> IF r.ok /\ r.f.cache.buf[c] \in Cluster THEN r.f.cache.buf[c] ELSE NONE,
    f |-> r.f] : r \in Load(f, Sector(c))}

setFatEntry(f, c, value) ==
  {IF r.ok
   THEN [ok |-> TRUE, f |-> [r.f EXCEPT !.cache.buf[c] = value, !.cache.dirty = TRUE]]
   ELSE r : r \in Load(f, Sector(c))}

------------------------------------------------------------------------------
(* Commands and their answers. *)

Goto(step) == pc' = step /\ UNCHANGED <<command, answer, crashes>>

Return(ok, data) ==
  /\ pc' = "idle" /\ command' = NULL
  /\ answer' = [ok |-> ok, data |-> data]
  /\ rest' = << >> /\ tries' = 0 /\ dir' = root /\ cur' = root /\ count' = 0
  /\ file' = NoFile /\ done' = << >> /\ alloc' = NoAlloc
  /\ UNCHANGED crashes

Name == command.path[Len(command.path)]
Parent == SubSeq(command.path, 1, Len(command.path) - 1)

\* The path p is looked up from the root.
LookUp(p) == rest' = p /\ dir' = root /\ cur' = root

Call(c) ==
  /\ pc = "idle"
  /\ command' = c /\ pc' = "look" /\ answer' = NULL
  /\ LookUp(c.path)
  /\ UNCHANGED <<disk, fatVars, tries, count, file, done, alloc, crashes>>

\* allocCluster is called to link the new cluster behind prev.
Allocate(prev, purpose) ==
  /\ alloc' = [sector |-> 0, prev |-> prev, new |-> NONE, purpose |-> purpose]
  /\ Goto("scan")

------------------------------------------------------------------------------
(* The loop over the clusters of a directory that every search is. *)

FirstHit(i, Hit(_)) ==
  /\ Hit(disk[cur][i])
  /\ \A j \in 1 .. i - 1 : ~ Hit(disk[cur][j]) /\ disk[cur][j] # END

\* The cluster at cur is searched up to the end mark.  A cluster that cannot be read is
\* passed over.
Search(Hit(_), Found(_), Missing, AtEnd) ==
  LET hit == \E i \in Slot : FirstHit(i, Hit)
      ended == \E i \in Slot : disk[cur][i] = END
      Further(f) ==
        \E n \in getNextCluster(f, cur) :
          /\ Becomes(n.f)
          /\ IF n.next = NONE THEN AtEnd
             ELSE /\ cur' = n.next
                  /\ Goto(pc)
                  /\ UNCHANGED <<disk, rest, tries, dir, count, file, done, alloc>>
  IN  \/ \E i \in Slot : FirstHit(i, Hit) /\ Found(i)
      \/ ~ hit /\ ended /\ Missing /\ UNCHANGED fatVars
      \/ ~ hit /\ ~ ended /\ Further(F)
      \/ MayFail("read", faults) /\ Further([F EXCEPT !.faults = @ + 1])

\* openFile, and findEntryInDir of the last component: the entry looked for is there.
Opened(e) ==
  /\ UNCHANGED disk
  /\ IF command.kind = "touch" THEN Return(FALSE, << >>)
     ELSE IF command.kind = "mkdir" THEN Return(e.kind = "dir", << >>)
     ELSE IF command.kind = "rm" /\ tries = 1    \* the directory that holds the file
     THEN IF e.kind = "dir" /\ e.first # NONE
          THEN /\ dir' = e.first /\ cur' = e.first
               /\ Goto("mark")
               /\ UNCHANGED <<rest, tries, count, file, done, alloc>>
          ELSE Return(FALSE, << >>)
     ELSE IF \/ e.kind = "dir" /\ command.kind # "write"
             \/ command.kind = "write" /\ tries = 2
     THEN Return(FALSE, << >>)
     ELSE /\ file' = [first |-> e.first, size |-> e.size, position |-> 0]
          /\ IF command.kind # "rm" THEN Goto("next") /\ UNCHANGED <<rest, dir, cur, tries>>
             ELSE IF Parent = << >>
             THEN LookUp(<< >>) /\ Goto("mark") /\ UNCHANGED tries
             ELSE LookUp(Parent) /\ tries' = 1 /\ Goto("look")
          /\ UNCHANGED <<count, done, alloc>>

FaultyNotFound ==
  /\ UNCHANGED disk
  /\ IF command.kind = "write" /\ tries < 2
     THEN LookUp(command.path) /\ Goto("look") /\ UNCHANGED <<tries, count, file, done, alloc>>
     ELSE Return(FALSE, << >>)

\* It is not.  The write command tries twice, then creates the file.
NotFound ==
  /\ UNCHANGED disk
  /\ IF command.kind = "write" /\ tries < 2
     THEN /\ LookUp(command.path) /\ tries' = tries + 1
          /\ Goto("look")
          /\ UNCHANGED <<count, file, done, alloc>>
     ELSE IF command.kind \in {"cat", "rm"} \/ Len(rest) > 1
     THEN Return(FALSE, << >>)
     ELSE IF command.kind = "mkdir"
     THEN Allocate(NONE, "mkdir") /\ UNCHANGED <<rest, tries, dir, cur, count, file, done>>
     ELSE /\ cur' = dir /\ Goto("add")
          /\ UNCHANGED <<rest, tries, dir, count, file, done, alloc>>

Look ==
  LET Hit(e) == Is(e, Head(rest))
      Found(i) ==
        LET e == disk[cur][i]
        IN  /\ UNCHANGED fatVars
            /\ IF Len(rest) = 1 THEN Opened(e)
               ELSE IF e.kind # "dir" THEN NotFound
               ELSE /\ LET d == IF e.first # NONE THEN e.first ELSE root
                       IN  dir' = d /\ cur' = d
                    /\ rest' = Tail(rest)
                    /\ Goto("look")
                    /\ UNCHANGED <<disk, tries, count, file, done, alloc>>
  IN  pc = "look" /\ Search(Hit, Found, NotFound, NotFound)

------------------------------------------------------------------------------
(* allocCluster and zeroCluster *)

Free(f) == {c \in DOMAIN f.cache.buf : f.cache.buf[c] = FREE}

FaultyNotAdded == Return(FALSE, << >>)

\* addDirEntry could not add: a directory made for the entry is given back.
NotAdded ==
  IF command.kind = "mkdir"
  THEN Goto("undo") /\ UNCHANGED locals
  ELSE Return(FALSE, << >>)

\* No cluster was allocated.
NoCluster ==
  CASE alloc.purpose = "mkdir" -> Return(FALSE, << >>)
    [] alloc.purpose = "add" -> NotAdded
    [] OTHER -> Goto("wrote") /\ UNCHANGED locals

\* Cluster c of the cached sector is marked, and linked behind prev, for which another
\* sector of the FAT may have to be loaded.  If it cannot be, the mark is taken back in
\* the buffer.
Claim(f, c) ==
  LET marked == [f EXCEPT !.cache.buf[c] = EOF, !.cache.dirty = TRUE]
  IN  IF alloc.prev = NONE THEN {[ok |-> TRUE, f |-> marked]}
      ELSE {IF r.ok THEN r ELSE [r EXCEPT !.f.cache.buf[c] = FREE] :
              r \in setFatEntry(marked, alloc.prev, c)}

Scan ==
  /\ pc = "scan"
  /\ UNCHANGED disk
  /\ \E r \in Load(F, alloc.sector) :
       IF r.ok /\ Free(r.f) # {}
       THEN LET c == CHOOSE c \in Free(r.f) : \A d \in Free(r.f) : c <= d
            IN  \E k \in Claim(r.f, c) :
                  /\ Becomes(k.f)
                  /\ IF k.ok
                     THEN /\ alloc' = [alloc EXCEPT !.new = c]
                          /\ Goto("commit")
                          /\ UNCHANGED <<rest, tries, dir, cur, count, file, done>>
                     ELSE NoCluster
       ELSE /\ Becomes(r.f)
            /\ IF alloc.sector + 1 \in FatSector
               THEN /\ alloc' = [alloc EXCEPT !.sector = @ + 1]
                    /\ Goto("scan")
                    /\ UNCHANGED <<rest, tries, dir, cur, count, file, done>>
               ELSE NoCluster

FaultyCommit == pc = "commit" /\ Goto("zero") /\ UNCHANGED <<disk, fatVars, locals>>

Commit ==
  /\ pc = "commit"
  /\ \E f \in flushFatCache(F) : Becomes(f)
  /\ Goto("zero")
  /\ UNCHANGED <<disk, locals>>

\* A directory has been linked to a cluster whose old contents, which searches would take
\* for entries, are still to be zeroed.
Unzeroed ==
  /\ pc = "zero" /\ alloc.purpose = "add"
  /\ \E i \in Slot : Live(disk[alloc.new][i])

\* Whether the zeros were written is not looked at.
Zero ==
  /\ pc = "zero"
  /\ UNCHANGED <<fat, cache>>
  /\ \/ Write(alloc.new, Zeros) /\ (Succeeds \/ Fails("write"))
     \/ UNCHANGED disk /\ FailsWith("write", Unzeroed)
  /\ CASE alloc.purpose = "mkdir" ->
            /\ file' = [file EXCEPT !.first = alloc.new]
            /\ Goto("dots")
            /\ UNCHANGED cur
       [] alloc.purpose = "add" ->
            cur' = alloc.new /\ Goto("add") /\ UNCHANGED file
       [] alloc.purpose = "extend" ->
            cur' = alloc.new /\ Goto("data") /\ UNCHANGED file
       [] alloc.purpose = "first" ->
            /\ file' = [file EXCEPT !.first = alloc.new]
            /\ cur' = dir
            /\ Goto("link")
  /\ UNCHANGED <<rest, tries, dir, count, done, alloc>>

------------------------------------------------------------------------------
(* createFile and createDir *)

Dots ==
  /\ pc = "dots"
  /\ UNCHANGED <<fat, cache, rest, tries, dir, count, file, done, alloc>>
  /\ LET dots == [i \in Slot |-> CASE i = 1 -> Dot(alloc.new) [] i = 2 -> Dot(dir)
                                     [] OTHER -> END]
     IN  \/ Write(alloc.new, dots) /\ Succeeds /\ cur' = dir /\ Goto("add")
         \/ WriteFails(alloc.new, dots) /\ UNCHANGED cur /\ Goto("undo")

FaultyEntryAdded(i) ==
  LET e == IF command.kind = "mkdir" THEN Unit("dir", Name, file.first, 0)
           ELSE Unit("file", Name, NONE, 0)
  IN  [j \in Slot |-> CASE j = i -> e [] j = i + 1 -> END [] OTHER -> disk[cur][j]]

\* What addDirEntry puts into slot i; an end mark moves on by one.
EntryAdded(i) ==
  LET e == IF command.kind = "mkdir" THEN Unit("dir", Name, file.first, 0)
           ELSE Unit("file", Name, NONE, 0)
  IN  [j \in Slot |-> IF j = i THEN e
                      ELSE IF j = i + 1 /\ disk[cur][i] = END THEN END
                      ELSE disk[cur][j]]

AddDirEntry ==
  LET Hit(e) == e = END \/ e = DELETED
      Added ==
        IF command.kind = "write"
        THEN Goto("next") /\ UNCHANGED locals
        ELSE Return(TRUE, << >>)
      Found(i) ==
        /\ UNCHANGED <<fat, cache>>
        /\ \/ Write(cur, EntryAdded(i)) /\ Succeeds /\ Added
           \/ UNCHANGED disk /\ Fails("write") /\ NotAdded
           \/ /\ Write(cur, EntryAdded(i))
              /\ FailsWith("write", command.kind = "mkdir")  \* the cluster it has is given back
              /\ NotAdded
      Extend ==
        /\ Allocate(cur, "add")
        /\ UNCHANGED <<disk, rest, tries, dir, cur, count, file, done>>
  IN  pc = "add" /\ Search(Hit, Found, FALSE, Extend)

Undo ==
  /\ pc = "undo"
  /\ \E r \in setFatEntry(F, file.first, FREE) :
       \E f \in flushFatCache(r.f) : Becomes(f)
  /\ Return(FALSE, << >>)
  /\ UNCHANGED disk

------------------------------------------------------------------------------
(* writeFile, readFile and updateDirEntry.  A write starts at position 0, where a *)
(* command has just opened the file; Len(done) is where the loops have come to. *)

Left == Len(command.data) - Len(done)   \* of a write

\* The head of both loops.
NextUnits ==
  /\ pc = "next"
  /\ UNCHANGED <<disk, fatVars, rest, tries, dir, file, done>>
  /\ IF command.kind = "write"
     THEN IF Left = 0 THEN Goto("wrote") /\ UNCHANGED <<cur, count, alloc>>
          ELSE IF file.first = NONE
          THEN Allocate(NONE, "first") /\ UNCHANGED <<cur, count>>
          ELSE /\ cur' = file.first /\ count' = Len(done) \div UNITS
               /\ Goto("walk") /\ UNCHANGED alloc
     ELSE IF file.first = NONE \/ Len(done) >= file.size
     THEN Goto("read") /\ UNCHANGED <<cur, count, alloc>>
     ELSE /\ cur' = file.first /\ count' = Len(done) \div UNITS
          /\ Goto("walk") /\ UNCHANGED alloc

\* getClusterAt.  When there is no such cluster, the chain of a file that is written is
\* followed to its end from its start again.
Walk ==
  /\ pc = "walk"
  /\ UNCHANGED <<disk, rest, tries, dir, file, done, alloc>>
  /\ IF count = 0
     THEN Goto("data") /\ UNCHANGED <<fatVars, cur, count>>
     ELSE \E n \in getNextCluster(F, cur) :
            /\ Becomes(n.f)
            /\ IF n.next # NONE
               THEN cur' = n.next /\ count' = count - 1 /\ Goto("walk")
               ELSE /\ count' = 0
                    /\ IF command.kind = "write"
                       THEN cur' = file.first /\ Goto("last")
                       ELSE Goto("read") /\ UNCHANGED cur

LastCluster ==
  /\ pc = "last"
  /\ UNCHANGED <<disk, rest, tries, dir, count, file, done>>
  /\ \E n \in getNextCluster(F, cur) :
       /\ Becomes(n.f)
       /\ IF n.next # NONE
          THEN cur' = n.next /\ Goto("last") /\ UNCHANGED alloc
          ELSE Allocate(cur, "extend") /\ UNCHANGED cur

Smaller(m, n) == IF m < n THEN m ELSE n

\* One sector is written; one that is written in part is read before.
WriteData ==
  LET n == Smaller(Left, UNITS)
      Partly == n < UNITS
      units == [i \in Slot |-> IF i <= n THEN command.data[Len(done) + i] ELSE disk[cur][i]]
  IN  /\ pc = "data" /\ command.kind = "write"
      /\ UNCHANGED <<fat, cache, rest, tries, dir, cur, count, file, alloc>>
      /\ \/ /\ Write(cur, units)
            /\ done' = SubSeq(command.data, 1, Len(done) + n)
            /\ Goto("next")
            /\ Succeeds
         \/ /\ Partly /\ Fails("read") /\ UNCHANGED disk
            /\ Goto("wrote") /\ UNCHANGED done
         \/ /\ WriteFails(cur, units)
            /\ Goto("wrote") /\ UNCHANGED done

ReadData ==
  /\ pc = "data" /\ command.kind = "cat"
  /\ UNCHANGED <<fat, cache, disk, rest, tries, dir, cur, count, file, alloc>>
  /\ \/ /\ done' = done \o SubSeq(disk[cur], 1, Smaller(file.size - Len(done), UNITS))
        /\ Goto("next")
        /\ Succeeds
     \/ /\ UNCHANGED done
        /\ Goto("read")
        /\ Fails("read")

\* readFile returns.  cat calls it again as long as it has read something but not all.
Read ==
  /\ pc = "read"
  /\ UNCHANGED <<disk, fatVars>>
  /\ IF Len(done) > file.position /\ Len(done) < file.size
     THEN /\ file' = [file EXCEPT !.position = Len(done)]
          /\ Goto("next")
          /\ UNCHANGED <<rest, tries, dir, cur, count, done, alloc>>
     ELSE Return(TRUE, done)

FaultyWrote ==
  /\ pc = "wrote"
  /\ UNCHANGED <<disk, fatVars>>
  /\ IF done = << >> THEN Return(TRUE, << >>)
     ELSE /\ file' = [file EXCEPT !.size = Len(done)]
          /\ cur' = dir
          /\ Goto("link")
          /\ UNCHANGED <<rest, tries, dir, count, done, alloc>>

\* The end of writeFile.
Wrote ==
  /\ pc = "wrote"
  /\ UNCHANGED <<disk, fatVars>>
  /\ IF done = << >> THEN Return(TRUE, << >>)
     ELSE /\ file' = [file EXCEPT !.size = IF Len(done) > @ THEN Len(done) ELSE @]
          /\ cur' = dir
          /\ Goto("link")
          /\ UNCHANGED <<rest, tries, dir, count, done, alloc>>

\* Which entry updateDirEntry takes for that of the file: the extension, which should be
\* compared with that of the entry, is compared with the start of its name.  Names here
\* have no more than three letters before the dot.
Matches(e, name) == e.name.base = name.base /\ e.name.base = name.ext

\* updateDirEntry; whether it found the entry and could write it is not looked at.
UpdateDirEntry ==
  LET Hit(e) == Live(e) /\ Matches(e, Name)
      Updated ==
        IF done = << >>
        THEN /\ cur' = file.first /\ Goto("data")
             /\ UNCHANGED <<rest, tries, dir, count, file, done, alloc>>
        ELSE Return(TRUE, done)
      Found(i) ==
        /\ UNCHANGED <<fat, cache>>
        /\ Updated
        /\ LET units == [disk[cur] EXCEPT ![i].first = file.first, ![i].size = file.size]
           IN  \/ Write(cur, units) /\ Succeeds
               \/ WriteFails(cur, units)
      NotUpdated == Updated /\ UNCHANGED disk
  IN  pc = "link" /\ Search(Hit, Found, NotUpdated, NotUpdated)

------------------------------------------------------------------------------
(* deleteFile *)

\* A single slash in front of a name of the root stays part of the name that is looked for,
\* which no entry has.
Mark ==
  LET Hit(e) == ~ command.slash /\ Is(e, Name)
      Found(i) ==
        /\ UNCHANGED <<fat, cache>>
        /\ LET units == [disk[cur] EXCEPT ![i] = DELETED]
           IN  \/ /\ Write(cur, units)
                  /\ Succeeds
                  /\ IF file.first = NONE THEN Return(TRUE, << >>)
                     ELSE /\ cur' = file.first
                          /\ Goto("free")
                          /\ UNCHANGED <<rest, tries, dir, count, file, done, alloc>>
               \/ WriteFails(cur, units) /\ Return(FALSE, << >>)
      NotThere == Return(FALSE, << >>) /\ UNCHANGED disk
  IN  pc = "mark" /\ Search(Hit, Found, NotThere, NotThere)

\* freeClusterChain: the successor is read before a cluster's entry is cleared.
FreeCluster ==
  /\ pc = "free"
  /\ UNCHANGED <<disk, rest, tries, dir, count, file, done, alloc>>
  /\ \E n \in getNextCluster(F, cur) :
       /\ \E r \in setFatEntry(n.f, cur, FREE) : Becomes(r.f)
       /\ IF n.next = NONE THEN Goto("freed") /\ UNCHANGED cur
          ELSE cur' = n.next /\ Goto("free")

FaultyFreed == pc = "freed" /\ Return(TRUE, << >>) /\ UNCHANGED <<disk, fatVars>>

Freed ==
  /\ pc = "freed"
  /\ \E f \in flushFatCache(F) : Becomes(f)
  /\ Return(TRUE, << >>)
  /\ UNCHANGED disk

------------------------------------------------------------------------------

\* Power is lost and the disk mounted again.
Crash ==
  /\ faults + crashes < MaxMishaps
  /\ crashes' = crashes + 1
  /\ cache' = NoCache
  /\ pc' = "idle" /\ command' = NULL /\ answer' = NULL
  /\ rest' = << >> /\ tries' = 0 /\ dir' = root /\ cur' = root /\ count' = 0
  /\ file' = NoFile /\ done' = << >> /\ alloc' = NoAlloc
  /\ lost' = (lost \/ Unzeroed)
  /\ UNCHANGED <<fat, disk, faults>>

Step ==
  \/ Look
  \/ Scan \/ Commit \/ Zero
  \/ Dots \/ AddDirEntry \/ Undo
  \/ NextUnits \/ Walk \/ LastCluster \/ WriteData \/ ReadData \/ Read \/ Wrote
  \/ UpdateDirEntry
  \/ Mark \/ FreeCluster \/ Freed

Next == (\E c \in Command : Call(c)) \/ Step \/ Crash

Spec == Init /\ [][Next]_vars

\* A command that runs goes on.
FairSpec == Spec /\ WF_vars(Step)

------------------------------------------------------------------------------
(***************************************************************************)
(* Properties.  What they say of files is read from the disk alone, as a   *)
(* machine would find it that is switched on now.                          *)
(***************************************************************************)

\* Where the FAT leads, and the n-th cluster from c on, NONE behind the end of the chain.
Link == [c \in Cluster \cup {NONE} |-> IF c = NONE \/ fat[c] \notin Cluster THEN NONE
                                      ELSE fat[c]]
Nth(c) == LET at[n \in Nat] == IF n = 0 THEN c ELSE Link[at[n - 1]] IN at

\* The clusters from c on, in order; more than there are if they go round.
Chain(c) ==
  LET at == Nth(c)
      len == CHOOSE n \in 1 .. total_data_clusters + 1 :
               at[n - 1] # NONE /\ (at[n] = NONE \/ n = total_data_clusters + 1)
  IN  [n \in 1 .. len |-> at[n - 1]]

\* What they hold.
UnitsOf(c) ==
  LET chain == Chain(c)
  IN  [k \in 1 .. Len(chain) * UNITS |->
         disk[chain[((k - 1) \div UNITS) + 1]][((k - 1) % UNITS) + 1]]

\* Where the entries of the directory at d are, among its units.
InUse(units) ==
  {k \in DOMAIN units :
     Live(units[k]) /\ \A j \in 1 .. k - 1 : units[j] # END}

Listed(d) == LET units == UnitsOf(d) IN {units[k] : k \in InUse(units)}

\* The first entry of that name in the directory at d, END if there is none.  The cluster
\* a directory is just growing by counts as zeroed: if power is lost before it is, lost
\* tells of it.
EntryOf(d, name) ==
  LET Shown(c) == IF pc = "zero" /\ alloc.purpose = "add" /\ c = alloc.new THEN Zeros
                  ELSE disk[c]
      first[c \in Cluster, i \in 1 .. UNITS + 1, n \in 0 .. total_data_clusters] ==
        IF i \in Slot
        THEN IF Shown(c)[i] = END \/ Is(Shown(c)[i], name) THEN Shown(c)[i]
             ELSE first[c, i + 1, n]
        ELSE IF n = 0 \/ fat[c] \notin Cluster THEN END ELSE first[fat[c], 1, n - 1]
  IN  first[d, 1, total_data_clusters]

EntryAt(path) ==
  LET at[n \in 1 .. Len(path)] ==
        IF n = 1 THEN EntryOf(root, path[1])
        ELSE LET d == at[n - 1]
             IN  IF d.kind = "dir" THEN EntryOf(d.first, path[n]) ELSE END
  IN  at[Len(path)]

\* The contents of the file of that path, NULL if there is none.
Contents(path) ==
  LET e == EntryAt(path)
      units == UnitsOf(e.first)  \* looked at only if there is one
  IN  IF e.kind # "file" THEN NULL
      ELSE IF e.first = NONE THEN << >>
      ELSE SubSeq(units, 1, Smaller(e.size, Len(units)))

\* The root and whatever directories lists, directly or not.
Directories ==
  LET lists == UNION {{<<d, e.first>> : e \in {x \in Listed(d) : x.kind = "dir"}} :
                        d \in Cluster}
  IN  {c \in Cluster : \A S \in SUBSET Cluster :
         root \in S /\ (\A p \in lists : p[1] \in S => p[2] \in S \cup {NONE}) => c \in S}

\* The directory entries that own clusters: where they are and what they own.
Owners ==
  UNION {LET units == UnitsOf(d)
         IN  {[at |-> <<d, k>>, clusters |-> Chain(units[k].first)] :
                k \in {i \in InUse(units) : units[i].first # NONE}} : d \in Directories}

Elements(chain) == {chain[i] : i \in DOMAIN chain}

Idle == pc = "idle"

Units ==
  {END, DELETED} \cup Pieces \cup {Dot(c) : c \in Cluster} \cup DirEntry

\* Every variable has its type.
TypeOK ==
  /\ fat \in [Cluster -> Cluster \cup {FREE, EOF}]
  /\ disk \in [Cluster -> [Slot -> Units]]
  /\ cache.sector \in FatSector \cup {-1}
  /\ cache.sector # -1 => cache.buf \in [Entries(cache.sector) -> Cluster \cup {FREE, EOF}]
  /\ faults + crashes \in 0 .. MaxMishaps
  /\ {lost, cache.dirty} \subseteq BOOLEAN
  /\ command \in Command \cup {NULL} /\ (command = NULL <=> Idle)
  /\ {dir, cur} \subseteq Cluster /\ file.first \in Cluster \cup {NONE}
  /\ tries \in 0 .. 2 /\ count \in Nat

\* What the next two properties have to leave out.  The driver and the disk have parted
\* (lost): a write of the FAT has failed and was not carried out; the write of a new
\* directory's entry has failed but was, and createDir has given back the cluster the entry
\* leads to; power was lost, or the zeros could not be written, while a directory was
\* linked to a cluster with old contents that read as entries.  Or more than one request
\* has failed: a directory cluster that cannot be read is passed over, so that a name gets
\* a second entry, and then rm marks one of the two and frees the clusters of the other.
Damaged == lost \/ faults > 1

\* No cluster belongs to two files or directories, no chain runs in a circle or into a
\* cluster that is free, unless the disk is damaged in one of the ways above or a directory
\* is just growing by a cluster that is not zeroed yet: a power loss between any two other
\* writes, and any other single failed request, carried out or not, leaves no more than
\* clusters that nobody owns.
FilesApart ==
  ~ Damaged /\ ~ Unzeroed =>
    LET all == Owners \cup {[at |-> <<root>>, clusters |-> Chain(root)]}
    IN  \A o \in all :
          /\ \A i, j \in DOMAIN o.clusters : o.clusters[i] = o.clusters[j] => i = j
          /\ \A c \in Elements(o.clusters) : fat[c] # FREE
          /\ \A p \in all \ {o} : Elements(o.clusters) \cap Elements(p.clusters) = {}

\* While the disk works and the power stays on, every cluster that is allocated between
\* commands is some file's or directory's, also after commands that ran out of space.
NothingLeaks ==
  Idle /\ faults = 0 /\ crashes = 0 =>
    {c \in Cluster : fat[c] # FREE} =
      Elements(Chain(root)) \cup UNION {Elements(o.clusters) : o \in Owners}

\* A command leaves the cached sector of the FAT clean, and what is cached and clean is
\* what is on the disk, with one exception: after a request has failed, a cluster that
\* allocCluster took, wrote down as taken and gave back in memory only; on the disk it
\* stays taken, and nothing leads to it.
CacheAgrees ==
  /\ Idle => ~ cache.dirty
  /\ ~ Damaged /\ ~ Unzeroed /\ ~ cache.dirty =>
       \A c \in DOMAIN cache.buf :
         cache.buf[c] # fat[c] =>
           /\ faults > 0 /\ cache.buf[c] = FREE /\ fat[c] = EOF
           /\ c \notin Elements(Chain(root))
           /\ \A o \in Owners : c \notin Elements(o.clusters)

\* While the disk works, no directory lists a name twice, nothing is listed behind an end
\* mark, where no search would find it, and every directory knows itself and its parent;
\* power losses do not change that, except one that comes between the link of a directory
\* to a cluster whose old contents read as entries and the zeros (see Damaged).
DirectoriesSound ==
  faults = 0 /\ ~ lost /\ ~ Unzeroed =>
    \A d \in Directories :
      LET units == UnitsOf(d)
          live == {k \in DOMAIN units : Live(units[k])}
      IN  /\ live = InUse(units)
          /\ \A j, k \in live : units[j].name = units[k].name => j = k
          /\ \A e \in Listed(d) :
               e.kind = "dir" => disk[e.first][1] = Dot(e.first) /\ disk[e.first][2] = Dot(d)

FilePath == {c.path : c \in {d \in Command : d.kind # "mkdir"}}

\* fat32.zig "Update an existing directory entry (e.g. file size, first cluster)": when
\* a write reports n units written, the directory says the file has them.
WriteRecorded ==
  [][\A p \in FilePath :
       pc = "link" /\ done # << >> /\ command.path = p /\ answer' # NULL /\ faults' = 0
         => EntryAt(p)'.size >= Len(done)]_vars

Store == INSTANCE FileStore WITH
  Path <- FilePath, files <- [p \in FilePath |-> Contents(p)],
  damaged <- faults > 0 \/ lost

\* What the files contain, as read from the disk, changes only as FileStore says: by the
\* command that runs, front to back, and never once it has been answered, whenever the
\* power is lost; until a request fails, or power is lost before a directory's new cluster
\* is zeroed whose old contents read as entries.
KeepsPromise == Store!Spec

\* Every command comes back, on a disk that is not damaged: the chains its loops follow
\* end, and so does the search for room in a directory.
CommandsReturn == ~ Idle ~> (Idle \/ Damaged)

==============================================================================
