----------------------------- MODULE Fat32Proofs -----------------------------
(***************************************************************************)
(* Theorems about Fat32, for every disk, every set of commands and every   *)
(* number of failed requests and power losses.                             *)
(***************************************************************************)
EXTENDS Fat32, Iteration
------------------------------------------------------------------------------
(* The FAT and its cache. *)

Value == Cluster \cup {FREE, EOF}
Table == [Cluster -> Value]

Cache ==
  {k \in [sector : FatSector \cup {-1},
          buf : {<< >>} \cup UNION {[Entries(sec) -> Value] : sec \in FatSector},
          dirty : BOOLEAN] :
     IF k.sector = -1 THEN k = NoCache ELSE k.buf \in [Entries(k.sector) -> Value]}

FatState == [fat : Table, cache : Cache, faults : Nat, lost : BOOLEAN]

\* The FAT as the driver reads it: through the cache.
SeenIn(f) ==
  [c \in Cluster |-> IF Sector(c) = f.cache.sector THEN f.cache.buf[c] ELSE f.fat[c]]

\* What is cached and not dirty is what is on the disk.
Agrees(f) ==
  ~ f.cache.dirty => \A c \in DOMAIN f.cache.buf : f.cache.buf[c] = f.fat[c]

\* It is, but for clusters that were taken on the disk and given back in the cache.
Nearly(f) ==
  ~ f.cache.dirty =>
    \A c \in DOMAIN f.cache.buf :
      \/ f.cache.buf[c] = f.fat[c]
      \/ f.faults > 0 /\ f.cache.buf[c] = FREE /\ f.fat[c] = EOF

\* What reading the FAT may do to it: a dirty sector that makes room is written, unless
\* that is the write that fails.
Reads(f, g) ==
  /\ g \in FatState
  /\ f.faults <= g.faults /\ (f.lost => g.lost)
  /\ g.faults = f.faults => g.lost = f.lost
  /\ f.faults + crashes <= MaxMishaps => g.faults + crashes <= MaxMishaps
  /\ \A c \in Cluster : {g.fat[c], SeenIn(g)[c]} \subseteq {f.fat[c], SeenIn(f)[c]}
  /\ Agrees(f) /\ ~ g.lost => Agrees(g) /\ SeenIn(g) = SeenIn(f)
  /\ Nearly(f) /\ ~ g.lost => Nearly(g)
  /\ g.cache.dirty => g.cache = f.cache /\ g.fat = f.fat
  /\ ~ f.cache.dirty => g.fat = f.fat

LEMMA SectorIsFatSector ==
  ASSUME NEW c \in Cluster
  PROVE  Sector(c) \in FatSector /\ Sector(c) \in Nat
  BY GeometryAssumption DEF Cluster, Sector, FatSector

LEMMA Constants ==
  /\ FREE \notin Cluster /\ EOF \notin Cluster /\ FREE # EOF /\ NONE \notin Cluster
  /\ NONE = FREE /\ root \in Cluster /\ Cluster \subseteq Nat
  /\ 1 \in Slot /\ 2 \in Slot /\ Slot \subseteq Nat \ {0}
  BY GeometryAssumption DEF FREE, EOF, NONE, Cluster, root, Slot

LEMMA CacheBuf ==
  ASSUME NEW k \in Cache, NEW c \in Cluster
  PROVE  /\ k.sector = Sector(c) <=> c \in DOMAIN k.buf
         /\ k.sector = Sector(c) => k.buf[c] \in Value
         /\ k.sector # -1 => k.buf \in [Entries(k.sector) -> Value] /\ k.sector \in FatSector
         /\ k.sector = -1 => k = NoCache
<1>1. Sector(c) # -1
  BY SectorIsFatSector
<1>2. CASE k.sector = -1
  BY <1>1, <1>2 DEF Cache, NoCache
<1>3. CASE k.sector # -1
  <2>1. k.buf \in [Entries(k.sector) -> Value] /\ k.sector \in FatSector
    BY <1>3 DEF Cache
  <2>2. c \in Entries(k.sector) <=> k.sector = Sector(c)
    BY DEF Entries
  <2> QED
    BY <1>3, <2>1, <2>2
<1> QED
  BY <1>2, <1>3

LEMMA SeenTyped ==
  ASSUME NEW f \in FatState
  PROVE  SeenIn(f) \in Table
<1>1. ASSUME NEW c \in Cluster PROVE SeenIn(f)[c] \in Value
  BY CacheBuf DEF SeenIn, FatState, Table
<1> QED
  BY <1>1 DEF SeenIn, Table

LEMMA CacheIs ==
  ASSUME NEW f \in FatState
  PROVE  /\ f.cache \in Cache /\ f.fat \in Table /\ f.faults \in Nat /\ f.lost \in BOOLEAN
         /\ f.cache.dirty \in BOOLEAN /\ f.cache.sector \in FatSector \cup {-1}
         /\ f.cache.dirty => f.cache.sector # -1
  BY DEF FatState, Cache, NoCache

LEMMA FlushIs ==
  ASSUME NEW f \in FatState, NEW g \in flushFatCache(f)
  PROVE  /\ g \in FatState
         /\ g.cache.sector = f.cache.sector /\ g.cache.buf = f.cache.buf /\ ~ g.cache.dirty
         /\ \/ ~ f.cache.dirty /\ g = f
            \/ /\ f.cache.dirty /\ g.fat = SeenIn(f) /\ g.lost = f.lost
               /\ \/ g.faults = f.faults
                  \/ g.faults = f.faults + 1 /\ f.faults + crashes < MaxMishaps
            \/ /\ f.cache.dirty /\ g.fat = f.fat
               /\ g.faults = f.faults + 1 /\ g.lost /\ f.faults + crashes < MaxMishaps
<1> DEFINE clean == [f EXCEPT !.cache.dirty = FALSE]
<1>1. SeenIn(f) \in Table
  BY SeenTyped
<1>2. CASE ~ f.cache.dirty
  BY <1>2, CacheIs DEF flushFatCache
<1>3. f.cache.dirty => /\ clean \in FatState
                       /\ clean.cache.sector = f.cache.sector /\ clean.cache.buf = f.cache.buf
                       /\ clean.cache.dirty = FALSE
                       /\ clean.fat = f.fat /\ clean.faults = f.faults /\ clean.lost = f.lost
  BY CacheIs DEF FatState, Cache
<1>4. f.cache.dirty => \/ g = [clean EXCEPT !.fat = SeenIn(f)]
                       \/ /\ MayFail("fat", f.faults)
                          /\ g = [[clean EXCEPT !.fat = SeenIn(f)] EXCEPT !.faults = @ + 1]
                       \/ /\ MayFail("fat", f.faults)
                          /\ g = [clean EXCEPT !.faults = @ + 1, !.lost = TRUE]
  BY DEF flushFatCache, SeenIn
<1> HIDE DEF clean
<1>5. CASE f.cache.dirty /\ g = [clean EXCEPT !.fat = SeenIn(f)]
  BY <1>1, <1>3, <1>5 DEF FatState
<1>7. CASE /\ f.cache.dirty /\ MayFail("fat", f.faults)
           /\ g = [[clean EXCEPT !.fat = SeenIn(f)] EXCEPT !.faults = @ + 1]
  <2> DEFINE written == [clean EXCEPT !.fat = SeenIn(f)]
  <2>1. /\ written \in FatState /\ written.cache = clean.cache /\ written.fat = SeenIn(f)
        /\ written.faults = clean.faults /\ written.lost = clean.lost
    BY <1>1, <1>3, <1>7 DEF FatState
  <2>2. g = [written EXCEPT !.faults = @ + 1]
    BY <1>7
  <2> HIDE DEF written
  <2>3. written.faults + 1 \in Nat
    BY <2>1 DEF FatState
  <2>4. /\ g \in FatState /\ g.cache = written.cache /\ g.fat = written.fat
        /\ g.faults = written.faults + 1 /\ g.lost = written.lost
    BY ONLY <2>1, <2>2, <2>3 DEF FatState
  <2> QED
    BY <1>3, <1>7, <2>1, <2>4 DEF MayFail
<1>6. CASE /\ f.cache.dirty /\ MayFail("fat", f.faults)
           /\ g = [clean EXCEPT !.faults = @ + 1, !.lost = TRUE]
  <2>0. clean \in FatState /\ g = [clean EXCEPT !.faults = @ + 1, !.lost = TRUE]
    BY <1>3, <1>6
  <2>1. g.cache = clean.cache /\ g.fat = clean.fat /\ g.faults = clean.faults + 1 /\ g.lost
    BY ONLY <2>0 DEF FatState
  <2>2. g \in FatState
    <3>1. clean.faults + 1 \in Nat /\ TRUE \in BOOLEAN
      BY <2>0 DEF FatState
    <3> QED
      BY ONLY <2>0, <3>1 DEF FatState
  <2> QED
    BY <1>3, <1>6, <2>1, <2>2 DEF MayFail
<1> QED
  BY <1>2, <1>4, <1>5, <1>6, <1>7

\* What Load makes of the FAT: what reading may do, and when it succeeds the sector is
\* there, as it was seen before unless a write was lost.
LEMMA LoadIs ==
  ASSUME NEW f \in FatState, NEW sec \in FatSector, NEW r \in Load(f, sec),
         crashes \in Nat
  PROVE  /\ r.ok \in BOOLEAN /\ r = [ok |-> r.ok, f |-> r.f]
         /\ Reads(f, r.f)
         /\ r.ok => r.f.cache.sector = sec
         /\ ~ r.ok => /\ r.f.faults > f.faults /\ ~ r.f.cache.dirty
                      /\ r.f.cache.sector = f.cache.sector
         /\ f.cache.sector = sec => r.ok /\ r.f = f
         /\ f.cache.dirty /\ f.cache.sector # sec /\ ~ r.f.lost =>
              \A c \in Cluster : Sector(c) = f.cache.sector => r.f.fat[c] = SeenIn(f)[c]
<1>1. CASE f.cache.sector = sec
  <2>1. r = [ok |-> TRUE, f |-> f]
    BY <1>1 DEF Load
  <2>2. Reads(f, f)
    BY CacheIs DEF Reads
  <2> QED
    BY <1>1, <2>1, <2>2
<1>2. CASE f.cache.sector # sec
  <2>1. PICK g \in flushFatCache(f) :
          \/ r = [ok |-> TRUE, f |-> [g EXCEPT !.cache =
                   [sector |-> sec, buf |-> [c \in Entries(sec) |-> g.fat[c]], dirty |-> FALSE]]]
          \/ /\ MayFail("read", g.faults)
             /\ r = [ok |-> FALSE, f |-> [g EXCEPT !.faults = @ + 1]]
    BY <1>2 DEF Load
  <2>2. /\ g \in FatState
        /\ g.cache.sector = f.cache.sector /\ g.cache.buf = f.cache.buf /\ ~ g.cache.dirty
        /\ \/ ~ f.cache.dirty /\ g = f
           \/ /\ f.cache.dirty /\ g.fat = SeenIn(f) /\ g.lost = f.lost
              /\ \/ g.faults = f.faults
                 \/ g.faults = f.faults + 1 /\ f.faults + crashes < MaxMishaps
           \/ /\ f.cache.dirty /\ g.fat = f.fat
              /\ g.faults = f.faults + 1 /\ g.lost /\ f.faults + crashes < MaxMishaps
    BY FlushIs
  <2>3. g.fat \in Table /\ g.faults \in Nat /\ g.lost \in BOOLEAN
        /\ g.cache \in Cache /\ ~ g.cache.dirty
    BY <2>2, CacheIs
  <2>4. f.fat \in Table /\ f.faults \in Nat /\ f.lost \in BOOLEAN /\ SeenIn(f) \in Table
    BY CacheIs, SeenTyped
  <2>5. /\ g.faults \in f.faults .. f.faults + 1
        /\ f.lost => g.lost
        /\ g.faults = f.faults => g.lost = f.lost
        /\ f.faults + crashes <= MaxMishaps => g.faults + crashes <= MaxMishaps
        /\ ~ f.cache.dirty => g.fat = f.fat
    BY <2>2, <2>3, <2>4, FaultAssumption
  <2>6. \A c \in Cluster : g.fat[c] \in {f.fat[c], SeenIn(f)[c]}
    BY <2>2
  <2>7. \A c \in Cluster : SeenIn(g)[c] \in {f.fat[c], SeenIn(f)[c]}
    BY <2>2 DEF SeenIn
  <2>8. f.cache.dirty /\ ~ g.lost => g.fat = SeenIn(f)
    BY <2>2
  <2>9. Agrees(f) => g.lost \/ g.fat = SeenIn(f)
    <3>1. CASE ~ f.cache.dirty /\ g = f
      <4>1. SUFFICES ASSUME Agrees(f) PROVE \A c \in Cluster : f.fat[c] = SeenIn(f)[c]
        BY <2>4, <3>1 DEF Table
      <4> QED
        BY <3>1, <4>1, CacheBuf, <2>2, CacheIs DEF Agrees, SeenIn
    <3> QED
      BY <2>2, <3>1
  <2>10. CASE r = [ok |-> TRUE, f |-> [g EXCEPT !.cache =
                   [sector |-> sec, buf |-> [c \in Entries(sec) |-> g.fat[c]], dirty |-> FALSE]]]
    <3> DEFINE k == [sector |-> sec, buf |-> [c \in Entries(sec) |-> g.fat[c]], dirty |-> FALSE]
    <3>1. /\ r.ok = TRUE /\ r.f.fat = g.fat /\ r.f.cache = k
          /\ r.f.faults = g.faults /\ r.f.lost = g.lost
      BY <2>2, <2>10 DEF FatState
    <3>2. k \in Cache
      <4>1. k.buf \in [Entries(sec) -> Value]
        BY <2>3 DEF Table, Entries
      <4>2. sec # -1 /\ sec \in FatSector \cup {-1}
        BY DEF FatSector
      <4>3. k.buf \in {<< >>} \cup UNION {[Entries(s) -> Value] : s \in FatSector}
        BY <4>1
      <4> QED
        BY ONLY <4>1, <4>2, <4>3 DEF Cache
    <3>3. r.f \in FatState
      BY ONLY <3>2, <2>2, <2>10 DEF FatState
    <3>4. SeenIn(r.f) = g.fat
      BY <3>1, <2>3 DEF SeenIn, Entries, Table
    <3>5. Agrees(r.f)
      BY <3>1, <2>3 DEF Agrees, Entries, Table
    <3>6. ~ r.f.cache.dirty /\ r.f.cache.sector = sec
      BY <3>1
    <3>8. r = [ok |-> r.ok, f |-> r.f]
      BY <2>10
    <3>7. Reads(f, r.f)
      <4> HIDE DEF k
      <4>1. Nearly(r.f)
        BY <3>5 DEF Agrees, Nearly
      <4> QED
        BY ONLY <2>3, <2>4, <2>5, <2>6, <2>9, <3>1, <3>3, <3>4, <3>5, <3>6, <4>1 DEF Reads
    <3> QED
      BY ONLY <1>2, <2>8, <3>1, <3>6, <3>7, <3>8
  <2>11. CASE /\ MayFail("read", g.faults)
              /\ r = [ok |-> FALSE, f |-> [g EXCEPT !.faults = @ + 1]]
    <3>1. /\ r.ok = FALSE /\ r.f.fat = g.fat /\ r.f.cache = g.cache
          /\ r.f.faults = g.faults + 1 /\ r.f.lost = g.lost
      BY <2>2, <2>11 DEF FatState
    <3>2. r.f \in FatState
      BY ONLY <2>2, <2>11 DEF FatState
    <3>3. SeenIn(r.f) = SeenIn(g) /\ (Agrees(r.f) <=> Agrees(g))
      BY <3>1 DEF SeenIn, Agrees
    <3>4. Agrees(f) /\ ~ g.lost => Agrees(g) /\ SeenIn(g) = SeenIn(f)
      <4>1. CASE g = f
        BY <4>1
      <4>2. CASE g.fat = SeenIn(f)
        <5>1. Agrees(g)
          BY <4>2, <2>2, <2>3, CacheBuf DEF Agrees, SeenIn, Cache, Entries, NoCache
        <5>2. SeenIn(g) = SeenIn(f)
          BY <4>2, <2>2 DEF SeenIn
        <5> QED
          BY <5>1, <5>2
      <4> QED
        BY <2>2, <4>1, <4>2
    <3>7. g.faults + crashes < MaxMishaps
      BY <2>11 DEF MayFail
    <3>8. \A c \in Cluster : {r.f.fat[c], SeenIn(r.f)[c]} \subseteq {f.fat[c], SeenIn(f)[c]}
      BY <2>6, <2>7, <3>1, <3>3
    <3>9. ~ r.f.cache.dirty
      BY <2>3, <3>1
    <3>11. Nearly(f) /\ ~ g.lost => Nearly(r.f)
      <4>1. CASE g = f
        BY <2>4, <3>1, <4>1 DEF Nearly
      <4>2. CASE g.fat = SeenIn(f)
        <5>1. Agrees(g)
          BY <4>2, <2>2, <2>3, CacheBuf DEF Agrees, SeenIn, Cache, Entries, NoCache
        <5> QED
          BY <5>1, <3>3 DEF Agrees, Nearly
      <4> QED
        BY <2>2, <4>1, <4>2
    <3>5. Reads(f, r.f)
      BY ONLY <2>3, <2>4, <2>5, <3>1, <3>2, <3>3, <3>4, <3>7, <3>8, <3>9, <3>11,
              FaultAssumption, crashes \in Nat DEF Reads
    <3>6. r.f.faults > f.faults /\ ~ r.f.cache.dirty /\ r.f.cache.sector = f.cache.sector
      BY <2>2, <2>3, <2>4, <2>5, <3>1
    <3>10. r = [ok |-> r.ok, f |-> r.f]
      BY <2>11
    <3> QED
      BY ONLY <1>2, <2>8, <3>1, <3>5, <3>6, <3>10
  <2> QED
    BY <2>1, <2>10, <2>11
<1> QED
  BY <1>1, <1>2

LEMMA GetNextIs ==
  ASSUME NEW f \in FatState, NEW c \in Cluster, NEW n \in getNextCluster(f, c),
         crashes \in Nat
  PROVE  /\ Reads(f, n.f)
         /\ n.next \in Cluster \cup {NONE}
         /\ n.next # NONE => n.next \in {f.fat[c], SeenIn(f)[c]}
         /\ n.f.faults = f.faults /\ n.next = NONE =>
              ~ {f.fat[c], SeenIn(f)[c]} \subseteq Cluster
<1>1. PICK r \in Load(f, Sector(c)) :
        n = [next |-> IF r.ok /\ r.f.cache.buf[c] \in Cluster THEN r.f.cache.buf[c] ELSE NONE,
             f |-> r.f]
  BY DEF getNextCluster
<1>2. Reads(f, r.f) /\ (r.ok => r.f.cache.sector = Sector(c)) /\ (~ r.ok => r.f.faults > f.faults)
      /\ r.ok \in BOOLEAN
  BY <1>1, LoadIs, SectorIsFatSector
<1>3. r.ok => SeenIn(r.f)[c] = r.f.cache.buf[c]
  BY <1>2 DEF SeenIn
<1>4. n.f = r.f /\ n.next = IF r.ok /\ r.f.cache.buf[c] \in Cluster THEN r.f.cache.buf[c] ELSE NONE
  BY <1>1
<1>5. SeenIn(r.f)[c] \in {f.fat[c], SeenIn(f)[c]} /\ f.faults \in Nat /\ r.f.faults \in Nat
  BY <1>2, CacheIs DEF Reads
<1> QED
  BY ONLY <1>2, <1>3, <1>4, <1>5, Constants

\* g is f with the entry of c set to v in the cache, after reads of the FAT.
Sets(f, c, v, g) ==
  /\ g \in FatState
  /\ f.faults <= g.faults /\ (f.lost => g.lost)
  /\ g.faults = f.faults => g.lost = f.lost
  /\ f.faults + crashes <= MaxMishaps => g.faults + crashes <= MaxMishaps
  /\ g.cache.dirty /\ g.cache.sector = Sector(c)
  /\ SeenIn(g)[c] = v
  /\ \A d \in Cluster : g.fat[d] \in {f.fat[d], SeenIn(f)[d]}
  /\ \A d \in Cluster : d # c => SeenIn(g)[d] \in {f.fat[d], SeenIn(f)[d]}
  /\ Agrees(f) /\ ~ g.lost => \A d \in Cluster : d # c => SeenIn(g)[d] = SeenIn(f)[d]
  /\ f.cache.dirty /\ f.cache.sector # Sector(c) /\ ~ g.lost =>
       \A d \in Cluster : Sector(d) = f.cache.sector => g.fat[d] = SeenIn(f)[d]
  /\ f.cache.sector = Sector(c) \/ ~ f.cache.dirty => g.fat = f.fat

\* A value put into the cached sector, which becomes dirty or not.
Stores(f, c, v, b, g) ==
  \/ g = [f EXCEPT !.cache.buf[c] = v] /\ b = f.cache.dirty
  \/ g = [f EXCEPT !.cache.buf[c] = v, !.cache.dirty = TRUE] /\ b = TRUE

LEMMA BufferIs ==
  ASSUME NEW f \in FatState, NEW c \in Cluster, f.cache.sector = Sector(c), NEW v \in Value,
         NEW g, NEW b \in BOOLEAN, Stores(f, c, v, b, g)
  PROVE  /\ g \in FatState
         /\ g.fat = f.fat /\ g.faults = f.faults /\ g.lost = f.lost
         /\ g.cache.sector = f.cache.sector /\ g.cache.dirty = b
         /\ SeenIn(g) = [SeenIn(f) EXCEPT ![c] = v]
<1> DEFINE Caches == [sector : FatSector \cup {-1},
                      buf : {<< >>} \cup UNION {[Entries(sec) -> Value] : sec \in FatSector},
                      dirty : BOOLEAN]
           buf == [f.cache.buf EXCEPT ![c] = v]
<1>1. f.cache \in Cache /\ f.cache.sector # -1
  BY CacheIs, SectorIsFatSector
<1>2. f.cache.buf \in [Entries(Sector(c)) -> Value] /\ c \in Entries(Sector(c))
  <2>1. f.cache.buf \in [Entries(f.cache.sector) -> Value]
    BY ONLY <1>1, CacheBuf
  <2> QED
    BY <2>1 DEF Entries
<1>3. buf \in [Entries(Sector(c)) -> Value]
  BY <1>2
<1>4. f.cache \in Caches
  BY <1>1 DEF Cache
<1>5. buf \in UNION {[Entries(sec) -> Value] : sec \in FatSector}
  BY <1>3, SectorIsFatSector
<1>6. /\ g.fat = f.fat /\ g.faults = f.faults /\ g.lost = f.lost
      /\ \/ g.cache = [f.cache EXCEPT !.buf = buf] /\ b = f.cache.dirty
         \/ g.cache = [f.cache EXCEPT !.buf = buf, !.dirty = TRUE] /\ b = TRUE
      /\ g \in [fat : {f.fat}, cache : {g.cache}, faults : {f.faults}, lost : {f.lost}]
  BY DEF FatState, Stores
<1> HIDE DEF buf
<1>7. g.cache \in Caches /\ g.cache.sector = Sector(c) /\ g.cache.buf = buf /\ g.cache.dirty = b
  BY ONLY <1>4, <1>5, <1>6, f.cache.sector = Sector(c)
<1> HIDE DEF Caches
<1>8. g.cache \in Cache
  <2>1. g.cache.sector # -1 /\ g.cache.buf \in [Entries(g.cache.sector) -> Value]
    BY <1>3, <1>7, SectorIsFatSector
  <2> QED
    BY <1>7, <2>1 DEF Cache, Caches
<1>9. g \in FatState
  BY <1>6, <1>8 DEF FatState
<1>10. \A d \in Cluster : SeenIn(g)[d] = [SeenIn(f) EXCEPT ![c] = v][d]
  BY <1>2, <1>6, <1>7 DEF SeenIn, Entries, buf
<1>11. SeenIn(g) = [SeenIn(f) EXCEPT ![c] = v]
  BY <1>10 DEF SeenIn
<1> QED
  BY <1>6, <1>7, <1>9, <1>11

LEMMA SetIs ==
  ASSUME NEW f \in FatState, NEW c \in Cluster, NEW v \in Value, NEW r \in setFatEntry(f, c, v),
         crashes \in Nat
  PROVE  /\ r.ok \in BOOLEAN
         /\ r.ok => Sets(f, c, v, r.f)
         /\ ~ r.ok => /\ Reads(f, r.f) /\ r.f.faults > f.faults
                      /\ ~ r.f.cache.dirty /\ r.f.cache.sector = f.cache.sector
         /\ r = [ok |-> r.ok, f |-> r.f]
<1>1. PICK s \in Load(f, Sector(c)) :
        r = IF s.ok
            THEN [ok |-> TRUE, f |-> [s.f EXCEPT !.cache.buf[c] = v, !.cache.dirty = TRUE]]
            ELSE s
  BY DEF setFatEntry
<1>2. /\ s.ok \in BOOLEAN /\ s = [ok |-> s.ok, f |-> s.f]
      /\ Reads(f, s.f)
      /\ s.ok => s.f.cache.sector = Sector(c)
      /\ ~ s.ok => /\ s.f.faults > f.faults /\ ~ s.f.cache.dirty
                   /\ s.f.cache.sector = f.cache.sector
      /\ f.cache.sector = Sector(c) => s.ok /\ s.f = f
      /\ f.cache.dirty /\ f.cache.sector # Sector(c) /\ ~ s.f.lost =>
           \A d \in Cluster : Sector(d) = f.cache.sector => s.f.fat[d] = SeenIn(f)[d]
  BY <1>1, LoadIs, SectorIsFatSector
<1>3. CASE ~ s.ok
  <2>1. r = s
    BY <1>1, <1>3
  <2> QED
    BY <1>2, <1>3, <2>1
<1>4. CASE s.ok
  <2> DEFINE g == [s.f EXCEPT !.cache.buf[c] = v, !.cache.dirty = TRUE]
  <2>1. r = [ok |-> TRUE, f |-> g]
    BY <1>1, <1>4
  <2>2. s.f \in FatState /\ s.f.cache.sector = Sector(c)
    BY <1>2, <1>4 DEF Reads
  <2>3. /\ g \in FatState
        /\ g.fat = s.f.fat /\ g.faults = s.f.faults /\ g.lost = s.f.lost
        /\ g.cache.sector = s.f.cache.sector /\ g.cache.dirty = TRUE
        /\ SeenIn(g) = [SeenIn(s.f) EXCEPT ![c] = v]
    <3>1. Stores(s.f, c, v, TRUE, g)
      BY DEF Stores
    <3> HIDE DEF g
    <3> QED
      BY ONLY <2>2, <3>1, BufferIs, c \in Cluster, v \in Value
  <2> HIDE DEF g
  <2>7. Sets(f, c, v, g)
    <3>1. \A d \in Cluster : SeenIn(g)[d] = IF d = c THEN v ELSE SeenIn(s.f)[d]
      BY <2>3 DEF SeenIn
    <3> QED
      BY <1>2, <1>4, <2>2, <2>3, <3>1 DEF Reads, Sets
  <2> QED
    BY <1>4, <2>1, <2>7
<1> QED
  BY <1>2, <1>3, <1>4

\* g is f with c claimed: marked, and linked behind p if there is one.
Claims(f, c, p, g) ==
  /\ g \in FatState
  /\ f.faults <= g.faults /\ (f.lost => g.lost)
  /\ g.faults = f.faults => g.lost = f.lost
  /\ f.faults + crashes <= MaxMishaps => g.faults + crashes <= MaxMishaps
  /\ g.cache.dirty /\ g.cache.sector = Sector(IF p = NONE THEN c ELSE p)
  /\ ~ g.lost => SeenIn(g)[c] = EOF
  /\ ~ g.lost /\ g.cache.sector # Sector(c) => g.fat[c] = EOF
  /\ p # NONE => SeenIn(g)[p] = c
  /\ \A d \in Cluster : d # c => g.fat[d] \in {f.fat[d], SeenIn(f)[d]}
  /\ \A d \in Cluster : d \notin {c, p} => SeenIn(g)[d] \in {f.fat[d], SeenIn(f)[d]}
  /\ \A d \in Cluster : d \notin {c, p} /\ ~ g.lost => SeenIn(g)[d] = SeenIn(f)[d]
  /\ g.fat[c] \in {f.fat[c], EOF}

\* g is f with c marked and the mark taken back in the cache.
Unclaims(f, c, g) ==
  /\ g \in FatState
  /\ f.faults < g.faults /\ (f.lost => g.lost)
  /\ f.faults + crashes <= MaxMishaps => g.faults + crashes <= MaxMishaps
  /\ ~ g.cache.dirty
  /\ \A d \in Cluster : d # c => {g.fat[d], SeenIn(g)[d]} \subseteq {f.fat[d], SeenIn(f)[d]}
  /\ g.fat[c] \in {f.fat[c], EOF} /\ SeenIn(g)[c] = FREE
  /\ ~ g.lost => Nearly(g)

\* What allocCluster makes of the sector it has found a free cluster in.
LEMMA MarkedIs ==
  ASSUME NEW f \in FatState, NEW c \in Cluster, f.cache.sector = Sector(c)
  PROVE  LET marked == [f EXCEPT !.cache.buf[c] = EOF, !.cache.dirty = TRUE]
         IN  /\ marked \in FatState
             /\ marked.fat = f.fat /\ marked.faults = f.faults /\ marked.lost = f.lost
             /\ marked.cache.sector = f.cache.sector /\ marked.cache.dirty = TRUE
             /\ SeenIn(marked) = [SeenIn(f) EXCEPT ![c] = EOF]
<1> DEFINE marked == [f EXCEPT !.cache.buf[c] = EOF, !.cache.dirty = TRUE]
<1>1. Stores(f, c, EOF, TRUE, marked) /\ EOF \in Value
  BY DEF Stores, Value
<1> HIDE DEF marked
<1>2. /\ marked \in FatState
      /\ marked.fat = f.fat /\ marked.faults = f.faults /\ marked.lost = f.lost
      /\ marked.cache.sector = f.cache.sector /\ marked.cache.dirty = TRUE
      /\ SeenIn(marked) = [SeenIn(f) EXCEPT ![c] = EOF]
  BY <1>1, BufferIs
<1> QED
  BY <1>2 DEF marked

LEMMA ClaimIs ==
  ASSUME NEW f \in FatState, NEW c \in Cluster, f.cache.sector = Sector(c), SeenIn(f)[c] = FREE,
         alloc.prev \in Cluster \cup {NONE}, alloc.prev # c,
         NEW k \in Claim(f, c), crashes \in Nat
  PROVE  /\ k.ok \in BOOLEAN
         /\ k.ok => Claims(f, c, alloc.prev, k.f)
         /\ ~ k.ok => Unclaims(f, c, k.f)
<1> DEFINE marked == [f EXCEPT !.cache.buf[c] = EOF, !.cache.dirty = TRUE]
           p == alloc.prev
<1>1. /\ marked \in FatState
      /\ marked.fat = f.fat /\ marked.faults = f.faults /\ marked.lost = f.lost
      /\ marked.cache.sector = f.cache.sector /\ marked.cache.dirty = TRUE
      /\ SeenIn(marked) = [SeenIn(f) EXCEPT ![c] = EOF]
  BY MarkedIs
<1>2. \/ p = NONE /\ k = [ok |-> TRUE, f |-> marked]
      \/ /\ p # NONE
         /\ \E r \in setFatEntry(marked, p, c) :
              k = IF r.ok THEN r ELSE [r EXCEPT !.f.cache.buf[c] = FREE]
  BY DEF Claim
<1>0. \A d \in Cluster : SeenIn(marked)[d] = IF d = c THEN EOF ELSE SeenIn(f)[d]
  BY ONLY <1>1 DEF SeenIn
<1>5. f.faults \in Nat /\ f.lost \in BOOLEAN
  BY CacheIs
<1> HIDE DEF marked, p
<1>3. CASE p = NONE
  <2>1. k.ok = TRUE /\ k.f = marked
    BY <1>2, <1>3
  <2>2. Claims(f, c, p, marked)
    BY <1>0, <1>1, <1>3, <1>5 DEF Claims
  <2> QED
    BY ONLY <2>1, <2>2 DEF p
<1>4. CASE p # NONE
  <2>1. PICK r \in setFatEntry(marked, p, c) :
          k = IF r.ok THEN r ELSE [r EXCEPT !.f.cache.buf[c] = FREE]
    BY <1>2, <1>4
  <2>2. p \in Cluster /\ c \in Value /\ p # c
    BY <1>4 DEF p, Value
  <2>3. /\ r.ok \in BOOLEAN
        /\ r.ok => Sets(marked, p, c, r.f)
        /\ ~ r.ok => /\ Reads(marked, r.f) /\ r.f.faults > marked.faults
                     /\ ~ r.f.cache.dirty /\ r.f.cache.sector = marked.cache.sector
        /\ r = [ok |-> r.ok, f |-> r.f]
    BY ONLY <1>1, <2>1, <2>2, SetIs, crashes \in Nat
  <2>4. CASE r.ok
    <3>1. k = r
      BY <2>1, <2>4
    <3>2. Claims(f, c, p, r.f)
      BY ONLY <1>0, <1>1, <1>4, <1>5, <2>2, <2>3, <2>4, f.cache.sector = Sector(c)
         DEF Sets, Claims, Agrees
    <3> QED
      BY <2>4, <3>1, <3>2 DEF p
  <2>5. CASE ~ r.ok
    <3> DEFINE g == [r.f EXCEPT !.cache.buf[c] = FREE]
    <3>1. k = [r EXCEPT !.f = g]
      BY <2>1, <2>5
    <3>2. r = [ok |-> FALSE, f |-> r.f]
      BY <2>3, <2>5
    <3>3. k.ok = FALSE /\ k.f = g
      BY ONLY <3>1, <3>2
    <3>5. r.f \in FatState /\ r.f.cache.sector = Sector(c) /\ FREE \in Value
      BY <1>1, <2>3, <2>5 DEF Reads, Value
    <3>6. r.f.cache.dirty = FALSE
      BY <2>3, <2>5, <3>5, CacheIs
    <3>7. /\ g \in FatState
          /\ g.fat = r.f.fat /\ g.faults = r.f.faults /\ g.lost = r.f.lost
          /\ g.cache.dirty = r.f.cache.dirty
          /\ SeenIn(g) = [SeenIn(r.f) EXCEPT ![c] = FREE]
      <4>1. Stores(r.f, c, FREE, r.f.cache.dirty, g) /\ r.f.cache.dirty \in BOOLEAN
        BY <3>6 DEF Stores
      <4> HIDE DEF g
      <4> QED
        BY ONLY <3>5, <4>1, BufferIs, c \in Cluster
    <3>8. \A d \in Cluster : SeenIn(g)[d] = IF d = c THEN FREE ELSE SeenIn(r.f)[d]
      <4>1. SeenIn(g) = [SeenIn(r.f) EXCEPT ![c] = FREE] /\ DOMAIN SeenIn(r.f) = Cluster
        BY <3>7 DEF SeenIn
      <4> HIDE DEF g
      <4> QED
        BY ONLY <4>1
    <3>9. ~ g.lost => Nearly(g)
      <4>1. SUFFICES ASSUME ~ r.f.lost PROVE Nearly(g)
        BY <3>7
      <4>2. Agrees(r.f) /\ SeenIn(r.f) = SeenIn(marked)
        BY <1>1, <2>3, <2>5, <4>1 DEF Reads, Agrees
      <4>3. r.f.cache.buf[c] = EOF /\ c \in DOMAIN r.f.cache.buf
        BY <1>0, <3>5, <4>2, CacheBuf DEF SeenIn, FatState
      <4>4. r.f.fat[c] = EOF /\ r.f.faults > 0
        <5>1. r.f.faults \in Nat
          BY <3>5, CacheIs
        <5>2. marked.faults \in Nat /\ r.f.faults > marked.faults
          BY <1>1, <1>5, <2>3, <2>5
        <5> QED
          BY <3>6, <4>2, <4>3, <5>1, <5>2 DEF Agrees
      <4>5. /\ DOMAIN g.cache.buf = DOMAIN r.f.cache.buf
            /\ \A d \in DOMAIN r.f.cache.buf :
                 g.cache.buf[d] = IF d = c THEN FREE ELSE r.f.cache.buf[d]
        <5>1. g.cache = [r.f.cache EXCEPT !.buf = [@ EXCEPT ![c] = FREE]]
          BY <3>5 DEF FatState
        <5>2. g.cache.buf = [r.f.cache.buf EXCEPT ![c] = FREE]
          BY <3>5, <5>1, CacheIs DEF Cache
        <5>3. r.f.cache.buf \in [Entries(r.f.cache.sector) -> Value]
          BY <3>5, CacheIs, CacheBuf, SectorIsFatSector DEF FatSector
        <5> QED
          BY ONLY <5>2, <5>3
      <4> HIDE DEF g
      <4>6. ~ r.f.cache.dirty /\ g.fat = r.f.fat /\ g.faults = r.f.faults
        BY <3>6, <3>7
      <4> QED
        BY ONLY <4>2, <4>4, <4>5, <4>6 DEF Agrees, Nearly
    <3> HIDE DEF g
    <3>4. Unclaims(f, c, g)
      BY ONLY <1>0, <1>1, <1>5, <2>3, <2>5, <3>6, <3>7, <3>8, <3>9 DEF Unclaims, Reads
    <3> QED
      BY ONLY <3>3, <3>4 DEF p, g
  <2> QED
    BY <2>3, <2>4, <2>5
<1> QED
  BY <1>3, <1>4

------------------------------------------------------------------------------
(* What the steps of the loops do, in these terms. *)

FTyped == F \in FatState /\ crashes \in Nat /\ faults + crashes <= MaxMishaps

Seen == SeenIn(F)

\* The loop at cur reads where it goes on, n, or finds nothing there: NONE.
Onward(n) ==
  /\ Reads(F, F')
  /\ n \in Cluster \cup {NONE}
  /\ n # NONE => n \in {fat[cur], Seen[cur]}
  /\ faults' = faults /\ n = NONE => ~ {fat[cur], Seen[cur]} \subseteq Cluster

LEMMA FIs ==
  F.fat = fat /\ F.cache = cache /\ F.faults = faults /\ F.lost = lost
  BY DEF F

LEMMA BecomesIs ==
  ASSUME NEW g \in FatState, Becomes(g)
  PROVE  F' = g
<1>1. F' = [fat |-> g.fat, cache |-> g.cache, faults |-> g.faults, lost |-> g.lost]
  BY DEF F, Becomes
<1>2. g = [fat |-> g.fat, cache |-> g.cache, faults |-> g.faults, lost |-> g.lost]
  BY DEF FatState
<1> QED
  BY <1>1, <1>2

LEMMA ReadsTransitive ==
  ASSUME NEW f \in FatState, NEW g, NEW h, Reads(f, g), Reads(g, h)
  PROVE  Reads(f, h)
<1>1. g \in FatState /\ h \in FatState
  BY DEF Reads
<1>2. /\ f.faults \in Nat /\ g.faults \in Nat /\ h.faults \in Nat
      /\ f.lost \in BOOLEAN /\ g.lost \in BOOLEAN /\ h.lost \in BOOLEAN
      /\ f.cache.dirty \in BOOLEAN /\ g.cache.dirty \in BOOLEAN /\ h.cache.dirty \in BOOLEAN
  BY <1>1, CacheIs
<1> QED
  BY <1>1, <1>2 DEF Reads

\* A request that fails leaves the FAT and its cache alone.
LEMMA FailureReads ==
  ASSUME FTyped, NEW g \in FatState,
         g.fat = fat, g.cache = cache,
         \/ g.faults = faults /\ g.lost = lost
         \/ g.faults = faults + 1 /\ faults + crashes < MaxMishaps /\ (lost => g.lost)
  PROVE  Reads(F, g)
<1>1. SeenIn(g) = SeenIn(F) /\ (Agrees(g) <=> Agrees(F))
  BY FIs DEF SeenIn, Agrees
<1>2. F \in FatState /\ faults \in Nat /\ crashes \in Nat /\ MaxMishaps \in Nat
  BY FIs, CacheIs, FaultAssumption DEF FTyped
<1>3. Nearly(F) => Nearly(g)
  BY <1>2, FIs DEF Nearly
<1> QED
  BY <1>1, <1>2, <1>3, FIs DEF Reads

LEMMA NextReads ==
  ASSUME FTyped, NEW c \in Cluster, NEW f,
         f = F \/ (f = [F EXCEPT !.faults = @ + 1] /\ MayFail("read", faults)),
         NEW n \in getNextCluster(f, c), Becomes(n.f)
  PROVE  /\ Reads(F, F')
         /\ n.next \in Cluster \cup {NONE}
         /\ n.next # NONE => n.next \in {fat[c], Seen[c]}
         /\ faults' = faults =>
              /\ f = F
              /\ n.next = NONE => ~ {fat[c], Seen[c]} \subseteq Cluster
<1>1. F \in FatState /\ crashes \in Nat /\ faults \in Nat
  BY FIs, CacheIs DEF FTyped
<1>2. /\ f \in FatState /\ f.fat = fat /\ f.cache = cache /\ f.lost = lost
      /\ f.faults = faults \/ (f.faults = faults + 1 /\ faults + crashes < MaxMishaps)
      /\ f = F \/ f.faults = faults + 1
  BY <1>1, FIs DEF FatState, MayFail
<1>3. Reads(F, f) /\ SeenIn(f) = Seen
  BY <1>2, FailureReads, FIs DEF Seen, SeenIn
<1>4. /\ Reads(f, n.f)
      /\ n.next \in Cluster \cup {NONE}
      /\ n.next # NONE => n.next \in {f.fat[c], SeenIn(f)[c]}
      /\ n.f.faults = f.faults /\ n.next = NONE =>
           ~ {f.fat[c], SeenIn(f)[c]} \subseteq Cluster
  BY ONLY <1>1, <1>2, GetNextIs, c \in Cluster, n \in getNextCluster(f, c)
<1>5. n.f \in FatState /\ n.f.faults \in Nat /\ f.faults <= n.f.faults /\ faults' = n.f.faults
  BY <1>4, CacheIs DEF Reads, Becomes
<1>6. F' = n.f
  BY <1>5, BecomesIs
<1>7. Reads(F, F')
  BY ONLY <1>1, <1>3, <1>4, <1>6, ReadsTransitive
<1>8. faults' = faults => f = F /\ n.f.faults = f.faults
  BY <1>1, <1>2, <1>5, FIs
<1> QED
  BY <1>2, <1>3, <1>4, <1>7, <1>8

LEMMA FirstIndex ==
  ASSUME NEW S \in SUBSET Slot, S # {}
  PROVE  \E m \in S : \A j \in 1 .. m - 1 : j \notin S
<1> DEFINE R == OpToRel(<, Nat)
<1>1. \A a, b \in Nat : <<a, b>> \in R <=> a < b
  BY DEF OpToRel
<1>2. IsWellFoundedOn(R, Nat)
  BY NatLessThanWellFounded DEF OpToRel
<1>3. S \subseteq Nat
  BY Constants
<1> HIDE DEF R
<1>4. PICK m \in S : \A y \in S : ~ (<<y, m>> \in R)
  BY <1>2, <1>3, WFMin
<1>5. \A j \in 1 .. m - 1 : j \in Nat /\ j < m
  BY <1>3
<1> QED
  BY <1>1, <1>3, <1>4, <1>5

LEMMA SlotsBefore ==
  \A i \in Slot : 1 .. i - 1 \subseteq Slot
  BY GeometryAssumption DEF Slot

LEMMA FailureCounts ==
  ASSUME FTyped
  PROVE  [F EXCEPT !.faults = @ + 1] # F
<1> DEFINE F1 == [F EXCEPT !.faults = @ + 1]
<1>1. F1.faults = faults + 1 /\ F.faults = faults /\ faults \in Nat
  BY FIs, CacheIs DEF FTyped, FatState
<1>2. faults + 1 # faults
  BY <1>1
<1> HIDE DEF F1
<1>3. F1 # F
  BY ONLY <1>1, <1>2
<1> QED
  BY <1>3 DEF F1

\* A search goes on in the next cluster.
LEMMA OnwardIs ==
  ASSUME FTyped, cur \in Cluster, NEW f,
         f = F \/ (f = [F EXCEPT !.faults = @ + 1] /\ MayFail("read", faults)),
         NEW n \in getNextCluster(f, cur), Becomes(n.f)
  PROVE  Onward(n.next) /\ (faults' = faults => f = F)
<1>1. /\ Reads(F, F')
      /\ n.next \in Cluster \cup {NONE}
      /\ n.next # NONE => n.next \in {fat[cur], Seen[cur]}
      /\ faults' = faults =>
           /\ f = F
           /\ n.next = NONE => ~ {fat[cur], Seen[cur]} \subseteq Cluster
  BY NextReads
<1> QED
  BY ONLY <1>1 DEF Onward

\* Of the slots S that a search would stop at and the slots E of end marks, one is the first.
LEMMA FirstOfTwo ==
  ASSUME NEW S \in SUBSET Slot, NEW E \in SUBSET Slot,
         ~ \E i \in S : \A j \in 1 .. i - 1 : j \notin S /\ j \notin E
  PROVE  /\ E # {} => \E i \in E : \A j \in 1 .. i - 1 : j \notin S /\ j \notin E
         /\ E = {} => S = {}
<1>1. CASE S \cup E = {}
  BY <1>1
<1>2. CASE S \cup E # {}
  <2>1. PICK m \in S \cup E : \A j \in 1 .. m - 1 : j \notin S \cup E
    BY <1>2, FirstIndex
  <2> QED
    BY <2>1
<1> QED
  BY <1>1, <1>2

GoOn(c) ==
  cur' = c /\ Goto(pc) /\ UNCHANGED <<disk, rest, tries, dir, count, file, done, alloc>>

LookFound(e) ==
  IF Len(rest) = 1 THEN Opened(e)
  ELSE IF e.kind # "dir" THEN NotFound
  ELSE /\ LET d == IF e.first # NONE THEN e.first ELSE root
          IN  dir' = d /\ cur' = d
       /\ rest' = Tail(rest)
       /\ Goto("look")
       /\ UNCHANGED <<disk, tries, count, file, done, alloc>>

LEMMA LookCases ==
  ASSUME FTyped, cur \in Cluster, Look
  PROVE  /\ pc = "look"
         /\ \/ \E i \in Slot :
                 /\ Is(disk[cur][i], Head(rest))
                 /\ \A j \in 1 .. i - 1 : ~ Is(disk[cur][j], Head(rest)) /\ disk[cur][j] # END
                 /\ UNCHANGED fatVars
                 /\ LookFound(disk[cur][i])
            \/ \E i \in Slot :
                 /\ disk[cur][i] = END
                 /\ \A j \in 1 .. i - 1 : ~ Is(disk[cur][j], Head(rest)) /\ disk[cur][j] # END
                 /\ UNCHANGED fatVars
                 /\ NotFound
            \/ \E n \in Cluster \cup {NONE} :
                 /\ Onward(n)
                 /\ faults' = faults =>
                      \A j \in Slot : ~ Is(disk[cur][j], Head(rest)) /\ disk[cur][j] # END
                 /\ IF n = NONE THEN NotFound ELSE GoOn(n)
<1>1. pc = "look"
  BY DEF Look
<1> DEFINE Hit(e) == Is(e, Head(rest))
           First(i) == Hit(disk[cur][i]) /\ \A j \in 1 .. i - 1 : ~ Hit(disk[cur][j]) /\ disk[cur][j] # END
           hit == \E i \in Slot : First(i)
           ended == \E i \in Slot : disk[cur][i] = END
           On(f) == \E n \in getNextCluster(f, cur) :
                      Becomes(n.f) /\ IF n.next = NONE THEN NotFound ELSE GoOn(n.next)
           F1 == [F EXCEPT !.faults = @ + 1]
<1>2. \/ \E i \in Slot : First(i) /\ UNCHANGED fatVars /\ LookFound(disk[cur][i])
      \/ ~ hit /\ ended /\ NotFound /\ UNCHANGED fatVars
      \/ ~ hit /\ ~ ended /\ On(F)
      \/ MayFail("read", faults) /\ On(F1)
  BY DEF Look, Search, FirstHit, LookFound, GoOn
<1> DEFINE S == {i \in Slot : Hit(disk[cur][i])}
           E == {i \in Slot : disk[cur][i] = END}
<1>3. CASE \E i \in Slot : First(i) /\ UNCHANGED fatVars /\ LookFound(disk[cur][i])
  BY <1>1, <1>3
<1>4. ~ hit => ~ \E i \in S : \A j \in 1 .. i - 1 : j \notin S /\ j \notin E
  BY SlotsBefore
<1>5. ~ hit =>
        /\ ended => \E i \in E : \A j \in 1 .. i - 1 : j \notin S /\ j \notin E
        /\ ~ ended => S = {} /\ E = {}
  <2> HIDE DEF S
  <2>1. S \in SUBSET Slot /\ E \in SUBSET Slot
    BY DEF S
  <2> HIDE DEF E
  <2>2. ~ hit =>
        /\ E # {} => \E i \in E : \A j \in 1 .. i - 1 : j \notin S /\ j \notin E
        /\ E = {} => S = {}
    BY ONLY <1>4, <2>1, FirstOfTwo
  <2>3. ended <=> E # {}
    BY DEF E
  <2> QED
    BY <2>2, <2>3
<1>6. CASE ~ hit /\ ended /\ NotFound /\ UNCHANGED fatVars
  <2>1. PICK i \in E : \A j \in 1 .. i - 1 : j \notin S /\ j \notin E
    BY <1>5, <1>6
  <2>2. i \in Slot /\ disk[cur][i] = END /\ 1 .. i - 1 \subseteq Slot
    BY SlotsBefore
  <2>3. \A j \in 1 .. i - 1 : ~ Hit(disk[cur][j]) /\ disk[cur][j] # END
    BY <2>1, <2>2
  <2> QED
    BY <1>1, <1>6, <2>2, <2>3
<1>7. CASE ~ hit /\ ~ ended /\ On(F)
  <2>1. PICK n \in getNextCluster(F, cur) :
          Becomes(n.f) /\ IF n.next = NONE THEN NotFound ELSE GoOn(n.next)
    BY <1>7
  <2>2. Onward(n.next) /\ n.next \in Cluster \cup {NONE}
    BY <2>1, OnwardIs DEF Onward
  <2>3. \A j \in Slot : ~ Hit(disk[cur][j]) /\ disk[cur][j] # END
    BY <1>5, <1>7
  <2> QED
    BY <1>1, <2>1, <2>2, <2>3
<1>8. CASE MayFail("read", faults) /\ On(F1)
  <2>1. PICK n \in getNextCluster(F1, cur) :
          Becomes(n.f) /\ IF n.next = NONE THEN NotFound ELSE GoOn(n.next)
    BY <1>8
  <2>2. Onward(n.next) /\ n.next \in Cluster \cup {NONE} /\ faults' # faults
    BY <1>8, <2>1, OnwardIs, FailureCounts DEF Onward
  <2> QED
    BY <1>1, <2>1, <2>2
<1> QED
  BY <1>2, <1>3, <1>6, <1>7, <1>8

AddFound(i) ==
  /\ UNCHANGED <<fat, cache>>
  /\ \/ /\ Write(cur, EntryAdded(i)) /\ Succeeds
        /\ IF command.kind = "write" THEN Goto("next") /\ UNCHANGED locals
           ELSE Return(TRUE, << >>)
     \/ UNCHANGED disk /\ Fails("write") /\ NotAdded
     \/ Write(cur, EntryAdded(i)) /\ FailsWith("write", command.kind = "mkdir") /\ NotAdded
AddExtend ==
  Allocate(cur, "add") /\ UNCHANGED <<disk, rest, tries, dir, cur, count, file, done>>

Updated ==
  IF done = << >>
  THEN /\ cur' = file.first /\ Goto("data")
       /\ UNCHANGED <<rest, tries, dir, count, file, done, alloc>>
  ELSE Return(TRUE, done)
LinkFound(i) ==
  /\ UNCHANGED <<fat, cache>>
  /\ Updated
  /\ LET units == [disk[cur] EXCEPT ![i].first = file.first, ![i].size = file.size]
     IN  (Write(cur, units) /\ Succeeds) \/ WriteFails(cur, units)
NotUpdated == Updated /\ UNCHANGED disk

MarkFound(i) ==
  /\ UNCHANGED <<fat, cache>>
  /\ \/ /\ Write(cur, [disk[cur] EXCEPT ![i] = DELETED])
        /\ Succeeds
        /\ IF file.first = NONE THEN Return(TRUE, << >>)
           ELSE /\ cur' = file.first
                /\ Goto("free")
                /\ UNCHANGED <<rest, tries, dir, count, file, done, alloc>>
     \/ WriteFails(cur, [disk[cur] EXCEPT ![i] = DELETED]) /\ Return(FALSE, << >>)
NotThere == Return(FALSE, << >>) /\ UNCHANGED disk

LEMMA AddCases ==
  ASSUME FTyped, cur \in Cluster, AddDirEntry
  PROVE  /\ pc = "add"
         /\ \/ \E i \in Slot :
                 /\ disk[cur][i] \in {END, DELETED}
                 /\ \A j \in 1 .. i - 1 : disk[cur][j] \notin {END, DELETED}
                 /\ AddFound(i)
            \/ \E n \in Cluster \cup {NONE} :
                 /\ Onward(n)
                 /\ faults' = faults =>
                      \A j \in Slot : disk[cur][j] \notin {END, DELETED}
                 /\ IF n = NONE THEN AddExtend ELSE GoOn(n)
<1>1. pc = "add"
  BY DEF AddDirEntry
<1> DEFINE Hit(e) == e = END \/ e = DELETED
           First(i) == Hit(disk[cur][i]) /\ \A j \in 1 .. i - 1 : ~ Hit(disk[cur][j]) /\ disk[cur][j] # END
           hit == \E i \in Slot : First(i)
           ended == \E i \in Slot : disk[cur][i] = END
           On(f) == \E n \in getNextCluster(f, cur) :
                      Becomes(n.f) /\ IF n.next = NONE THEN AddExtend ELSE GoOn(n.next)
           F1 == [F EXCEPT !.faults = @ + 1]
<1>2. \/ \E i \in Slot : First(i) /\ AddFound(i)
      \/ ~ hit /\ ~ ended /\ On(F)
      \/ MayFail("read", faults) /\ On(F1)
  BY DEF AddDirEntry, Search, FirstHit, GoOn, AddFound, AddExtend
<1> DEFINE S == {i \in Slot : Hit(disk[cur][i])}
           E == {i \in Slot : disk[cur][i] = END}
<1>3. CASE \E i \in Slot : First(i) /\ AddFound(i)
  BY <1>1, <1>3
<1>4. ~ hit => ~ \E i \in S : \A j \in 1 .. i - 1 : j \notin S /\ j \notin E
  BY SlotsBefore
<1>5. ~ hit =>
        /\ ended => \E i \in E : \A j \in 1 .. i - 1 : j \notin S /\ j \notin E
        /\ ~ ended => S = {} /\ E = {}
  <2> HIDE DEF S
  <2>1. S \in SUBSET Slot /\ E \in SUBSET Slot
    BY DEF S
  <2> HIDE DEF E
  <2>2. ~ hit =>
        /\ E # {} => \E i \in E : \A j \in 1 .. i - 1 : j \notin S /\ j \notin E
        /\ E = {} => S = {}
    BY ONLY <1>4, <2>1, FirstOfTwo
  <2>3. ended <=> E # {}
    BY DEF E
  <2> QED
    BY <2>2, <2>3
<1>7. CASE ~ hit /\ ~ ended /\ On(F)
  <2>1. PICK n \in getNextCluster(F, cur) :
          Becomes(n.f) /\ IF n.next = NONE THEN AddExtend ELSE GoOn(n.next)
    BY <1>7
  <2>2. Onward(n.next) /\ n.next \in Cluster \cup {NONE}
    BY <2>1, OnwardIs DEF Onward
  <2>3. \A j \in Slot : disk[cur][j] \notin {END, DELETED}
    BY <1>5, <1>7
  <2> QED
    BY <1>1, <2>1, <2>2, <2>3
<1>8. CASE MayFail("read", faults) /\ On(F1)
  <2>1. PICK n \in getNextCluster(F1, cur) :
          Becomes(n.f) /\ IF n.next = NONE THEN AddExtend ELSE GoOn(n.next)
    BY <1>8
  <2>2. Onward(n.next) /\ n.next \in Cluster \cup {NONE} /\ faults' # faults
    BY <1>8, <2>1, OnwardIs, FailureCounts DEF Onward
  <2> QED
    BY <1>1, <2>1, <2>2
<1> QED
  BY <1>2, <1>3, <1>7, <1>8

LEMMA LinkCases ==
  ASSUME FTyped, cur \in Cluster, UpdateDirEntry
  PROVE  /\ pc = "link"
         /\ \/ \E i \in Slot :
                 /\ Live(disk[cur][i]) /\ Matches(disk[cur][i], Name)
                 /\ \A j \in 1 .. i - 1 : ~ (Live(disk[cur][j]) /\ Matches(disk[cur][j], Name)) /\ disk[cur][j] # END
                 /\ LinkFound(i)
            \/ \E i \in Slot :
                 /\ disk[cur][i] = END
                 /\ \A j \in 1 .. i - 1 : ~ (Live(disk[cur][j]) /\ Matches(disk[cur][j], Name)) /\ disk[cur][j] # END
                 /\ UNCHANGED fatVars
                 /\ NotUpdated
            \/ \E n \in Cluster \cup {NONE} :
                 /\ Onward(n)
                 /\ faults' = faults =>
                      \A j \in Slot : ~ (Live(disk[cur][j]) /\ Matches(disk[cur][j], Name)) /\ disk[cur][j] # END
                 /\ IF n = NONE THEN NotUpdated ELSE GoOn(n)
<1>1. pc = "link"
  BY DEF UpdateDirEntry
<1> DEFINE Hit(e) == Live(e) /\ Matches(e, Name)
           First(i) == Hit(disk[cur][i]) /\ \A j \in 1 .. i - 1 : ~ Hit(disk[cur][j]) /\ disk[cur][j] # END
           hit == \E i \in Slot : First(i)
           ended == \E i \in Slot : disk[cur][i] = END
           On(f) == \E n \in getNextCluster(f, cur) :
                      Becomes(n.f) /\ IF n.next = NONE THEN NotUpdated ELSE GoOn(n.next)
           F1 == [F EXCEPT !.faults = @ + 1]
<1>2. \/ \E i \in Slot : First(i) /\ LinkFound(i)
      \/ ~ hit /\ ended /\ NotUpdated /\ UNCHANGED fatVars
      \/ ~ hit /\ ~ ended /\ On(F)
      \/ MayFail("read", faults) /\ On(F1)
  BY DEF UpdateDirEntry, Search, FirstHit, GoOn, LinkFound, NotUpdated, Updated
<1> DEFINE S == {i \in Slot : Hit(disk[cur][i])}
           E == {i \in Slot : disk[cur][i] = END}
<1>3. CASE \E i \in Slot : First(i) /\ LinkFound(i)
  BY <1>1, <1>3
<1>4. ~ hit => ~ \E i \in S : \A j \in 1 .. i - 1 : j \notin S /\ j \notin E
  BY SlotsBefore
<1>5. ~ hit =>
        /\ ended => \E i \in E : \A j \in 1 .. i - 1 : j \notin S /\ j \notin E
        /\ ~ ended => S = {} /\ E = {}
  <2> HIDE DEF S
  <2>1. S \in SUBSET Slot /\ E \in SUBSET Slot
    BY DEF S
  <2> HIDE DEF E
  <2>2. ~ hit =>
        /\ E # {} => \E i \in E : \A j \in 1 .. i - 1 : j \notin S /\ j \notin E
        /\ E = {} => S = {}
    BY ONLY <1>4, <2>1, FirstOfTwo
  <2>3. ended <=> E # {}
    BY DEF E
  <2> QED
    BY <2>2, <2>3
<1>6. CASE ~ hit /\ ended /\ NotUpdated /\ UNCHANGED fatVars
  <2>1. PICK i \in E : \A j \in 1 .. i - 1 : j \notin S /\ j \notin E
    BY <1>5, <1>6
  <2>2. i \in Slot /\ disk[cur][i] = END /\ 1 .. i - 1 \subseteq Slot
    BY SlotsBefore
  <2>3. \A j \in 1 .. i - 1 : ~ Hit(disk[cur][j]) /\ disk[cur][j] # END
    BY <2>1, <2>2
  <2> QED
    BY <1>1, <1>6, <2>2, <2>3
<1>7. CASE ~ hit /\ ~ ended /\ On(F)
  <2>1. PICK n \in getNextCluster(F, cur) :
          Becomes(n.f) /\ IF n.next = NONE THEN NotUpdated ELSE GoOn(n.next)
    BY <1>7
  <2>2. Onward(n.next) /\ n.next \in Cluster \cup {NONE}
    BY <2>1, OnwardIs DEF Onward
  <2>3. \A j \in Slot : ~ Hit(disk[cur][j]) /\ disk[cur][j] # END
    BY <1>5, <1>7
  <2> QED
    BY <1>1, <2>1, <2>2, <2>3
<1>8. CASE MayFail("read", faults) /\ On(F1)
  <2>1. PICK n \in getNextCluster(F1, cur) :
          Becomes(n.f) /\ IF n.next = NONE THEN NotUpdated ELSE GoOn(n.next)
    BY <1>8
  <2>2. Onward(n.next) /\ n.next \in Cluster \cup {NONE} /\ faults' # faults
    BY <1>8, <2>1, OnwardIs, FailureCounts DEF Onward
  <2> QED
    BY <1>1, <2>1, <2>2
<1> QED
  BY <1>2, <1>3, <1>6, <1>7, <1>8

LEMMA MarkCases ==
  ASSUME FTyped, cur \in Cluster, Mark
  PROVE  /\ pc = "mark"
         /\ \/ \E i \in Slot :
                 /\ ~ command.slash /\ Is(disk[cur][i], Name)
                 /\ \A j \in 1 .. i - 1 : ~ (~ command.slash /\ Is(disk[cur][j], Name)) /\ disk[cur][j] # END
                 /\ MarkFound(i)
            \/ \E i \in Slot :
                 /\ disk[cur][i] = END
                 /\ \A j \in 1 .. i - 1 : ~ (~ command.slash /\ Is(disk[cur][j], Name)) /\ disk[cur][j] # END
                 /\ UNCHANGED fatVars
                 /\ NotThere
            \/ \E n \in Cluster \cup {NONE} :
                 /\ Onward(n)
                 /\ faults' = faults =>
                      \A j \in Slot : ~ (~ command.slash /\ Is(disk[cur][j], Name)) /\ disk[cur][j] # END
                 /\ IF n = NONE THEN NotThere ELSE GoOn(n)
<1>1. pc = "mark"
  BY DEF Mark
<1> DEFINE Hit(e) == ~ command.slash /\ Is(e, Name)
           First(i) == Hit(disk[cur][i]) /\ \A j \in 1 .. i - 1 : ~ Hit(disk[cur][j]) /\ disk[cur][j] # END
           hit == \E i \in Slot : First(i)
           ended == \E i \in Slot : disk[cur][i] = END
           On(f) == \E n \in getNextCluster(f, cur) :
                      Becomes(n.f) /\ IF n.next = NONE THEN NotThere ELSE GoOn(n.next)
           F1 == [F EXCEPT !.faults = @ + 1]
<1>2. \/ \E i \in Slot : First(i) /\ MarkFound(i)
      \/ ~ hit /\ ended /\ NotThere /\ UNCHANGED fatVars
      \/ ~ hit /\ ~ ended /\ On(F)
      \/ MayFail("read", faults) /\ On(F1)
  BY DEF Mark, Search, FirstHit, GoOn, MarkFound, NotThere
<1> DEFINE S == {i \in Slot : Hit(disk[cur][i])}
           E == {i \in Slot : disk[cur][i] = END}
<1>3. CASE \E i \in Slot : First(i) /\ MarkFound(i)
  BY <1>1, <1>3
<1>4. ~ hit => ~ \E i \in S : \A j \in 1 .. i - 1 : j \notin S /\ j \notin E
  BY SlotsBefore
<1>5. ~ hit =>
        /\ ended => \E i \in E : \A j \in 1 .. i - 1 : j \notin S /\ j \notin E
        /\ ~ ended => S = {} /\ E = {}
  <2> HIDE DEF S
  <2>1. S \in SUBSET Slot /\ E \in SUBSET Slot
    BY DEF S
  <2> HIDE DEF E
  <2>2. ~ hit =>
        /\ E # {} => \E i \in E : \A j \in 1 .. i - 1 : j \notin S /\ j \notin E
        /\ E = {} => S = {}
    BY ONLY <1>4, <2>1, FirstOfTwo
  <2>3. ended <=> E # {}
    BY DEF E
  <2> QED
    BY <2>2, <2>3
<1>6. CASE ~ hit /\ ended /\ NotThere /\ UNCHANGED fatVars
  <2>1. PICK i \in E : \A j \in 1 .. i - 1 : j \notin S /\ j \notin E
    BY <1>5, <1>6
  <2>2. i \in Slot /\ disk[cur][i] = END /\ 1 .. i - 1 \subseteq Slot
    BY SlotsBefore
  <2>3. \A j \in 1 .. i - 1 : ~ Hit(disk[cur][j]) /\ disk[cur][j] # END
    BY <2>1, <2>2
  <2> QED
    BY <1>1, <1>6, <2>2, <2>3
<1>7. CASE ~ hit /\ ~ ended /\ On(F)
  <2>1. PICK n \in getNextCluster(F, cur) :
          Becomes(n.f) /\ IF n.next = NONE THEN NotThere ELSE GoOn(n.next)
    BY <1>7
  <2>2. Onward(n.next) /\ n.next \in Cluster \cup {NONE}
    BY <2>1, OnwardIs DEF Onward
  <2>3. \A j \in Slot : ~ Hit(disk[cur][j]) /\ disk[cur][j] # END
    BY <1>5, <1>7
  <2> QED
    BY <1>1, <2>1, <2>2, <2>3
<1>8. CASE MayFail("read", faults) /\ On(F1)
  <2>1. PICK n \in getNextCluster(F1, cur) :
          Becomes(n.f) /\ IF n.next = NONE THEN NotThere ELSE GoOn(n.next)
    BY <1>8
  <2>2. Onward(n.next) /\ n.next \in Cluster \cup {NONE} /\ faults' # faults
    BY <1>8, <2>1, OnwardIs, FailureCounts DEF Onward
  <2> QED
    BY <1>1, <2>1, <2>2
<1> QED
  BY <1>2, <1>3, <1>6, <1>7, <1>8

------------------------------------------------------------------------------
(* Types. *)

DiskTyped == disk \in [Cluster -> [Slot -> Units]]

\* The FAT is cached as it is on the disk except while a change is under way.
CacheTyped ==
  /\ FTyped
  /\ lost => faults > 0 \/ crashes > 0
  /\ faults = 0 /\ ~ lost => Agrees(F)
  /\ ~ lost => Nearly(F)
  /\ cache.dirty => pc \in {"commit", "free", "freed"}

Purposes == {"mkdir", "add", "extend", "first"}

AllocTyped ==
  /\ alloc \in [sector : FatSector, prev : Cluster \cup {NONE}, new : Cluster \cup {NONE},
                purpose : Purposes \cup {"none"}]
  /\ pc \in {"scan", "commit", "zero"} => alloc.purpose \in Purposes
  /\ pc \in {"commit", "zero", "dots"} => alloc.new \in Cluster

\* Where the first cluster of the file is used there is one.
FileTyped ==
  /\ file \in [first : Cluster \cup {NONE}, size : Nat, position : Nat]
  /\ pc \in {"dots", "undo", "walk", "last"} \/ (pc = "link" /\ done = << >>) => file.first \in Cluster
  /\ pc \in {"scan", "commit", "zero"} /\ alloc.purpose = "add" /\ command.kind = "mkdir" =>
       file.first \in Cluster
  /\ pc = "add" /\ command.kind = "mkdir" => file.first \in Cluster

DoneTyped ==
  /\ done \in Seq(Units) /\ (pc = "idle" => done = << >>)
  /\ command # NULL /\ command.kind = "write" => Len(done) <= Len(command.data)

LoopTyped ==
  /\ command \in Command \cup {NULL} /\ (command = NULL <=> pc = "idle")
  /\ dir \in Cluster /\ cur \in Cluster /\ tries \in 0 .. 2 /\ count \in Nat
  /\ rest \in Seq(Names) /\ (pc = "look" => rest # << >>)

ControlTyped == AllocTyped /\ FileTyped /\ DoneTyped /\ LoopTyped

Typed == DiskTyped /\ CacheTyped /\ ControlTyped

LEMMA TypedIsTypeOK ==
  ASSUME Typed
  PROVE  TypeOK
<1>1. F \in FatState /\ faults + crashes <= MaxMishaps /\ crashes \in Nat
  BY DEF Typed, CacheTyped, FTyped
<1>2. /\ fat \in Table /\ cache \in Cache /\ cache.sector \in FatSector \cup {-1}
      /\ cache.dirty \in BOOLEAN /\ lost \in BOOLEAN /\ faults \in Nat
  BY <1>1, FIs, CacheIs
<1>3. cache.sector # -1 => cache.buf \in [Entries(cache.sector) -> Value]
  BY <1>2 DEF Cache
<1>4. faults + crashes \in 0 .. MaxMishaps
  BY <1>1, <1>2, FaultAssumption
<1>5. file.first \in Cluster \cup {NONE}
  BY DEF Typed, ControlTyped, FileTyped
<1> QED
  BY <1>2, <1>3, <1>4, <1>5 DEF Typed, DiskTyped, ControlTyped, LoopTyped, TypeOK, Idle, Value, Table

LEMMA CommandIs ==
  ASSUME NEW c \in Command
  PROVE  /\ c # NULL /\ c.kind \in {"cat", "touch", "write", "mkdir", "rm"}
         /\ c.path \in Seq(Names) /\ c.path # << >> /\ c.path[Len(c.path)] \in Names
         /\ SubSeq(c.path, 1, Len(c.path) - 1) \in Seq(Names)
         /\ c.data \in Seq(Pieces)
<1>1. /\ c # NULL /\ c.kind \in {"cat", "touch", "write", "mkdir", "rm"}
      /\ c.path \in Seq(Names) /\ c.path # << >> /\ c.data \in Seq(Pieces)
  BY CommandAssumption
<1>2. Len(c.path) \in Nat /\ Len(c.path) > 0
  BY <1>1
<1> QED
  BY <1>1, <1>2

LEMMA UnitsAre ==
  /\ END \in Units /\ DELETED \in Units /\ Zeros \in [Slot -> Units]
  /\ \A c \in Cluster : Dot(c) \in Units
  /\ \A u \in Pieces : u \in Units /\ u # END /\ u # DELETED
  /\ \A u \in Units : Live(u) =>
       u \in [kind : {"file", "dir"}, name : Names, first : Cluster \cup {NONE}, size : Nat]
  /\ \A k \in {"file", "dir"}, n \in Names, f \in Cluster \cup {NONE}, m \in Nat :
       Unit(k, n, f, m) \in Units /\ Live(Unit(k, n, f, m))
  /\ ~ Live(END) /\ ~ Live(DELETED) /\ END # DELETED
  /\ \A c : ~ Live(Dot(c)) /\ Dot(c) # END /\ Dot(c) # DELETED
<1>1. \A u \in Pieces : u \in Units /\ (u.kind = "text" \/ u \in DirEntry)
  BY CommandAssumption DEF Units
<1>2. \A u \in DirEntry : u.kind \in {"file", "dir"}
  BY DEF DirEntry
<1>3. \A u \in Units : Live(u) => u \in DirEntry
  <2>1. \A u \in Pieces : Live(u) => u \in DirEntry
    BY <1>1 DEF Live
  <2> QED
    BY <2>1 DEF Units, END, DELETED, Unit, Dot, Live
<1>4. \A u \in Pieces : u # END /\ u # DELETED
  BY <1>1, <1>2 DEF END, DELETED, Unit
<1>5. \A k \in {"file", "dir"}, n \in Names, f \in Cluster \cup {NONE}, m \in Nat :
        Unit(k, n, f, m) \in Units /\ Live(Unit(k, n, f, m))
  BY DEF Units, DirEntry, Unit, Live
<1>6. /\ END \in Units /\ DELETED \in Units /\ Zeros \in [Slot -> Units]
      /\ \A c \in Cluster : Dot(c) \in Units
      /\ ~ Live(END) /\ ~ Live(DELETED) /\ END # DELETED
      /\ \A c : ~ Live(Dot(c)) /\ Dot(c) # END /\ Dot(c) # DELETED
  BY DEF Units, END, DELETED, Unit, Dot, Live, Zeros
<1> QED
  BY <1>1, <1>3, <1>4, <1>5, <1>6 DEF DirEntry

LEMMA InitTyped ==
  ASSUME Init
  PROVE  Typed
<1>1. F \in FatState /\ ~ cache.dirty /\ Agrees(F)
  <2>1. NoCache \in Cache
    BY DEF Cache, NoCache
  <2>2. fat \in Table
    BY DEF Init, Table, Value
  <2>3. \A c \in DOMAIN NoCache.buf : FALSE
    BY DEF NoCache
  <2> QED
    BY <2>1, <2>2, <2>3 DEF Init, F, FatState, NoCache, Agrees
<1>2. CacheTyped
  <2>1. Nearly(F)
    BY <1>1 DEF Agrees, Nearly
  <2> QED
    BY <1>1, <2>1, FaultAssumption DEF Init, CacheTyped, FTyped
<1>3. DiskTyped
  BY UnitsAre DEF Init, DiskTyped
<1>4. << >> \in Seq(Units) /\ << >> \in Seq(Names) /\ 0 \in FatSector /\ root \in Cluster
  BY Constants, GeometryAssumption DEF FatSector, Sector
<1>5. AllocTyped
  BY <1>4 DEF Init, AllocTyped, NoAlloc
<1>6. FileTyped
  BY <1>4 DEF Init, FileTyped, NoFile
<1>7. DoneTyped
  BY <1>4 DEF Init, DoneTyped
<1>8. LoopTyped
  BY <1>4 DEF Init, LoopTyped
<1> QED
  BY <1>2, <1>3, <1>5, <1>6, <1>7, <1>8 DEF Typed, ControlTyped

LEMMA ReturnTyped ==
  ASSUME NEW ok, NEW data, Return(ok, data)
  PROVE  ControlTyped' /\ pc' = "idle" /\ crashes' = crashes
<1>1. << >> \in Seq(Units) /\ << >> \in Seq(Names) /\ 0 \in FatSector /\ root \in Cluster
  BY Constants, GeometryAssumption DEF FatSector, Sector
<1>2. pc' = "idle" /\ command' = NULL /\ rest' = << >> /\ tries' = 0 /\ dir' = root
      /\ cur' = root /\ count' = 0 /\ file' = NoFile /\ done' = << >> /\ alloc' = NoAlloc
      /\ crashes' = crashes
  BY DEF Return
<1>3. AllocTyped'
  BY <1>1, <1>2 DEF AllocTyped, NoAlloc
<1>4. FileTyped'
  BY <1>1, <1>2 DEF FileTyped, NoFile
<1>5. DoneTyped'
  BY <1>1, <1>2 DEF DoneTyped
<1>6. LoopTyped'
  BY <1>1, <1>2 DEF LoopTyped
<1> QED
  BY <1>2, <1>3, <1>4, <1>5, <1>6 DEF ControlTyped

\* A step that only reads the FAT leaves the cache as it should be.
LEMMA QuietKeepsCache ==
  ASSUME CacheTyped, Reads(F, F'), crashes' = crashes, pc \notin {"commit", "free", "freed"}
  PROVE  CacheTyped'
<1>1. /\ F \in FatState /\ F' \in FatState /\ faults \in Nat /\ faults' \in Nat
      /\ cache.dirty \in BOOLEAN /\ cache'.dirty \in BOOLEAN /\ lost \in BOOLEAN /\ lost' \in BOOLEAN
  <2>1. F \in FatState /\ F' \in FatState
    BY DEF CacheTyped, FTyped, Reads
  <2> QED
    BY <2>1, CacheIs, FIs DEF F
<1>2. F'.fat = fat' /\ F'.cache = cache' /\ F'.faults = faults' /\ F'.lost = lost'
  BY DEF F
<1>3. FTyped'
  BY <1>1, <1>2, FIs DEF CacheTyped, FTyped, Reads
<1>4. lost' => faults' > 0 \/ crashes' > 0
  <2>1. faults <= faults' /\ (faults' = faults => lost' = lost) /\ crashes \in Nat
    BY <1>2, FIs DEF Reads, CacheTyped, FTyped
  <2>2. CASE faults' = faults
    BY <2>1, <2>2 DEF CacheTyped
  <2>3. CASE faults' # faults
    <3>1. faults' > 0
      BY <1>1, <2>1, <2>3
    <3> QED
      BY ONLY <3>1
  <2> QED
    BY <2>2, <2>3
<1>5. ~ cache'.dirty
  BY <1>1, <1>2, FIs DEF CacheTyped, Reads
<1>6. /\ faults' = 0 /\ ~ lost' => Agrees(F')
      /\ ~ lost' => Nearly(F')
  BY <1>1, <1>2, FIs DEF CacheTyped, Reads
<1>7. (faults' = 0 /\ ~ lost' => Agrees(F)') /\ (~ lost' => Nearly(F)')
  BY <1>6
<1> QED
  BY <1>3, <1>4, <1>5, <1>7 DEF CacheTyped

\* So does a step that leaves the FAT alone, or whose request for a cluster fails.
LEMMA AloneReads ==
  ASSUME FTyped, UNCHANGED <<fat, cache>>,
         \/ UNCHANGED <<faults, lost>>
         \/ \E kind \in {"read", "write"}, parted \in BOOLEAN : FailsWith(kind, parted)
  PROVE  Reads(F, F')
<1>1. /\ F'.fat = fat /\ F'.cache = cache /\ F'.lost \in BOOLEAN
      /\ \/ F'.faults = faults /\ F'.lost = lost
         \/ F'.faults = faults + 1 /\ faults + crashes < MaxMishaps /\ (lost => F'.lost)
  BY FIs, CacheIs DEF F, FTyped, FailsWith, MayFail
<1>2. F' \in FatState
  BY <1>1, CacheIs, FIs DEF F, FatState, FTyped
<1> QED
  BY ONLY <1>1, <1>2, FTyped, FailureReads

\* What Look, AddDirEntry, UpdateDirEntry and Mark keep when the search goes on.
LEMMA GoOnTyped ==
  ASSUME Typed, NEW c \in Cluster, GoOn(c)
  PROVE  ControlTyped' /\ DiskTyped' /\ crashes' = crashes
  BY DEF Typed, ControlTyped, GoOn, Goto, AllocTyped, FileTyped, DoneTyped, LoopTyped, DiskTyped

\* g is a state that f may become: requests may have failed in between.
Grows(f, g) ==
  /\ g \in FatState
  /\ f.faults <= g.faults /\ (f.lost => g.lost)
  /\ g.faults = f.faults => g.lost = f.lost
  /\ f.faults + crashes <= MaxMishaps => g.faults + crashes <= MaxMishaps
  /\ Nearly(f) /\ ~ g.lost => Nearly(g)

LEMMA GrowsKeepsCache ==
  ASSUME CacheTyped, Grows(F, F'), crashes' = crashes,
         faults' = 0 /\ ~ lost' => Agrees(F)',
         cache'.dirty => pc' \in {"commit", "free", "freed"}
  PROVE  CacheTyped'
<1>1. F \in FatState /\ F' \in FatState
  BY DEF CacheTyped, FTyped, Grows
<1>2. /\ F'.fat = fat' /\ F'.cache = cache' /\ F'.faults = faults' /\ F'.lost = lost'
      /\ faults \in Nat /\ faults' \in Nat
  BY <1>1, CacheIs, FIs DEF F
<1>3. FTyped'
  BY <1>1, <1>2, FIs DEF CacheTyped, FTyped, Grows
<1>4. lost' => faults' > 0 \/ crashes' > 0
  <2>1. /\ faults <= faults' /\ (faults' = faults => lost' = lost)
        /\ (lost => faults > 0 \/ crashes > 0) /\ crashes \in Nat
    BY <1>2, FIs DEF Grows, CacheTyped, FTyped
  <2>2. CASE faults' = faults
    BY <2>1, <2>2
  <2>3. CASE faults' # faults
    <3>1. faults' > 0
      BY <1>2, <2>1, <2>3
    <3> QED
      BY ONLY <3>1
  <2> QED
    BY <2>2, <2>3
<1>5. ~ lost' => Nearly(F')
  BY <1>1, <1>2, FIs DEF CacheTyped, Grows
<1>6. ~ lost' => Nearly(F)'
  BY <1>5
<1> QED
  BY <1>3, <1>4, <1>6 DEF CacheTyped

LEMMA SetGrows ==
  ASSUME NEW f \in FatState, NEW c \in Cluster, NEW v \in Value, NEW r \in setFatEntry(f, c, v),
         crashes \in Nat
  PROVE  /\ Grows(f, r.f)
         /\ ~ r.ok => r.f.faults > f.faults /\ ~ r.f.cache.dirty
         /\ r.ok => r.f.cache.dirty
BY SetIs DEF Sets, Reads, Grows, Nearly

LEMMA ReadsGrows ==
  ASSUME NEW f \in FatState, NEW g, Reads(f, g)
  PROVE  Grows(f, g)
BY DEF Reads, Grows

LEMMA GrowsTransitive ==
  ASSUME NEW f \in FatState, NEW g, NEW h, Grows(f, g), Grows(g, h)
  PROVE  Grows(f, h)
<1>1. g \in FatState /\ h \in FatState
  BY DEF Grows
<1>2. /\ f.faults \in Nat /\ g.faults \in Nat /\ h.faults \in Nat
      /\ f.lost \in BOOLEAN /\ g.lost \in BOOLEAN /\ h.lost \in BOOLEAN
  BY <1>1, CacheIs
<1> QED
  BY <1>1, <1>2 DEF Grows

\* A mark that is taken back in the cache.
LEMMA TakenBack ==
  ASSUME NEW f \in FatState, NEW c \in Cluster, f.cache.sector = Sector(c), ~ f.cache.dirty,
         Agrees(f), SeenIn(f)[c] = EOF, f.faults > 0,
         NEW g, g = [f EXCEPT !.cache.buf[c] = FREE]
  PROVE  Nearly(g)
<1>1. f.cache \in Cache /\ f.cache.sector # -1
  BY CacheIs, SectorIsFatSector
<1>2. f.cache.buf \in [Entries(f.cache.sector) -> Value] /\ c \in DOMAIN f.cache.buf
  BY <1>1, CacheBuf
<1>3. f.cache.buf[c] = EOF /\ f.fat[c] = EOF
  BY <1>2 DEF SeenIn, Agrees
<1>4. /\ g.cache = [f.cache EXCEPT !.buf = [@ EXCEPT ![c] = FREE]]
      /\ g.fat = f.fat /\ g.faults = f.faults
  BY DEF FatState
<1>5. g.cache.buf = [f.cache.buf EXCEPT ![c] = FREE]
  BY <1>1, <1>4 DEF Cache
<1>6. /\ DOMAIN g.cache.buf = DOMAIN f.cache.buf
      /\ \A d \in DOMAIN f.cache.buf :
           g.cache.buf[d] = IF d = c THEN FREE ELSE f.cache.buf[d]
  BY ONLY <1>2, <1>5
<1> QED
  BY <1>3, <1>4, <1>6 DEF Agrees, Nearly

\* A claim, also of the cluster that it is to be linked to, as a damaged FAT may have it.
LEMMA ClaimGrows ==
  ASSUME NEW f \in FatState, NEW c \in Cluster, f.cache.sector = Sector(c),
         alloc.prev \in Cluster \cup {NONE}, NEW k \in Claim(f, c), crashes \in Nat
  PROVE  /\ Grows(f, k.f)
         /\ ~ k.ok => k.f.faults > f.faults /\ ~ k.f.cache.dirty
         /\ k.ok => k.f.cache.dirty
<1> DEFINE marked == [f EXCEPT !.cache.buf[c] = EOF, !.cache.dirty = TRUE]
           p == alloc.prev
<1>1. /\ marked \in FatState
      /\ marked.faults = f.faults /\ marked.lost = f.lost
      /\ marked.cache.sector = f.cache.sector /\ marked.cache.dirty = TRUE
      /\ SeenIn(marked)[c] = EOF
  <2>1. /\ marked \in FatState
        /\ marked.fat = f.fat /\ marked.faults = f.faults /\ marked.lost = f.lost
        /\ marked.cache.sector = f.cache.sector /\ marked.cache.dirty = TRUE
        /\ SeenIn(marked) = [SeenIn(f) EXCEPT ![c] = EOF]
    BY MarkedIs
  <2>2. c \in DOMAIN SeenIn(f)
    BY DEF SeenIn
  <2> HIDE DEF marked
  <2> QED
    BY ONLY <2>1, <2>2
<1>2. \/ p = NONE /\ k = [ok |-> TRUE, f |-> marked]
      \/ /\ p # NONE
         /\ \E r \in setFatEntry(marked, p, c) :
              k = IF r.ok THEN r ELSE [r EXCEPT !.f.cache.buf[c] = FREE]
  BY DEF Claim
<1> HIDE DEF marked, p
<1>5. Grows(f, marked) /\ f.faults \in Nat
  BY <1>1, CacheIs DEF Grows, Nearly
<1>6. SeenIn(marked)[c] = EOF
  BY <1>1
<1>3. CASE p = NONE
  <2>1. k.ok = TRUE /\ k.f = marked
    BY <1>2, <1>3
  <2> QED
    BY <1>1, <1>5, <2>1
<1>4. CASE p # NONE
  <2>1. PICK r \in setFatEntry(marked, p, c) :
          k = IF r.ok THEN r ELSE [r EXCEPT !.f.cache.buf[c] = FREE]
    BY <1>2, <1>4
  <2>2. p \in Cluster /\ c \in Value
    BY <1>4 DEF p, Value
  <2>3. /\ Grows(marked, r.f)
        /\ ~ r.ok => r.f.faults > marked.faults /\ ~ r.f.cache.dirty
                     /\ r.f.cache.sector = marked.cache.sector /\ Reads(marked, r.f)
        /\ r.ok => r.f.cache.dirty
        /\ r = [ok |-> r.ok, f |-> r.f] /\ r.ok \in BOOLEAN
    BY ONLY <1>1, <2>1, <2>2, SetIs, SetGrows, crashes \in Nat
  <2>6. Grows(f, r.f)
    BY <1>5, <2>3, GrowsTransitive
  <2>4. CASE r.ok
    BY <2>1, <2>3, <2>4, <2>6
  <2>5. CASE ~ r.ok
    <3> DEFINE g == [r.f EXCEPT !.cache.buf[c] = FREE]
    <3>1. k = [r EXCEPT !.f = g] /\ r = [ok |-> FALSE, f |-> r.f]
      BY <2>1, <2>3, <2>5
    <3>3. k.ok = FALSE /\ k.f = g
      BY ONLY <3>1
    <3>5. r.f \in FatState /\ r.f.cache.sector = Sector(c) /\ FREE \in Value
      BY <1>1, <2>3, <2>5 DEF Grows, Value
    <3>6. r.f.cache.dirty = FALSE
      BY <2>3, <2>5, <3>5, CacheIs
    <3>7. /\ g \in FatState
          /\ g.faults = r.f.faults /\ g.lost = r.f.lost
          /\ g.cache.dirty = r.f.cache.dirty
      <4>1. Stores(r.f, c, FREE, r.f.cache.dirty, g) /\ r.f.cache.dirty \in BOOLEAN
        BY <3>6 DEF Stores
      <4> HIDE DEF g
      <4> QED
        BY ONLY <3>5, <4>1, BufferIs, c \in Cluster
    <3>9. ~ g.lost => Nearly(g)
      <4>1. SUFFICES ASSUME ~ r.f.lost PROVE Nearly(g)
        BY <3>7
      <4>2. Agrees(r.f) /\ SeenIn(r.f) = SeenIn(marked)
        BY <1>1, <2>3, <2>5, <4>1 DEF Reads, Agrees
      <4>3. r.f.faults > 0
        <5>1. r.f.faults \in Nat /\ marked.faults \in Nat
          BY <1>1, <3>5, CacheIs
        <5> QED
          BY <2>3, <2>5, <5>1
      <4>4. ~ r.f.cache.dirty /\ SeenIn(r.f)[c] = EOF
        BY <1>6, <3>6, <4>2
      <4>5. g = [r.f EXCEPT !.cache.buf[c] = FREE]
        OBVIOUS
      <4> HIDE DEF g
      <4> QED
        BY ONLY <3>5, <4>2, <4>3, <4>4, <4>5, TakenBack, c \in Cluster
    <3> HIDE DEF g
    <3>8. Grows(f, g)
      BY <2>6, <3>7, <3>9 DEF Grows
    <3> QED
      BY <1>1, <2>3, <2>5, <3>3, <3>6, <3>7, <3>8 DEF g
  <2> QED
    BY <2>3, <2>4, <2>5
<1> QED
  BY <1>3, <1>4

LEMMA FlushReads ==
  ASSUME NEW f \in FatState, NEW g \in flushFatCache(f), crashes \in Nat
  PROVE  Reads(f, g) /\ ~ g.cache.dirty
<1>1. /\ g \in FatState
      /\ g.cache.sector = f.cache.sector /\ g.cache.buf = f.cache.buf /\ ~ g.cache.dirty
      /\ \/ ~ f.cache.dirty /\ g = f
         \/ /\ f.cache.dirty /\ g.fat = SeenIn(f) /\ g.lost = f.lost
            /\ \/ g.faults = f.faults
               \/ g.faults = f.faults + 1 /\ f.faults + crashes < MaxMishaps
         \/ /\ f.cache.dirty /\ g.fat = f.fat
            /\ g.faults = f.faults + 1 /\ g.lost /\ f.faults + crashes < MaxMishaps
  BY FlushIs
<1>2. /\ g.fat \in Table /\ g.faults \in Nat /\ g.lost \in BOOLEAN /\ g.cache \in Cache
      /\ f.fat \in Table /\ f.faults \in Nat /\ f.lost \in BOOLEAN /\ SeenIn(f) \in Table
  BY <1>1, CacheIs, SeenTyped
<1>3. \A c \in Cluster : {g.fat[c], SeenIn(g)[c]} \subseteq {f.fat[c], SeenIn(f)[c]}
  BY <1>1 DEF SeenIn
<1>4. Agrees(f) /\ ~ g.lost => Agrees(g) /\ SeenIn(g) = SeenIn(f)
  <2>1. CASE g = f
    BY <2>1
  <2>2. CASE g.fat = SeenIn(f)
    <3>1. Agrees(g)
      BY <2>2, <1>1, <1>2, CacheBuf DEF Agrees, SeenIn, Cache, Entries, NoCache
    <3>2. SeenIn(g) = SeenIn(f)
      BY <2>2, <1>1 DEF SeenIn
    <3> QED
      BY <3>1, <3>2
  <2> QED
    BY <1>1, <2>1, <2>2
<1>5. Nearly(f) /\ ~ g.lost => Nearly(g)
  <2>1. CASE g = f
    BY <2>1
  <2>2. CASE g.fat = SeenIn(f)
    <3>1. Agrees(g)
      BY <2>2, <1>1, <1>2, CacheBuf DEF Agrees, SeenIn, Cache, Entries, NoCache
    <3> QED
      BY <3>1 DEF Agrees, Nearly
  <2> QED
    BY <1>1, <2>1, <2>2
<1> QED
  BY <1>1, <1>2, <1>3, <1>4, <1>5, FaultAssumption DEF Reads

LEMMA CallTyped ==
  ASSUME Typed, NEW c \in Command, Call(c)
  PROVE  Typed'
<1>1. CacheTyped /\ FTyped /\ pc = "idle"
  BY DEF Typed, CacheTyped, Call
<1>2. Reads(F, F') /\ crashes' = crashes
  BY <1>1, AloneReads DEF Call, fatVars
<1>3. CacheTyped'
  BY <1>1, <1>2, QuietKeepsCache
<1>4. DiskTyped'
  BY DEF Typed, DiskTyped, Call
<1>5. c.path \in Seq(Names) /\ c.path # << >> /\ c # NULL /\ Len(c.data) \in Nat
  BY CommandIs
<1>6. AllocTyped' /\ FileTyped'
  BY DEF Typed, ControlTyped, AllocTyped, FileTyped, Call
<1>7. DoneTyped'
  <2>1. done' = << >> /\ << >> \in Seq(Units) /\ pc' = "look" /\ command' = c /\ Len(<< >>) = 0
    BY <1>1 DEF Typed, ControlTyped, DoneTyped, Call
  <2> QED
    BY <1>5, <2>1 DEF DoneTyped
<1>8. LoopTyped'
  BY <1>5, Constants DEF Typed, ControlTyped, LoopTyped, Call, LookUp
<1> QED
  BY <1>3, <1>4, <1>6, <1>7, <1>8 DEF Typed, ControlTyped

LEMMA OpenedTyped ==
  ASSUME Typed, pc = "look", NEW e \in Units, Live(e), Opened(e)
  PROVE  ControlTyped' /\ DiskTyped' /\ crashes' = crashes
<1>1. CASE \E ok \in BOOLEAN : Return(ok, << >>)
  BY <1>1, ReturnTyped DEF Opened, Typed, DiskTyped
<1>2. CASE /\ dir' = e.first /\ cur' = e.first /\ e.first # NONE
           /\ Goto("mark")
           /\ UNCHANGED <<rest, tries, count, file, done, alloc>>
  <2>1. AllocTyped' /\ FileTyped' /\ DoneTyped'
    BY <1>2 DEF Typed, ControlTyped, AllocTyped, FileTyped, DoneTyped, Goto
  <2>2. LoopTyped' /\ DiskTyped' /\ crashes' = crashes
    BY <1>2, UnitsAre DEF Opened, Typed, ControlTyped, LoopTyped, DiskTyped, Goto
  <2> QED
    BY <2>1, <2>2 DEF ControlTyped
<1>3. CASE /\ file' = [first |-> e.first, size |-> e.size, position |-> 0]
           /\ \/ Goto("next") /\ UNCHANGED <<rest, dir, cur, tries>>
              \/ LookUp(<< >>) /\ Goto("mark") /\ UNCHANGED tries
              \/ LookUp(Parent) /\ Parent # << >> /\ tries' = 1 /\ Goto("look")
           /\ UNCHANGED <<count, done, alloc>>
  <2>1. file' \in [first : Cluster \cup {NONE}, size : Nat, position : Nat]
    BY <1>3, UnitsAre
  <2>2. AllocTyped' /\ FileTyped' /\ DoneTyped'
    BY <1>3, <2>1 DEF Typed, ControlTyped, AllocTyped, FileTyped, DoneTyped, Goto
  <2>3. rest' \in Seq(Names) /\ (pc' = "look" => rest' # << >>)
    <3>1. command \in Command
      BY DEF Typed, ControlTyped, LoopTyped
    <3>2. Parent \in Seq(Names) /\ << >> \in Seq(Names)
      BY <3>1, CommandIs DEF Parent
    <3> QED
      BY <1>3, <3>2 DEF Typed, ControlTyped, LoopTyped, LookUp, Goto
  <2>4. LoopTyped' /\ DiskTyped' /\ crashes' = crashes
    BY <1>3, <2>3, Constants DEF Opened, Typed, ControlTyped, LoopTyped, DiskTyped, Goto, LookUp
  <2> QED
    BY <2>2, <2>4 DEF ControlTyped
<1> QED
  BY <1>1, <1>2, <1>3 DEF Opened

LEMMA NotFoundTyped ==
  ASSUME Typed, pc = "look", NotFound
  PROVE  ControlTyped' /\ DiskTyped' /\ crashes' = crashes
<1>0. DiskTyped'
  BY DEF NotFound, Typed, DiskTyped
<1>5. command \in Command
  BY DEF Typed, ControlTyped, LoopTyped
<1>1. CASE Return(FALSE, << >>)
  BY <1>0, <1>1, ReturnTyped
<1>2. CASE /\ command.kind = "write" /\ tries < 2
           /\ LookUp(command.path) /\ tries' = tries + 1
           /\ Goto("look")
           /\ UNCHANGED <<count, file, done, alloc>>
  <2>1. command.path \in Seq(Names) /\ command.path # << >>
    BY <1>5, CommandIs
  <2>2. AllocTyped' /\ FileTyped' /\ DoneTyped'
    BY <1>2 DEF Typed, ControlTyped, AllocTyped, FileTyped, DoneTyped, Goto
  <2>3. LoopTyped' /\ crashes' = crashes
    BY <1>2, <2>1, Constants DEF Typed, ControlTyped, LoopTyped, Goto, LookUp
  <2> QED
    BY <1>0, <2>2, <2>3 DEF ControlTyped
<1>3. CASE /\ command.kind = "mkdir" /\ Allocate(NONE, "mkdir")
           /\ UNCHANGED <<rest, tries, dir, cur, count, file, done>>
  <2>1. alloc' = [sector |-> 0, prev |-> NONE, new |-> NONE, purpose |-> "mkdir"] /\ Goto("scan")
    BY <1>3 DEF Allocate
  <2>2. 0 \in FatSector
    BY GeometryAssumption DEF FatSector, Sector
  <2>3. AllocTyped'
    BY <2>1, <2>2 DEF AllocTyped, Goto, Purposes
  <2>4. FileTyped' /\ DoneTyped' /\ LoopTyped' /\ crashes' = crashes
    BY <1>3, <2>1 DEF Typed, ControlTyped, FileTyped, DoneTyped, LoopTyped, Goto
  <2> QED
    BY <1>0, <2>3, <2>4 DEF ControlTyped
<1>4. CASE /\ command.kind # "mkdir" /\ cur' = dir /\ Goto("add")
           /\ UNCHANGED <<rest, tries, dir, count, file, done, alloc>>
  <2>2. AllocTyped' /\ FileTyped' /\ DoneTyped'
    BY <1>4 DEF Typed, ControlTyped, AllocTyped, FileTyped, DoneTyped, Goto
  <2>3. LoopTyped' /\ crashes' = crashes
    BY <1>4 DEF Typed, ControlTyped, LoopTyped, Goto
  <2> QED
    BY <1>0, <2>2, <2>3 DEF ControlTyped
<1> QED
  BY <1>1, <1>2, <1>3, <1>4 DEF NotFound

\* What the disk holds where a search has come to.
LEMMA UnitTyped ==
  ASSUME Typed, NEW i \in Slot
  PROVE  disk[cur][i] \in Units /\ cur \in Cluster
  BY DEF Typed, DiskTyped, ControlTyped, LoopTyped

LEMMA LookTyped ==
  ASSUME Typed, Look
  PROVE  Typed'
<1>1. FTyped /\ cur \in Cluster /\ CacheTyped
  BY DEF Typed, CacheTyped, ControlTyped, LoopTyped
<1>4. pc = "look"
  BY DEF Look
<1>2. ControlTyped' /\ DiskTyped' /\ Reads(F, F') /\ crashes' = crashes
  <2>1. CASE \E i \in Slot : Is(disk[cur][i], Head(rest)) /\ UNCHANGED fatVars
                             /\ LookFound(disk[cur][i])
    <3>1. PICK i \in Slot : Is(disk[cur][i], Head(rest)) /\ UNCHANGED fatVars
                            /\ LookFound(disk[cur][i])
      BY <2>1
    <3> DEFINE e == disk[cur][i]
    <3>2. e \in Units /\ Live(e)
      BY <3>1, UnitTyped DEF Is
    <3>3. Reads(F, F')
      BY <1>1, <3>1, AloneReads DEF fatVars
    <3>4. CASE Opened(e)
      BY <1>4, <3>2, <3>3, <3>4, OpenedTyped
    <3>5. CASE NotFound
      BY <1>4, <3>3, <3>5, NotFoundTyped
    <3>6. CASE /\ Len(rest) # 1 /\ dir' = cur'
               /\ cur' = IF e.first # NONE THEN e.first ELSE root
               /\ rest' = Tail(rest)
               /\ Goto("look")
               /\ UNCHANGED <<disk, tries, count, file, done, alloc>>
      <4>1. AllocTyped' /\ FileTyped' /\ DoneTyped' /\ DiskTyped' /\ crashes' = crashes
        BY <1>4, <3>6 DEF Typed, ControlTyped, AllocTyped, FileTyped, DoneTyped, DiskTyped, Goto
      <4>2. rest \in Seq(Names) /\ rest # << >> /\ Len(rest) # 1
        BY <1>4, <3>6 DEF Typed, ControlTyped, LoopTyped
      <4>6. rest' = Tail(rest)
        BY <3>6
      <4>7. Tail(rest) \in Seq(Names) /\ Tail(rest) # << >>
        <5>1. Len(rest) \in Nat /\ Len(rest) > 1
          BY ONLY <4>2
        <5>2. Tail(rest) \in Seq(Names) /\ Len(Tail(rest)) = Len(rest) - 1
          BY ONLY <4>2, <5>1
        <5>3. Len(<< >>) = 0
          OBVIOUS
        <5>4. Tail(rest) # << >>
          <6> DEFINE t == Tail(rest)
          <6>1. Len(t) # 0
            BY ONLY <5>1, <5>2
          <6> HIDE DEF t
          <6>2. t # << >>
            BY ONLY <5>3, <6>1
          <6> QED
            BY <6>2 DEF t
        <5> QED
          BY ONLY <5>2, <5>4
      <4>3. rest' \in Seq(Names) /\ rest' # << >>
        BY ONLY <4>6, <4>7
      <4>4. cur' \in Cluster
        BY <3>2, <3>6, UnitsAre, Constants
      <4>5. LoopTyped'
        BY <1>4, <3>6, <4>3, <4>4 DEF Typed, ControlTyped, LoopTyped, Goto
      <4> QED
        BY <3>3, <4>1, <4>5 DEF ControlTyped
    <3> QED
      BY <3>1, <3>4, <3>5, <3>6 DEF LookFound
  <2>2. CASE NotFound /\ UNCHANGED fatVars
    BY <1>1, <1>4, <2>2, AloneReads, NotFoundTyped DEF fatVars
  <2>3. CASE \E n \in Cluster \cup {NONE} : Onward(n) /\ IF n = NONE THEN NotFound ELSE GoOn(n)
    BY <1>4, <2>3, NotFoundTyped, GoOnTyped DEF Onward
  <2> QED
    BY <1>1, <2>1, <2>2, <2>3, LookCases
<1>3. CacheTyped'
  BY <1>1, <1>2, <1>4, QuietKeepsCache
<1> QED
  BY <1>2, <1>3 DEF Typed

\* Steps that give up: what is left to do is to give a new directory back, or nothing.
LEMMA NotAddedTyped ==
  ASSUME Typed, NotAdded, command.kind = "mkdir" => file.first \in Cluster, pc # "idle"
  PROVE  ControlTyped' /\ crashes' = crashes /\ pc' \notin {"commit", "free", "freed"}
<1>1. CASE Return(FALSE, << >>)
  BY <1>1, ReturnTyped
<1>2. CASE command.kind = "mkdir" /\ Goto("undo") /\ UNCHANGED locals
  BY <1>2 DEF Typed, ControlTyped, AllocTyped, FileTyped, DoneTyped, LoopTyped, Goto, locals
<1> QED
  BY <1>1, <1>2 DEF NotAdded

LEMMA NoClusterTyped ==
  ASSUME Typed, pc = "scan", NoCluster
  PROVE  ControlTyped' /\ crashes' = crashes /\ pc' \notin {"commit", "free", "freed"}
<1>1. CASE Return(FALSE, << >>)
  BY <1>1, ReturnTyped
<1>2. CASE alloc.purpose = "add" /\ NotAdded
  BY <1>2, NotAddedTyped DEF Typed, ControlTyped, FileTyped
<1>3. CASE Goto("wrote") /\ UNCHANGED locals
  BY <1>3 DEF Typed, ControlTyped, AllocTyped, FileTyped, DoneTyped, LoopTyped, Goto, locals
<1> QED
  BY <1>1, <1>2, <1>3 DEF NoCluster, Typed, ControlTyped, AllocTyped, Purposes

\* The lowest of some clusters.
LEMMA LowestCluster ==
  ASSUME NEW S \in SUBSET Cluster, S # {}
  PROVE  LET c == CHOOSE c \in S : \A d \in S : c <= d IN c \in S /\ \A d \in S : c <= d
<1> DEFINE R == OpToRel(<, Nat)
<1>1. \A a, b \in Nat : <<a, b>> \in R <=> a < b
  BY DEF OpToRel
<1>2. IsWellFoundedOn(R, Nat)
  BY NatLessThanWellFounded DEF OpToRel
<1>3. S \subseteq Nat
  BY Constants
<1> HIDE DEF R
<1>4. PICK m \in S : \A y \in S : ~ (<<y, m>> \in R)
  BY <1>2, <1>3, WFMin
<1>5. ASSUME NEW d \in S PROVE m <= d
  <2>1. d \in Nat /\ m \in Nat /\ ~ (<<d, m>> \in R)
    BY <1>3, <1>4
  <2> QED
    BY <1>1, <2>1
<1>6. \E c \in S : \A d \in S : c <= d
  BY <1>5
<1> QED
  BY <1>6

\* What Scan finds: a cluster that is free as the driver sees it, or nothing in this sector.
Take(c) ==
  /\ alloc' = [alloc EXCEPT !.new = c]
  /\ Goto("commit")
  /\ UNCHANGED <<rest, tries, dir, cur, count, file, done>>
ScanOn ==
  IF alloc.sector + 1 \in FatSector
  THEN /\ alloc' = [alloc EXCEPT !.sector = @ + 1]
       /\ Goto("scan")
       /\ UNCHANGED <<rest, tries, dir, cur, count, file, done>>
  ELSE NoCluster

LEMMA ScanCases ==
  ASSUME FTyped, alloc.sector \in FatSector, Scan
  PROVE  /\ pc = "scan" /\ UNCHANGED disk
         /\ \/ Reads(F, F') /\ ScanOn
               /\ (faults' = faults =>
                     \A c \in Cluster : Sector(c) = alloc.sector => Seen'[c] # FREE)
            \/ \E f \in FatState, c \in Cluster : \E k \in Claim(f, c) :
                 /\ Reads(F, f) /\ f.cache.sector = Sector(c) /\ SeenIn(f)[c] = FREE
                 /\ Becomes(k.f)
                 /\ IF k.ok THEN Take(c) ELSE NoCluster
<1>1. pc = "scan" /\ UNCHANGED disk
  BY DEF Scan
<1>2. PICK r \in Load(F, alloc.sector) :
        IF r.ok /\ Free(r.f) # {}
        THEN LET c == CHOOSE c \in Free(r.f) : \A d \in Free(r.f) : c <= d
             IN  \E k \in Claim(r.f, c) :
                   Becomes(k.f) /\ IF k.ok THEN Take(c) ELSE NoCluster
        ELSE Becomes(r.f) /\ ScanOn
  BY DEF Scan, Take, ScanOn
<1>3. /\ Reads(F, r.f) /\ r.ok \in BOOLEAN
      /\ r.ok => r.f.cache.sector = alloc.sector
      /\ ~ r.ok => r.f.faults > faults
  BY LoadIs, FIs DEF FTyped
<1>4. r.f \in FatState
  BY <1>3 DEF Reads
<1>5. r.ok => DOMAIN r.f.cache.buf = Entries(alloc.sector)
  <2>1. r.f.cache \in Cache /\ alloc.sector # -1
    BY <1>4, CacheIs DEF FatSector
  <2> QED
    BY <1>3, <2>1 DEF Cache
<1>6. CASE r.ok /\ Free(r.f) # {}
  <2> DEFINE c == CHOOSE c \in Free(r.f) : \A d \in Free(r.f) : c <= d
  <2>1. Free(r.f) \in SUBSET Cluster
    BY <1>5, <1>6 DEF Free, Entries
  <2>2. c \in Free(r.f)
    BY <1>6, <2>1, LowestCluster
  <2>3. PICK k \in Claim(r.f, c) : Becomes(k.f) /\ IF k.ok THEN Take(c) ELSE NoCluster
    BY <1>2, <1>6
  <2> HIDE DEF c
  <2>4. c \in Cluster /\ r.f.cache.sector = Sector(c) /\ SeenIn(r.f)[c] = FREE
    BY <1>3, <1>5, <1>6, <2>1, <2>2 DEF Free, Entries, SeenIn
  <2> QED
    BY <1>1, <1>3, <1>4, <2>3, <2>4
<1>7. CASE ~ (r.ok /\ Free(r.f) # {})
  <2>1. Becomes(r.f) /\ ScanOn
    BY <1>2, <1>7
  <2>2. F' = r.f
    BY <1>4, <2>1, BecomesIs
  <2>3. r.ok => \A c \in Cluster : Sector(c) = alloc.sector => SeenIn(r.f)[c] # FREE
    BY <1>3, <1>5, <1>7 DEF Free, Entries, SeenIn
  <2>4. faults' = faults => r.ok
    BY <1>3, <2>1, FIs, CacheIs DEF FTyped, Becomes
  <2>5. Seen' = SeenIn(r.f)
    BY <2>2 DEF Seen
  <2> QED
    BY <1>1, <1>3, <2>1, <2>2, <2>3, <2>4, <2>5
<1> QED
  BY <1>6, <1>7

LEMMA ScanTyped ==
  ASSUME Typed, Scan
  PROVE  Typed'
<1>1. FTyped /\ CacheTyped /\ alloc.sector \in FatSector /\ alloc.prev \in Cluster \cup {NONE}
  BY DEF Typed, CacheTyped, ControlTyped, AllocTyped
<1>2. pc = "scan" /\ UNCHANGED disk
  BY DEF Scan
<1>3. DiskTyped'
  BY <1>2 DEF Typed, DiskTyped
<1>4. CASE Reads(F, F') /\ ScanOn
  <2>1. CASE NoCluster
    BY <1>1, <1>2, <1>3, <1>4, <2>1, NoClusterTyped, QuietKeepsCache DEF Typed
  <2>2. CASE /\ alloc.sector + 1 \in FatSector
             /\ alloc' = [alloc EXCEPT !.sector = @ + 1]
             /\ Goto("scan")
             /\ UNCHANGED <<rest, tries, dir, cur, count, file, done>>
    <3>1. AllocTyped'
      BY <1>2, <2>2 DEF Typed, ControlTyped, AllocTyped, Goto
    <3>2. FileTyped' /\ DoneTyped' /\ LoopTyped' /\ crashes' = crashes
      BY <1>2, <2>2 DEF Typed, ControlTyped, AllocTyped, FileTyped, DoneTyped, LoopTyped, Goto
    <3> QED
      BY <1>1, <1>2, <1>3, <1>4, <3>1, <3>2, QuietKeepsCache DEF Typed, ControlTyped
  <2> QED
    BY <1>4, <2>1, <2>2 DEF ScanOn
<1>5. ASSUME NEW f \in FatState, NEW c \in Cluster, NEW k \in Claim(f, c),
             Reads(F, f), f.cache.sector = Sector(c), SeenIn(f)[c] = FREE, Becomes(k.f),
             IF k.ok THEN Take(c) ELSE NoCluster
      PROVE  Typed'
  <2>1. F \in FatState /\ crashes \in Nat
    BY <1>1 DEF FTyped
  <2>2. /\ Grows(f, k.f)
        /\ ~ k.ok => k.f.faults > f.faults /\ ~ k.f.cache.dirty
    BY <1>1, <1>5, <2>1, ClaimGrows
  <2>3. Grows(F, k.f)
    BY <1>5, <2>1, <2>2, ReadsGrows, GrowsTransitive
  <2>4. F' = k.f /\ cache' = k.f.cache /\ faults' = k.f.faults
    BY <1>5, <2>2, BecomesIs DEF Grows, Becomes
  <2>5. f.faults \in Nat /\ k.f.faults \in Nat
    BY <2>2, CacheIs DEF Grows
  <2>6. CASE ~ k.ok
    <3>1. ControlTyped' /\ crashes' = crashes /\ pc' \notin {"commit", "free", "freed"}
      BY <1>2, <1>5, <2>6, NoClusterTyped
    <3>2. faults' # 0 /\ ~ cache'.dirty
      BY <2>2, <2>4, <2>5, <2>6
    <3>3. CacheTyped'
      BY <1>1, <2>3, <2>4, <3>1, <3>2, GrowsKeepsCache
    <3> QED
      BY <1>3, <3>1, <3>3 DEF Typed
  <2>7. CASE k.ok
    <3>1. alloc' = [alloc EXCEPT !.new = c] /\ pc' = "commit" /\ crashes' = crashes
          /\ UNCHANGED <<rest, tries, dir, cur, count, file, done, command>>
      BY <1>5, <2>7 DEF Take, Goto
    <3>2. AllocTyped'
      BY <1>2, <3>1 DEF Typed, ControlTyped, AllocTyped
    <3>3. FileTyped' /\ DoneTyped' /\ LoopTyped'
      BY <1>2, <3>1 DEF Typed, ControlTyped, AllocTyped, FileTyped, DoneTyped, LoopTyped
    <3>4. k.f.cache.dirty
      BY <1>1, <1>5, <2>1, <2>7, ClaimGrows
    <3>5. Agrees(k.f)
      BY <3>4 DEF Agrees
    <3>6. CacheTyped'
      BY <1>1, <2>3, <2>4, <3>1, <3>5, GrowsKeepsCache
    <3> QED
      BY <1>3, <3>2, <3>3, <3>6 DEF Typed, ControlTyped
  <2> QED
    BY <2>6, <2>7
<1>6. \/ Reads(F, F') /\ ScanOn
      \/ \E f \in FatState, c \in Cluster : \E k \in Claim(f, c) :
           /\ Reads(F, f) /\ f.cache.sector = Sector(c) /\ SeenIn(f)[c] = FREE
           /\ Becomes(k.f)
           /\ IF k.ok THEN Take(c) ELSE NoCluster
  BY <1>1, ScanCases
<1> QED
  BY <1>4, <1>5, <1>6

LEMMA CommitTyped ==
  ASSUME Typed, Commit
  PROVE  Typed'
<1>1. FTyped /\ CacheTyped /\ F \in FatState /\ crashes \in Nat
  BY DEF Typed, CacheTyped, FTyped
<1>2. PICK f \in flushFatCache(F) : Becomes(f)
  BY DEF Commit
<1>3. Reads(F, f) /\ ~ f.cache.dirty /\ f \in FatState
  BY <1>1, FlushReads DEF Reads
<1>4. F' = f
  BY <1>2, <1>3, BecomesIs
<1>5. pc = "commit" /\ pc' = "zero" /\ crashes' = crashes /\ UNCHANGED <<disk, locals, command>>
  BY DEF Commit, Goto
<1>6. faults' = 0 /\ ~ lost' => Agrees(F)'
  <2>1. /\ f.faults = faults' /\ f.lost = lost' /\ faults \in Nat /\ F.faults = faults
        /\ F.lost = lost /\ f.faults \in Nat
    BY <1>1, <1>2, <1>3, FIs, CacheIs DEF Becomes
  <2>2. SUFFICES ASSUME faults' = 0, ~ lost' PROVE Agrees(f)
    BY <1>4
  <2>3. faults = 0 /\ ~ f.lost /\ ~ lost
    BY <1>1, <1>3, <2>1, <2>2 DEF Reads, CacheTyped
  <2> QED
    BY <1>1, <1>3, <2>3 DEF Reads, CacheTyped
<1>7. CacheTyped'
  <2>1. Grows(F, F') /\ ~ cache'.dirty
    BY <1>1, <1>2, <1>3, <1>4, ReadsGrows DEF Becomes
  <2> QED
    BY <1>1, <1>5, <1>6, <2>1, GrowsKeepsCache
<1>8. DiskTyped' /\ AllocTyped' /\ FileTyped' /\ DoneTyped' /\ LoopTyped'
  BY <1>5 DEF Typed, ControlTyped, AllocTyped, FileTyped, DoneTyped, LoopTyped, DiskTyped, locals
<1> QED
  BY <1>7, <1>8 DEF Typed, ControlTyped

LEMMA WriteTyped ==
  ASSUME Typed, NEW c \in Cluster, NEW units \in [Slot -> Units], Write(c, units)
  PROVE  DiskTyped'
  BY DEF Typed, DiskTyped, Write

LEMMA ZeroTyped ==
  ASSUME Typed, Zero
  PROVE  Typed'
<1>1. /\ FTyped /\ CacheTyped /\ alloc.new \in Cluster /\ pc = "zero"
      /\ alloc.purpose \in Purposes
  BY DEF Typed, CacheTyped, ControlTyped, AllocTyped, Zero
<1>2. Reads(F, F')
  BY <1>1, AloneReads DEF Zero, Succeeds, Fails, Unzeroed
<1>3. DiskTyped'
  <2>1. CASE Write(alloc.new, Zeros)
    BY <1>1, <2>1, UnitsAre, WriteTyped
  <2>2. CASE UNCHANGED disk
    BY <2>2 DEF Typed, DiskTyped
  <2> QED
    BY <2>1, <2>2 DEF Zero
<1>4. UNCHANGED <<rest, tries, dir, count, done, alloc, command, crashes>>
  BY <1>1 DEF Zero, Goto, Purposes
<1>5. \/ pc' \in {"dots", "link"} /\ file' = [file EXCEPT !.first = alloc.new] /\ cur' \in {cur, dir}
      \/ pc' \in {"add", "data"} /\ file' = file /\ cur' = alloc.new
  BY <1>1 DEF Zero, Goto, Purposes
<1>6. (pc' = "dots" => alloc.purpose = "mkdir") /\ (pc' = "add" => alloc.purpose = "add")
      /\ (pc' = "data" => alloc.purpose = "extend")
  BY <1>1 DEF Zero, Goto, Purposes
<1>7. AllocTyped'
  BY <1>1, <1>4, <1>5 DEF Typed, ControlTyped, AllocTyped
<1>8. FileTyped'
  BY <1>1, <1>4, <1>5, <1>6 DEF Typed, ControlTyped, FileTyped
<1>9. DoneTyped'
  BY <1>1, <1>4, <1>5 DEF Typed, ControlTyped, DoneTyped
<1>10. LoopTyped'
  BY <1>1, <1>4, <1>5 DEF Typed, ControlTyped, LoopTyped
<1> QED
  BY <1>1, <1>2, <1>3, <1>4, <1>7, <1>8, <1>9, <1>10, QuietKeepsCache DEF Typed, ControlTyped

LEMMA DotsTyped ==
  ASSUME Typed, Dots
  PROVE  Typed'
<1>1. FTyped /\ CacheTyped /\ alloc.new \in Cluster /\ dir \in Cluster /\ pc = "dots"
  BY DEF Typed, CacheTyped, ControlTyped, AllocTyped, LoopTyped, Dots
<1>2. Reads(F, F')
  BY <1>1, AloneReads DEF Dots, Succeeds, Fails, WriteFails
<1>3. DiskTyped'
  <2> DEFINE u == [i \in Slot |-> CASE i = 1 -> Dot(alloc.new) [] i = 2 -> Dot(dir)
                                    [] OTHER -> END]
  <2>1. u \in [Slot -> Units]
    BY <1>1, UnitsAre
  <2> HIDE DEF u
  <2>2. CASE Write(alloc.new, u)
    BY <1>1, <2>1, <2>2, WriteTyped
  <2>3. CASE UNCHANGED disk
    BY <2>3 DEF Typed, DiskTyped
  <2> QED
    BY <2>2, <2>3 DEF Dots, WriteFails, u
<1>4. /\ UNCHANGED <<rest, tries, dir, count, file, done, alloc, command, crashes>>
      /\ pc' \in {"add", "undo"} /\ cur' \in {cur, dir}
  BY DEF Dots, Goto
<1>5. AllocTyped' /\ DoneTyped' /\ LoopTyped'
  BY <1>1, <1>4 DEF Typed, ControlTyped, AllocTyped, DoneTyped, LoopTyped
<1>6. FileTyped'
  BY <1>1, <1>4 DEF Typed, ControlTyped, FileTyped
<1> QED
  BY <1>1, <1>2, <1>3, <1>4, <1>5, <1>6, QuietKeepsCache DEF Typed, ControlTyped

LEMMA AddTyped ==
  ASSUME Typed, AddDirEntry
  PROVE  Typed'
<1>1. FTyped /\ CacheTyped /\ cur \in Cluster /\ pc = "add" /\ command \in Command
  BY DEF Typed, CacheTyped, ControlTyped, LoopTyped, AddDirEntry
<1>2. ControlTyped' /\ DiskTyped' /\ Reads(F, F') /\ crashes' = crashes
  <2>1. CASE \E i \in Slot : AddFound(i)
    <3>1. PICK i \in Slot : AddFound(i)
      BY <2>1
    <3>2. Reads(F, F')
      BY <1>1, <3>1, AloneReads DEF AddFound, Succeeds, Fails
    <3>3. DiskTyped'
      <4>1. command.kind = "mkdir" => file.first \in Cluster
        BY <1>1 DEF Typed, ControlTyped, FileTyped
      <4>2. EntryAdded(i) \in [Slot -> Units]
        <5> DEFINE e == IF command.kind = "mkdir" THEN Unit("dir", Name, file.first, 0)
                        ELSE Unit("file", Name, NONE, 0)
        <5>1. Name \in Names
          BY <1>1, CommandIs DEF Name
        <5>2. e \in Units
          BY <4>1, <5>1, UnitsAre
        <5> HIDE DEF e
        <5>3. \A j \in Slot : disk[cur][j] \in Units
          BY UnitTyped
        <5> QED
          BY <5>2, <5>3, UnitsAre DEF EntryAdded, e
      <4>3. CASE Write(cur, EntryAdded(i))
        BY <1>1, <4>2, <4>3, WriteTyped
      <4>4. CASE UNCHANGED disk
        BY <4>4 DEF Typed, DiskTyped
      <4> QED
        BY <3>1, <4>3, <4>4 DEF AddFound
    <3>4. CASE NotAdded
      <4>1. command.kind = "mkdir" => file.first \in Cluster
        BY <1>1 DEF Typed, ControlTyped, FileTyped
      <4> QED
        BY <1>1, <3>2, <3>3, <3>4, <4>1, NotAddedTyped
    <3>5. CASE Return(TRUE, << >>)
      BY <3>2, <3>3, <3>5, ReturnTyped
    <3>6. CASE Goto("next") /\ UNCHANGED locals
      <4>1. AllocTyped' /\ FileTyped' /\ DoneTyped' /\ LoopTyped' /\ crashes' = crashes
        BY <1>1, <3>6 DEF Typed, ControlTyped, AllocTyped, FileTyped, DoneTyped, LoopTyped, Goto,
                          locals
      <4> QED
        BY <3>2, <3>3, <4>1 DEF ControlTyped
    <3> QED
      BY <3>1, <3>4, <3>5, <3>6 DEF AddFound
  <2>2. CASE \E n \in Cluster \cup {NONE} : Onward(n) /\ IF n = NONE THEN AddExtend ELSE GoOn(n)
    <3>1. PICK n \in Cluster \cup {NONE} : Onward(n) /\ IF n = NONE THEN AddExtend ELSE GoOn(n)
      BY <2>2
    <3>2. CASE AddExtend
      <4>1. alloc' = [sector |-> 0, prev |-> cur, new |-> NONE, purpose |-> "add"]
            /\ Goto("scan") /\ UNCHANGED <<disk, rest, tries, dir, cur, count, file, done>>
        BY <3>2 DEF AddExtend, Allocate
      <4>2. 0 \in FatSector
        BY GeometryAssumption DEF FatSector, Sector
      <4>3. AllocTyped'
        BY <1>1, <4>1, <4>2 DEF AllocTyped, Goto, Purposes
      <4>4. FileTyped' /\ DoneTyped' /\ LoopTyped' /\ crashes' = crashes /\ DiskTyped'
        BY <1>1, <4>1 DEF Typed, ControlTyped, FileTyped, DoneTyped, LoopTyped, DiskTyped, Goto
      <4> QED
        BY <3>1, <4>3, <4>4 DEF ControlTyped, Onward
    <3> QED
      BY <3>1, <3>2, GoOnTyped DEF Onward
  <2> QED
    BY <1>1, <2>1, <2>2, AddCases
<1> QED
  BY <1>1, <1>2, QuietKeepsCache DEF Typed

LEMMA UndoTyped ==
  ASSUME Typed, Undo
  PROVE  Typed'
<1>1. FTyped /\ CacheTyped /\ F \in FatState /\ crashes \in Nat /\ file.first \in Cluster
  BY DEF Typed, CacheTyped, FTyped, ControlTyped, FileTyped, Undo
<1>0. PICK r \in setFatEntry(F, file.first, FREE) : \E f \in flushFatCache(r.f) : Becomes(f)
  BY DEF Undo
<1>2. PICK f \in flushFatCache(r.f) : Becomes(f)
  BY <1>0
<1>3. /\ Grows(F, r.f) /\ (~ r.ok => r.f.faults > F.faults) /\ (r.ok => r.f.cache.dirty)
      /\ r.ok \in BOOLEAN
  BY <1>1, SetGrows, SetIs DEF Value
<1>4. Reads(r.f, f) /\ ~ f.cache.dirty /\ f \in FatState /\ r.f \in FatState
  BY <1>1, <1>3, FlushReads DEF Grows, Reads
<1>5. F' = f
  BY <1>2, <1>4, BecomesIs
<1>6. Grows(F, f)
  BY <1>1, <1>3, <1>4, ReadsGrows, GrowsTransitive
<1>7. faults' = 0 /\ ~ lost' => Agrees(F)'
  <2>1. /\ f.faults = faults' /\ faults \in Nat /\ F.faults = faults
        /\ F.lost = lost /\ f.faults \in Nat /\ r.f.faults \in Nat /\ r.f.lost \in BOOLEAN
    BY <1>1, <1>2, <1>4, FIs, CacheIs DEF Becomes
  <2>2. SUFFICES ASSUME faults' = 0, ~ lost' PROVE Agrees(f)
    BY <1>5
  <2>5. f.lost = lost'
    BY <1>2 DEF Becomes
  <2>3. faults = 0 /\ r.f.faults = 0 /\ r.ok
    BY <1>3, <1>4, <2>1, <2>2 DEF Grows, Reads
  <2>4. ~ r.f.lost /\ ~ f.lost /\ Agrees(r.f)
    BY <1>1, <1>3, <1>4, <2>1, <2>2, <2>3, <2>5 DEF Reads, Grows, CacheTyped, Agrees
  <2> QED
    BY <1>4, <2>4 DEF Reads
<1>8. ControlTyped' /\ pc' = "idle" /\ crashes' = crashes
  BY ReturnTyped DEF Undo
<1>9. CacheTyped'
  <2>1. ~ cache'.dirty
    BY <1>2, <1>4 DEF Becomes
  <2> QED
    BY <1>1, <1>5, <1>6, <1>7, <1>8, <2>1, GrowsKeepsCache
<1>10. DiskTyped'
  BY DEF Undo, Typed, DiskTyped
<1> QED
  BY <1>8, <1>9, <1>10 DEF Typed

LEMMA NextUnitsTyped ==
  ASSUME Typed, NextUnits
  PROVE  Typed'
<1>1. FTyped /\ CacheTyped /\ pc = "next"
  BY DEF Typed, CacheTyped, NextUnits
<1>2. Reads(F, F') /\ DiskTyped'
  BY <1>1, AloneReads DEF NextUnits, fatVars, Typed, DiskTyped
<1>3. UNCHANGED <<rest, tries, dir, file, done, command, crashes>>
  BY DEF NextUnits, Goto, Allocate
<1>4. \/ pc' \in {"wrote", "read"} /\ UNCHANGED <<cur, count, alloc>>
      \/ /\ pc' = "scan" /\ UNCHANGED <<cur, count>>
         /\ alloc' = [sector |-> 0, prev |-> NONE, new |-> NONE, purpose |-> "first"]
      \/ /\ pc' = "walk" /\ cur' = file.first /\ count' = Len(done) \div UNITS
         /\ UNCHANGED alloc /\ file.first # NONE
  BY DEF NextUnits, Goto, Allocate
<1>5. AllocTyped'
  <2>1. 0 \in FatSector
    BY GeometryAssumption DEF FatSector, Sector
  <2> QED
    BY <1>1, <1>4, <2>1 DEF Typed, ControlTyped, AllocTyped, Purposes
<1>6. FileTyped'
  BY <1>1, <1>3, <1>4 DEF Typed, ControlTyped, FileTyped
<1>7. DoneTyped'
  BY <1>1, <1>3, <1>4 DEF Typed, ControlTyped, DoneTyped
<1>8. LoopTyped'
  <2>1. Len(done) \div UNITS \in Nat
    BY GeometryAssumption DEF Typed, ControlTyped, DoneTyped
  <2> QED
    BY <1>1, <1>3, <1>4, <2>1 DEF Typed, ControlTyped, LoopTyped, FileTyped
<1> QED
  BY <1>1, <1>2, <1>3, <1>4, <1>5, <1>6, <1>7, <1>8, QuietKeepsCache DEF Typed, ControlTyped

LEMMA WalkTyped ==
  ASSUME Typed, Walk
  PROVE  Typed'
<1>1. FTyped /\ CacheTyped /\ pc = "walk" /\ cur \in Cluster /\ file.first \in Cluster /\ count \in Nat
  BY DEF Typed, CacheTyped, Walk, ControlTyped, LoopTyped, FileTyped
<1>2. UNCHANGED <<disk, rest, tries, dir, file, done, alloc, command, crashes>>
  BY DEF Walk, Goto
<1>3. Reads(F, F') /\ cur' \in Cluster /\ count' \in Nat /\ pc' \in {"walk", "data", "last", "read"}
  <2>1. CASE count = 0
    BY <1>1, <2>1, AloneReads DEF Walk, Goto, fatVars
  <2>2. CASE count # 0
    <3>1. PICK n \in getNextCluster(F, cur) :
            /\ Becomes(n.f)
            /\ IF n.next # NONE
               THEN cur' = n.next /\ count' = count - 1 /\ Goto("walk")
               ELSE /\ count' = 0
                    /\ IF command.kind = "write"
                       THEN cur' = file.first /\ Goto("last")
                       ELSE Goto("read") /\ UNCHANGED cur
      BY <2>2 DEF Walk
    <3>2. Reads(F, F') /\ n.next \in Cluster \cup {NONE}
      BY <1>1, <3>1, NextReads
    <3> QED
      BY <1>1, <2>2, <3>1, <3>2 DEF Goto
  <2> QED
    BY <2>1, <2>2
<1>4. AllocTyped' /\ FileTyped' /\ DoneTyped' /\ LoopTyped' /\ DiskTyped'
  BY <1>1, <1>2, <1>3
     DEF Typed, ControlTyped, AllocTyped, FileTyped, DoneTyped, LoopTyped, DiskTyped
<1> QED
  BY <1>1, <1>2, <1>3, <1>4, QuietKeepsCache DEF Typed, ControlTyped

LEMMA LastClusterTyped ==
  ASSUME Typed, LastCluster
  PROVE  Typed'
<1>1. FTyped /\ CacheTyped /\ pc = "last" /\ cur \in Cluster /\ file.first \in Cluster
  BY DEF Typed, CacheTyped, LastCluster, ControlTyped, LoopTyped, FileTyped
<1>2. UNCHANGED <<disk, rest, tries, dir, count, file, done>>
  BY DEF LastCluster
<1>3. PICK n \in getNextCluster(F, cur) :
        /\ Becomes(n.f)
        /\ IF n.next # NONE
           THEN cur' = n.next /\ Goto("last") /\ UNCHANGED alloc
           ELSE Allocate(cur, "extend") /\ UNCHANGED cur
  BY DEF LastCluster
<1>4. Reads(F, F') /\ n.next \in Cluster \cup {NONE}
  BY <1>1, <1>3, NextReads
<1>5. /\ cur' \in Cluster /\ UNCHANGED <<command, crashes>>
      /\ \/ pc' = "last" /\ alloc' = alloc
         \/ /\ pc' = "scan"
            /\ alloc' = [sector |-> 0, prev |-> cur, new |-> NONE, purpose |-> "extend"]
  BY <1>1, <1>3, <1>4 DEF Allocate, Goto
<1>6. AllocTyped'
  <2>1. 0 \in FatSector
    BY GeometryAssumption DEF FatSector, Sector
  <2> QED
    BY <1>1, <1>5, <2>1 DEF Typed, ControlTyped, AllocTyped, Purposes
<1>7. FileTyped' /\ DoneTyped' /\ LoopTyped' /\ DiskTyped'
  BY <1>1, <1>2, <1>5
     DEF Typed, ControlTyped, FileTyped, DoneTyped, LoopTyped, DiskTyped
<1> QED
  BY <1>1, <1>2, <1>4, <1>5, <1>6, <1>7, QuietKeepsCache DEF Typed, ControlTyped

LEMMA WriteDataTyped ==
  ASSUME Typed, WriteData
  PROVE  Typed'
<1>1. /\ FTyped /\ CacheTyped /\ pc = "data" /\ cur \in Cluster /\ command.kind = "write"
      /\ command \in Command
  BY DEF Typed, CacheTyped, WriteData, ControlTyped, LoopTyped
<1> DEFINE n == Smaller(Left, UNITS)
<1>2. /\ command.data \in Seq(Pieces) /\ done \in Seq(Units)
      /\ Len(command.data) \in Nat /\ Len(done) \in Nat /\ Len(done) <= Len(command.data)
  BY <1>1, CommandIs DEF Typed, ControlTyped, DoneTyped
<1>3. n \in 0 .. Len(command.data) - Len(done) /\ n <= UNITS
  BY <1>2, GeometryAssumption DEF Smaller, Left
<1> HIDE DEF n
<1>4. Reads(F, F')
  BY <1>1, AloneReads DEF WriteData, Succeeds, Fails, WriteFails
<1>5. UNCHANGED <<rest, tries, dir, cur, count, file, alloc, command, crashes>>
      /\ pc' \in {"next", "wrote"}
  BY DEF WriteData, Goto
<1>6. DiskTyped'
  <2> DEFINE u == [i \in Slot |-> IF i <= n THEN command.data[Len(done) + i] ELSE disk[cur][i]]
  <2>1. ASSUME NEW i \in Slot PROVE u[i] \in Units
    <3>1. CASE i <= n
      <4>1. Len(done) + i \in 1 .. Len(command.data)
        BY <1>2, <1>3, <3>1 DEF Slot
      <4>2. command.data[Len(done) + i] \in Pieces
        BY <1>2, <4>1
      <4> QED
        BY <3>1, <4>2, UnitsAre
    <3>2. CASE ~ (i <= n)
      BY <3>2, UnitTyped
    <3> QED
      BY <3>1, <3>2
  <2>2. u \in [Slot -> Units]
    BY <2>1
  <2>3. CASE Write(cur, u)
    <3> HIDE DEF u
    <3> QED
      BY <1>1, <2>2, <2>3, WriteTyped
  <2>4. CASE UNCHANGED disk
    BY <2>4 DEF Typed, DiskTyped
  <2> QED
    BY <2>3, <2>4 DEF WriteData, WriteFails, n
<1>7. done' \in Seq(Units) /\ Len(done') <= Len(command.data)
  <2>1. CASE done' = SubSeq(command.data, 1, Len(done) + n)
    <3>1. Len(done) + n \in 0 .. Len(command.data)
      BY <1>2, <1>3
    <3> DEFINE t == SubSeq(command.data, 1, Len(done) + n)
    <3>2. t \in Seq(Pieces) /\ Len(t) = Len(done) + n
      BY ONLY <1>2, <3>1
    <3>3. Pieces \subseteq Units
      BY UnitsAre
    <3>4. Seq(Pieces) \subseteq Seq(Units)
      BY <3>3
    <3>5. done' = t
      BY <2>1
    <3> HIDE DEF t
    <3>6. Len(t) <= Len(command.data)
      BY <1>2, <3>1, <3>2
    <3> QED
      BY <3>2, <3>4, <3>5, <3>6
  <2>2. CASE done' = done
    BY <1>2, <2>2
  <2> QED
    BY <2>1, <2>2 DEF WriteData, n
<1>8. AllocTyped' /\ FileTyped' /\ LoopTyped'
  BY <1>1, <1>5 DEF Typed, ControlTyped, AllocTyped, FileTyped, LoopTyped
<1>9. DoneTyped'
  BY <1>5, <1>7 DEF DoneTyped
<1> QED
  BY <1>1, <1>4, <1>5, <1>6, <1>8, <1>9, QuietKeepsCache DEF Typed, ControlTyped

LEMMA ReadDataTyped ==
  ASSUME Typed, ReadData
  PROVE  Typed'
<1>1. /\ FTyped /\ CacheTyped /\ pc = "data" /\ cur \in Cluster /\ command.kind = "cat"
      /\ file \in [first : Cluster \cup {NONE}, size : Nat, position : Nat]
      /\ done \in Seq(Units)
  BY DEF Typed, CacheTyped, ReadData, ControlTyped, LoopTyped, FileTyped, DoneTyped
<1>2. Reads(F, F')
  BY <1>1, AloneReads DEF ReadData, Succeeds, Fails
<1>3. UNCHANGED <<disk, rest, tries, dir, cur, count, file, alloc, command, crashes>>
      /\ pc' \in {"next", "read"}
  BY DEF ReadData, Goto
<1>4. done' \in Seq(Units)
  <2>1. CASE done' = done \o SubSeq(disk[cur], 1, Smaller(file.size - Len(done), UNITS))
    <3> DEFINE m == Smaller(file.size - Len(done), UNITS)
    <3>1. m \in Int /\ m <= UNITS
      BY <1>1, GeometryAssumption DEF Smaller
    <3>2. disk[cur] \in Seq(Units) /\ Len(disk[cur]) = UNITS
      BY <1>1, GeometryAssumption DEF Typed, DiskTyped, Slot
    <3> DEFINE t == SubSeq(disk[cur], 1, m)
    <3> HIDE DEF m
    <3>3. t \in Seq(Units)
      BY <3>1, <3>2
    <3>4. done' = done \o t
      BY <2>1 DEF m
    <3> HIDE DEF t
    <3> QED
      BY <1>1, <3>3, <3>4
  <2>2. CASE done' = done
    BY <1>1, <2>2
  <2> QED
    BY <2>1, <2>2 DEF ReadData
<1>5. DiskTyped' /\ AllocTyped' /\ FileTyped' /\ LoopTyped'
  BY <1>1, <1>3 DEF Typed, ControlTyped, AllocTyped, FileTyped, LoopTyped, DiskTyped
<1>6. DoneTyped'
  BY <1>1, <1>3, <1>4 DEF DoneTyped
<1> QED
  BY <1>1, <1>2, <1>3, <1>5, <1>6, QuietKeepsCache DEF Typed, ControlTyped

LEMMA ReadTyped ==
  ASSUME Typed, Read
  PROVE  Typed'
<1>1. FTyped /\ CacheTyped /\ pc = "read"
  BY DEF Typed, CacheTyped, Read
<1>2. Reads(F, F') /\ DiskTyped'
  BY <1>1, AloneReads DEF Read, fatVars, Typed, DiskTyped
<1>3. CASE /\ file' = [file EXCEPT !.position = Len(done)]
           /\ Goto("next")
           /\ UNCHANGED <<rest, tries, dir, cur, count, done, alloc>>
  <2>1. Len(done) \in Nat
    BY DEF Typed, ControlTyped, DoneTyped
  <2>2. ControlTyped' /\ crashes' = crashes
    BY <1>1, <1>3, <2>1
       DEF Typed, ControlTyped, AllocTyped, FileTyped, DoneTyped, LoopTyped, Goto
  <2> QED
    BY <1>1, <1>2, <2>2, QuietKeepsCache DEF Typed
<1>4. CASE Return(TRUE, done)
  BY <1>1, <1>2, <1>4, ReturnTyped, QuietKeepsCache DEF Typed
<1> QED
  BY <1>3, <1>4 DEF Read

LEMMA WroteTyped ==
  ASSUME Typed, Wrote
  PROVE  Typed'
<1>1. FTyped /\ CacheTyped /\ pc = "wrote"
  BY DEF Typed, CacheTyped, Wrote
<1>2. Reads(F, F') /\ DiskTyped'
  BY <1>1, AloneReads DEF Wrote, fatVars, Typed, DiskTyped
<1>3. CASE /\ done # << >>
           /\ file' = [file EXCEPT !.size = IF Len(done) > @ THEN Len(done) ELSE @]
           /\ cur' = dir
           /\ Goto("link")
           /\ UNCHANGED <<rest, tries, dir, count, done, alloc>>
  <2>1. Len(done) \in Nat
    BY DEF Typed, ControlTyped, DoneTyped
  <2>2. ControlTyped' /\ crashes' = crashes
    BY <1>1, <1>3, <2>1
       DEF Typed, ControlTyped, AllocTyped, FileTyped, DoneTyped, LoopTyped, Goto
  <2> QED
    BY <1>1, <1>2, <2>2, QuietKeepsCache DEF Typed
<1>4. CASE Return(TRUE, << >>)
  BY <1>1, <1>2, <1>4, ReturnTyped, QuietKeepsCache DEF Typed
<1> QED
  BY <1>3, <1>4 DEF Wrote

LEMMA UpdatedTyped ==
  ASSUME Typed, pc = "link", Updated
  PROVE  ControlTyped' /\ crashes' = crashes
<1>1. CASE Return(TRUE, done)
  BY <1>1, ReturnTyped
<1>2. CASE /\ done = << >> /\ cur' = file.first /\ Goto("data")
           /\ UNCHANGED <<rest, tries, dir, count, file, done, alloc>>
  BY <1>2 DEF Typed, ControlTyped, AllocTyped, FileTyped, DoneTyped, LoopTyped, Goto
<1> QED
  BY <1>1, <1>2 DEF Updated

LEMMA LinkTyped ==
  ASSUME Typed, UpdateDirEntry
  PROVE  Typed'
<1>1. FTyped /\ CacheTyped /\ cur \in Cluster /\ pc = "link"
      /\ file \in [first : Cluster \cup {NONE}, size : Nat, position : Nat]
  BY DEF Typed, CacheTyped, ControlTyped, LoopTyped, UpdateDirEntry, FileTyped
<1>2. ControlTyped' /\ DiskTyped' /\ Reads(F, F') /\ crashes' = crashes
  <2>1. CASE \E i \in Slot : Live(disk[cur][i]) /\ LinkFound(i)
    <3>1. PICK i \in Slot : Live(disk[cur][i]) /\ LinkFound(i)
      BY <2>1
    <3>2. Reads(F, F')
      BY <1>1, <3>1, AloneReads DEF LinkFound, Succeeds, Fails, WriteFails
    <3>3. DiskTyped'
      <4> DEFINE u == [disk[cur] EXCEPT ![i].first = file.first, ![i].size = file.size]
      <4>1. disk[cur][i] \in [kind : {"file", "dir"}, name : Names, first : Cluster \cup {NONE},
                              size : Nat]
        BY <3>1, UnitTyped, UnitsAre
      <4>2. \A j \in Slot : disk[cur][j] \in Units
        BY UnitTyped
      <4>3. disk[cur] \in [Slot -> Units]
        BY <1>1 DEF Typed, DiskTyped
      <4>5. \A j \in Slot : u[j] = IF j = i THEN [disk[cur][i] EXCEPT !.first = file.first,
                                                              !.size = file.size]
                                   ELSE disk[cur][j]
        BY <4>3
      <4>6. [disk[cur][i] EXCEPT !.first = file.first, !.size = file.size] \in Units
        BY <1>1, <4>1 DEF Units, DirEntry
      <4>7. u \in [Slot -> Units]
        <5>1. DOMAIN u = Slot /\ u = [j \in Slot |-> u[j]]
          BY <4>3
        <5> HIDE DEF u
        <5> QED
          BY <4>2, <4>5, <4>6, <5>1
      <4> HIDE DEF u
      <4>8. CASE Write(cur, u)
        BY <1>1, <4>7, <4>8, WriteTyped
      <4>9. CASE UNCHANGED disk
        BY <4>9 DEF Typed, DiskTyped
      <4> QED
        BY <3>1, <4>8, <4>9 DEF LinkFound, WriteFails, u
    <3> QED
      BY <1>1, <3>1, <3>2, <3>3, UpdatedTyped DEF LinkFound
  <2>2. CASE NotUpdated /\ UNCHANGED fatVars
    BY <1>1, <2>2, AloneReads, UpdatedTyped DEF fatVars, NotUpdated, Typed, DiskTyped
  <2>3. CASE \E n \in Cluster \cup {NONE} :
               Onward(n) /\ IF n = NONE THEN NotUpdated ELSE GoOn(n)
    BY <1>1, <2>3, GoOnTyped, UpdatedTyped DEF Onward, NotUpdated, Typed, DiskTyped
  <2> QED
    BY <1>1, <2>1, <2>2, <2>3, LinkCases
<1> QED
  BY <1>1, <1>2, QuietKeepsCache DEF Typed

LEMMA MarkTyped ==
  ASSUME Typed, Mark
  PROVE  Typed'
<1>1. FTyped /\ CacheTyped /\ cur \in Cluster /\ pc = "mark"
      /\ file \in [first : Cluster \cup {NONE}, size : Nat, position : Nat]
  BY DEF Typed, CacheTyped, ControlTyped, LoopTyped, Mark, FileTyped
<1>2. Reads(F, F')
  <2>1. CASE \E i \in Slot : MarkFound(i)
    BY <1>1, <2>1, AloneReads DEF MarkFound, Succeeds, Fails, WriteFails
  <2>2. CASE UNCHANGED fatVars
    BY <1>1, <2>2, AloneReads DEF fatVars
  <2> QED
    BY <1>1, <2>1, <2>2, MarkCases DEF Onward
<1>3. ControlTyped' /\ DiskTyped' /\ crashes' = crashes
  <2>1. CASE \E i \in Slot : MarkFound(i)
    <3>1. PICK i \in Slot : MarkFound(i)
      BY <2>1
    <3>2. DiskTyped'
      <4> DEFINE u == [disk[cur] EXCEPT ![i] = DELETED]
      <4>1. u \in [Slot -> Units]
        BY <1>1, UnitsAre DEF Typed, DiskTyped
      <4> HIDE DEF u
      <4>2. CASE Write(cur, u)
        BY <1>1, <4>1, <4>2, WriteTyped
      <4>3. CASE UNCHANGED disk
        BY <4>3 DEF Typed, DiskTyped
      <4> QED
        BY <3>1, <4>2, <4>3 DEF MarkFound, WriteFails, u
    <3>3. CASE \E ok \in BOOLEAN : Return(ok, << >>)
      BY <3>2, <3>3, ReturnTyped
    <3>4. CASE /\ file.first # NONE
               /\ cur' = file.first
               /\ Goto("free")
               /\ UNCHANGED <<rest, tries, dir, count, file, done, alloc>>
      <4>1. ControlTyped' /\ crashes' = crashes
        BY <1>1, <3>4 DEF Typed, ControlTyped, AllocTyped, FileTyped, DoneTyped, LoopTyped, Goto
      <4> QED
        BY <3>2, <4>1
    <3> QED
      BY <3>1, <3>3, <3>4 DEF MarkFound
  <2>2. CASE NotThere
    BY <2>2, ReturnTyped DEF NotThere, Typed, DiskTyped
  <2>3. CASE \E n \in Cluster : GoOn(n)
    BY <1>1, <2>3, GoOnTyped DEF GoOn, Goto
  <2> QED
    BY <1>1, <2>1, <2>2, <2>3, MarkCases
<1> QED
  BY <1>1, <1>2, <1>3, QuietKeepsCache DEF Typed

LEMMA FreeClusterTyped ==
  ASSUME Typed, FreeCluster
  PROVE  Typed'
<1>1. FTyped /\ CacheTyped /\ F \in FatState /\ crashes \in Nat /\ cur \in Cluster /\ pc = "free"
  BY DEF Typed, CacheTyped, FTyped, ControlTyped, LoopTyped, FreeCluster
<1>2. PICK n \in getNextCluster(F, cur) :
        /\ \E r \in setFatEntry(n.f, cur, FREE) : Becomes(r.f)
        /\ IF n.next = NONE THEN Goto("freed") /\ UNCHANGED cur
           ELSE cur' = n.next /\ Goto("free")
  BY DEF FreeCluster
<1>3. PICK r \in setFatEntry(n.f, cur, FREE) : Becomes(r.f)
  BY <1>2
<1>4. Reads(F, n.f) /\ n.next \in Cluster \cup {NONE} /\ n.f \in FatState
  BY <1>1, GetNextIs DEF Reads
<1>5. /\ Grows(n.f, r.f) /\ (~ r.ok => r.f.faults > n.f.faults) /\ (r.ok => r.f.cache.dirty)
      /\ r.ok \in BOOLEAN
  BY <1>1, <1>4, SetGrows, SetIs DEF Value
<1>6. Grows(F, r.f) /\ r.f \in FatState
  BY <1>1, <1>4, <1>5, ReadsGrows, GrowsTransitive DEF Grows
<1>7. F' = r.f
  BY <1>3, <1>6, BecomesIs
<1>8. faults' = 0 /\ ~ lost' => Agrees(F)'
  <2>1. r.f.faults = faults' /\ r.f.faults \in Nat /\ n.f.faults \in Nat
    BY <1>3, <1>4, <1>6, CacheIs DEF Becomes
  <2>2. SUFFICES ASSUME faults' = 0 PROVE Agrees(r.f)
    BY <1>7
  <2>3. r.ok
    BY <1>5, <2>1, <2>2
  <2> QED
    BY <1>5, <2>3 DEF Agrees
<1>9. /\ pc' \in {"free", "freed"} /\ cur' \in Cluster
      /\ UNCHANGED <<disk, rest, tries, dir, count, file, done, alloc, command, crashes>>
  BY <1>1, <1>2, <1>4 DEF FreeCluster, Goto
<1>10. CacheTyped'
  BY <1>1, <1>6, <1>7, <1>8, <1>9, GrowsKeepsCache
<1>11. DiskTyped' /\ AllocTyped' /\ FileTyped' /\ DoneTyped' /\ LoopTyped'
  BY <1>1, <1>9 DEF Typed, ControlTyped, AllocTyped, FileTyped, DoneTyped, LoopTyped, DiskTyped
<1> QED
  BY <1>10, <1>11 DEF Typed, ControlTyped

LEMMA FreedTyped ==
  ASSUME Typed, Freed
  PROVE  Typed'
<1>1. FTyped /\ CacheTyped /\ F \in FatState /\ crashes \in Nat
  BY DEF Typed, CacheTyped, FTyped
<1>2. PICK f \in flushFatCache(F) : Becomes(f)
  BY DEF Freed
<1>3. Reads(F, f) /\ ~ f.cache.dirty /\ f \in FatState
  BY <1>1, FlushReads DEF Reads
<1>4. F' = f
  BY <1>2, <1>3, BecomesIs
<1>5. ControlTyped' /\ pc' = "idle" /\ crashes' = crashes /\ DiskTyped'
  BY ReturnTyped DEF Freed, Typed, DiskTyped
<1>6. faults' = 0 /\ ~ lost' => Agrees(F)'
  <2>1. /\ f.faults = faults' /\ f.lost = lost' /\ faults \in Nat /\ F.faults = faults
        /\ F.lost = lost /\ f.faults \in Nat
    BY <1>1, <1>2, <1>3, FIs, CacheIs DEF Becomes
  <2>2. SUFFICES ASSUME faults' = 0, ~ lost' PROVE Agrees(f)
    BY <1>4
  <2>3. faults = 0 /\ ~ f.lost /\ ~ lost
    BY <1>1, <1>3, <2>1, <2>2 DEF Reads, CacheTyped
  <2> QED
    BY <1>1, <1>3, <2>3 DEF Reads, CacheTyped
<1>7. CacheTyped'
  <2>1. Grows(F, F') /\ ~ cache'.dirty
    BY <1>1, <1>2, <1>3, <1>4, ReadsGrows DEF Becomes
  <2> QED
    BY <1>1, <1>5, <1>6, <2>1, GrowsKeepsCache
<1> QED
  BY <1>5, <1>7 DEF Typed

LEMMA CrashTyped ==
  ASSUME Typed, Crash
  PROVE  Typed'
<1>1. /\ FTyped /\ CacheTyped /\ F \in FatState /\ crashes \in Nat /\ faults \in Nat
      /\ fat \in Table /\ lost \in BOOLEAN
  BY CacheIs, FIs DEF Typed, CacheTyped, FTyped
<1>2. NoCache \in Cache /\ NoCache.dirty = FALSE /\ \A c \in DOMAIN NoCache.buf : FALSE
  BY DEF Cache, NoCache
<1>3. F' = [fat |-> fat, cache |-> NoCache, faults |-> faults, lost |-> lost']
      /\ cache' = NoCache /\ faults' = faults /\ lost' \in BOOLEAN /\ crashes' = crashes + 1
  BY DEF Crash, F
<1>4. F' \in FatState
  BY <1>1, <1>2, <1>3 DEF FatState
<1>5. FTyped'
  BY <1>1, <1>3, <1>4, FaultAssumption DEF FTyped, Crash
<1>6. CacheTyped'
  BY <1>1, <1>2, <1>3, <1>5 DEF CacheTyped, Agrees, Nearly, F
<1>7. << >> \in Seq(Units) /\ << >> \in Seq(Names) /\ 0 \in FatSector /\ root \in Cluster
  BY Constants, GeometryAssumption DEF FatSector, Sector
<1>8. pc' = "idle" /\ command' = NULL /\ rest' = << >> /\ tries' = 0 /\ dir' = root
      /\ cur' = root /\ count' = 0 /\ file' = NoFile /\ done' = << >> /\ alloc' = NoAlloc
      /\ disk' = disk
  BY DEF Crash
<1>9. AllocTyped'
  BY <1>7, <1>8 DEF AllocTyped, NoAlloc
<1>10. FileTyped'
  BY <1>7, <1>8 DEF FileTyped, NoFile
<1>11. DoneTyped'
  BY <1>7, <1>8 DEF DoneTyped
<1>12. LoopTyped' /\ DiskTyped'
  BY <1>7, <1>8 DEF LoopTyped, Typed, DiskTyped
<1> QED
  BY <1>6, <1>9, <1>10, <1>11, <1>12 DEF Typed, ControlTyped

LEMMA StepTyped ==
  ASSUME Typed, [Next]_vars
  PROVE  Typed'
<1>1. CASE UNCHANGED vars
  BY <1>1 DEF vars, Typed, DiskTyped, CacheTyped, FTyped, F, Agrees, Nearly, ControlTyped,
              AllocTyped, FileTyped, DoneTyped, LoopTyped
<1> QED
  BY <1>1, CallTyped, LookTyped, ScanTyped, CommitTyped, ZeroTyped, DotsTyped, AddTyped,
     UndoTyped, NextUnitsTyped, WalkTyped, LastClusterTyped, WriteDataTyped, ReadDataTyped,
     ReadTyped, WroteTyped, LinkTyped, MarkTyped, FreeClusterTyped, FreedTyped, CrashTyped
     DEF Next, Step

------------------------------------------------------------------------------
(***************************************************************************)
(* The chains of the FAT, as long as no more than one request has failed   *)
(* and no write of the FAT is lost.  A witness w says how the clusters lie *)
(* in chains: own, the first cluster of the chain a cluster is in, NONE    *)
(* for one that is in none; rank, how far along the chain it is; dirs, the *)
(* chains of directories.                                                  *)
(***************************************************************************)

Witness == [own : [Cluster -> Cluster \cup {NONE}], rank : [Cluster -> Nat],
            dirs : SUBSET Cluster]

Disks == [Cluster -> [Slot -> Units]]

\* The table t links the clusters of a chain one after the other, and marks them all.
Chains(t, w) ==
  \A c \in Cluster : w.own[c] # NONE =>
    /\ t[c] # FREE
    /\ w.own[w.own[c]] = w.own[c] /\ w.rank[w.own[c]] = 0
    /\ t[c] \in Cluster => w.own[t[c]] = w.own[c] /\ w.rank[t[c]] = w.rank[c] + 1
    /\ c # w.own[c] => \E p \in Cluster : w.own[p] = w.own[c] /\ t[p] = c
    /\ \A d \in Cluster : w.own[d] = w.own[c] /\ w.rank[d] = w.rank[c] => d = c

\* Names of files that are written.
Written == {c.path[Len(c.path)] : c \in {d \in Command : d.kind = "write"}}

\* Unit i of cluster c is an entry of a directory.
Entry(dk, w, c, i) == w.own[c] \in w.dirs /\ Live(dk[c][i])

\* An entry is that of a file or a directory and has the first cluster of a chain that no
\* other entry has.
Recorded(dk, w) ==
  /\ root \in w.dirs /\ \A d \in w.dirs : w.own[d] = d
  /\ \A c \in Cluster, i \in Slot : Entry(dk, w, c, i) =>
       /\ dk[c][i].kind = "dir" <=> dk[c][i].first \in w.dirs
       /\ dk[c][i].kind = "dir" => dk[c][i].name \notin Written
       /\ dk[c][i].first # NONE =>
            w.own[dk[c][i].first] = dk[c][i].first /\ dk[c][i].first # root
  /\ \A c, d \in Cluster, i, j \in Slot :
       /\ Entry(dk, w, c, i) /\ Entry(dk, w, d, j)
       /\ dk[c][i].first = dk[d][j].first /\ dk[c][i].first # NONE
       => c = d /\ i = j

\* The driver sees the chains as they are on the disk, but for the link of x.
Known(t, s, w, x) == \A c \in Cluster : w.own[c] # NONE /\ c # x => s[c] = t[c]

\* What is being freed is in no chain, and nor is where it leads.
Going(t, s, w, going) ==
  /\ going \subseteq Cluster
  /\ \A c \in going :
       /\ w.own[c] = NONE
       /\ t[c] \in Cluster => t[c] \in going
       /\ s[c] \in Cluster => s[c] \in going

\* Unit j of b comes before unit i of c in a directory.
Before(w, b, j, c, i) == w.rank[b] < w.rank[c] \/ (b = c /\ j < i)

\* No directory has a name twice, and nothing is listed behind an end mark.
Sound(dk, w) ==
  /\ \A c, d \in Cluster, i, j \in Slot :
       /\ Entry(dk, w, c, i) /\ Entry(dk, w, d, j)
       /\ w.own[c] = w.own[d] /\ dk[c][i].name = dk[d][j].name
       => c = d /\ i = j
  /\ \A c, b \in Cluster, i, j \in Slot :
       /\ Entry(dk, w, c, i) /\ w.own[b] = w.own[c] /\ Before(w, b, j, c, i)
       => dk[b][j] # END

\* A directory knows itself and its parent.
DotsOf(dk, c, d) == dk[c][1] = Dot(c) /\ dk[c][2] = Dot(d)
Dotted(dk, w) ==
  \A c \in Cluster, i \in Slot :
    Entry(dk, w, c, i) /\ dk[c][i].kind = "dir" => DotsOf(dk, dk[c][i].first, w.own[c])

Moving == IF pc = "commit" THEN alloc.prev ELSE NONE

\* What holds of the table, as it is on the disk and as the driver sees it, and of the
\* clusters, when n requests have failed.
Sane(t, s, dk, w, x, going, n) ==
  /\ w \in Witness
  /\ Chains(t, w) /\ Recorded(dk, w)
  /\ Known(t, s, w, x)
  /\ Going(t, s, w, going)
  /\ n = 0 => Sound(dk, w) /\ Dotted(dk, w)

Structure(w, going) == Sane(fat, Seen, disk, w, Moving, going, faults)

------------------------------------------------------------------------------
(* Where the commands have come to. *)

\* Unit i of c is what a search of the directory d for the name n finds.
First(dk, w, d, n, c, i) ==
  /\ c \in Cluster /\ i \in Slot /\ w.own[c] = d /\ Is(dk[c][i], n)
  /\ \A b \in Cluster, j \in Slot :
       w.own[b] = d /\ Before(w, b, j, c, i) => ~ Is(dk[b][j], n) /\ dk[b][j] # END

NoFirst(dk, w, d, n) == \A c \in Cluster, i \in Slot : ~ First(dk, w, d, n, c, i)

\* Nothing that the search would stop at is in the clusters of d before c.
Passed(dk, w, d, c, n) ==
  \A b \in Cluster, j \in Slot :
    w.own[b] = d /\ w.rank[b] < w.rank[c] => ~ Is(dk[b][j], n) /\ dk[b][j] # END

\* If a cluster was passed over, then while names are unique still.
Covered(w, n) == Passed(disk, w, dir, cur, n) \/ (faults > 0 /\ Sound(disk, w))

\* The first m - 1 components of the path lead to loc[2] to loc[m].
Led(dk, w, path, loc, m) ==
  /\ loc \in [Nat -> Cluster] /\ loc[1] = root /\ m \in 1 .. Len(path)
  /\ \A k \in 1 .. m : loc[k] \in w.dirs
  /\ \A k \in 1 .. m - 1 :
       \E c \in Cluster, i \in Slot :
         /\ First(dk, w, loc[k], path[k], c, i)
         /\ dk[c][i].kind = "dir" /\ dk[c][i].first = loc[k + 1]

\* How much of the path is looked up: rm's second time without the last component.
Upto == IF command.kind = "rm" /\ tries = 1 THEN Len(command.path) - 1 ELSE Len(command.path)

AtComponent(loc, m) ==
  \E k \in 1 .. m : k <= Upto /\ rest = SubSeq(command.path, k, Upto) /\ dir = loc[k]

\* The look-up gets no further than to component m, however often.
Stuck(dk, w, path, loc, m) ==
  \A c \in Cluster, i \in Slot :
    First(dk, w, loc[m], path[m], c, i) => m < Len(path) /\ dk[c][i].kind # "dir"

\* The name n leads to a file with the first cluster f.
Leads(dk, w, d, n, f) ==
  \A c \in Cluster, i \in Slot :
    First(dk, w, d, n, c, i) => dk[c][i].kind = "file" /\ dk[c][i].first = f

\* To one with the first cluster f or none.
MayLead(dk, w, d, n, f) ==
  \A c \in Cluster, i \in Slot :
    First(dk, w, d, n, c, i) => dk[c][i].kind = "file" /\ dk[c][i].first \in {f, NONE}

\* f is the first cluster of a file, which no entry has but the one that n leads to.
Held(dk, w, d, n, f) ==
  /\ w.own[f] = f /\ f \notin w.dirs
  /\ \A c \in Cluster, i \in Slot :
       Entry(dk, w, c, i) /\ dk[c][i].first = f => First(dk, w, d, n, c, i)

\* c is the first cluster of a chain that no entry has.
Unlisted(dk, w, h) ==
  /\ w.own[h] = h /\ h \notin w.dirs
  /\ \A c \in Cluster, i \in Slot : Entry(dk, w, c, i) => dk[c][i].first # h

\* Its only cluster is h; there are no entries in its clusters.
Alone(w, h) == \A b \in Cluster : w.own[b] = h => b = h
Blank(dk, w, h) == \A b \in Cluster, i \in Slot : w.own[b] = h => ~ Live(dk[b][i])

NoEnd(dk, w, d, c) ==
  \A b \in Cluster, j \in Slot : w.own[b] = d /\ w.rank[b] < w.rank[c] => dk[b][j] # END

Allocating == pc \in {"scan", "commit", "zero"}
Adding == pc = "add" \/ (Allocating /\ alloc.purpose = "add")
Creating == Adding \/ pc = "dots" \/ (Allocating /\ alloc.purpose = "mkdir")
Writing ==
  \/ command # NULL /\ command.kind = "write" /\ pc \in {"next", "walk", "last", "data", "wrote", "link"}
  \/ Allocating /\ alloc.purpose \in {"first", "extend"}

\* Which command is where.
Kinds ==
  LET Of(kinds) == command.kind \in kinds
  IN  /\ pc \in {"dots", "undo"} => Of({"mkdir"})
      /\ pc \in {"mark", "free", "freed"} => Of({"rm"})
      /\ pc \in {"last", "wrote", "link"} => Of({"write"})
      /\ Adding => Of({"touch", "mkdir", "write"})
      /\ Allocating /\ alloc.purpose = "mkdir" => Of({"mkdir"})
      /\ Allocating /\ alloc.purpose \in {"first", "extend"} => Of({"write"})
      /\ Allocating => (alloc.prev = NONE <=> alloc.purpose \in {"mkdir", "first"})
      /\ pc = "look" /\ command.kind = "rm" => tries \in {0, 1}
      /\ pc = "read" => ~ Of({"write"})
      /\ pc = "idle" => tries = 0 /\ file.first = NONE
      /\ pc = "zero" => alloc.purpose # "add"

Searching(w) ==
  /\ dir \in w.dirs
  /\ pc \in {"look", "add", "link", "mark"} => w.own[cur] = dir

Looking(w, loc, m) ==
  pc = "look" =>
    /\ Covered(w, Head(rest))
    /\ Led(disk, w, command.path, loc, m) /\ AtComponent(loc, m)
    /\ command.kind = "write" =>
         /\ file.first = NONE
         /\ tries = 1 => \/ Stuck(disk, w, command.path, loc, m)
                         \/ faults > 0 /\ Passed(disk, w, dir, cur, Head(rest))
         /\ tries = 2 => Stuck(disk, w, command.path, loc, m)
    /\ command.kind = "rm" /\ tries = 1 =>
         m = Len(command.path) /\ Leads(disk, w, loc[m], Name, file.first)

Marking(w) ==
  pc = "mark" /\ ~ command.slash => Covered(w, Name) /\ Leads(disk, w, dir, Name, file.first)

Creates(dk, w) ==
  /\ Creating /\ (command.kind = "write" \/ faults = 0) => NoFirst(dk, w, dir, Name)
  /\ Creating /\ command.kind = "write" => file.first = NONE
  /\ (pc \in {"dots", "undo"} \/ Adding) /\ command.kind = "mkdir" =>
       /\ Unlisted(dk, w, file.first)
       /\ pc = "dots" => alloc.new = file.first /\ Alone(w, file.first)
       /\ Adding => Blank(dk, w, file.first)
       /\ Adding /\ faults = 0 => DotsOf(dk, file.first, dir)

Adds(w) ==
  /\ pc = "add" /\ faults = 0 => NoEnd(disk, w, dir, cur)
  /\ pc \in {"scan", "commit"} /\ alloc.purpose = "add" =>
       /\ w.own[alloc.prev] = dir
       /\ faults = 0 => \A b \in Cluster, j \in Slot : w.own[b] = dir => disk[b][j] # END

Writes(w) ==
  /\ Writing =>
       /\ MayLead(disk, w, dir, Name, file.first)
       /\ file.first # NONE => Held(disk, w, dir, Name, file.first)
       /\ pc \in {"walk", "last", "data"} => file.first # NONE /\ w.own[cur] = file.first
       /\ pc = "link" /\ Name.base = Name.ext => Covered(w, Name)
  /\ Allocating /\ alloc.purpose = "first" => file.first = NONE
  /\ pc \in {"scan", "commit"} /\ alloc.purpose = "extend" =>
       file.first # NONE /\ w.own[alloc.prev] = file.first
  /\ pc = "zero" /\ alloc.purpose = "extend" =>
       file.first # NONE /\ w.own[alloc.new] = file.first
  /\ pc = "zero" /\ alloc.purpose \in {"mkdir", "first"} => Unlisted(disk, w, alloc.new)
  /\ pc = "zero" /\ alloc.purpose = "mkdir" => Alone(w, alloc.new)

Commits(w) ==
  pc = "commit" =>
    /\ cache.dirty /\ w.own[alloc.new] = NONE /\ Seen[alloc.new] = EOF
    /\ alloc.prev # NONE => Seen[alloc.prev] = alloc.new

Frees(going) ==
  /\ pc \notin {"free", "freed"} => going = {}
  /\ pc = "free" => cur \in going

Control(w, going, loc, m) ==
  /\ Kinds /\ Searching(w) /\ Looking(w, loc, m) /\ Marking(w) /\ Creates(disk, w) /\ Adds(w)
  /\ Writes(w) /\ Commits(w) /\ Frees(going)

Good(w, going, loc, m) == Structure(w, going) /\ Control(w, going, loc, m)

\* A directory is just growing by a cluster: all is well once that is zeroed.
Zeroed == [disk EXCEPT ![alloc.new] = Zeros]
Awaiting(w) ==
  /\ pc = "zero" /\ alloc.purpose = "add" /\ alloc.prev # NONE
  /\ command.kind \in {"touch", "mkdir", "write"}
  /\ Sane(fat, Seen, Zeroed, w, NONE, {}, faults)
  /\ dir \in w.dirs /\ Creates(Zeroed, w)
  /\ w.own[alloc.new] = dir /\ w.rank[alloc.new] > 0
  /\ \A b \in Cluster : w.own[b] = dir => w.rank[b] <= w.rank[alloc.new]
  /\ faults = 0 => NoEnd(Zeroed, w, dir, alloc.new)

------------------------------------------------------------------------------
(* What follows from the chains alone. *)

LEMMA WitnessIs ==
  ASSUME NEW w \in Witness
  PROVE  /\ w.dirs \subseteq Cluster
         /\ \A c \in Cluster : w.own[c] \in Cluster \cup {NONE} /\ w.rank[c] \in Nat
  BY DEF Witness

\* An entry is that of a file or a directory, with a name and a first cluster if it has any.
LEMMA LiveIs ==
  ASSUME NEW dk \in Disks, NEW c \in Cluster, NEW i \in Slot
  PROVE  /\ dk[c][i] \in Units
         /\ Live(dk[c][i]) =>
              /\ dk[c][i].kind \in {"file", "dir"} /\ dk[c][i].name \in Names
              /\ dk[c][i].first \in Cluster \cup {NONE} /\ dk[c][i].size \in Nat
<1>1. dk[c][i] \in Units
  BY DEF Disks
<1> QED
  BY <1>1, UnitsAre

\* A search finds one unit at most.
LEMMA FirstUnique ==
  ASSUME NEW t, NEW dk, NEW w \in Witness, Chains(t, w), NEW d \in Cluster, NEW n,
         NEW c, NEW i, NEW b, NEW j, First(dk, w, d, n, c, i), First(dk, w, d, n, b, j)
  PROVE  c = b /\ i = j
<1>1. c \in Cluster /\ b \in Cluster /\ i \in Slot /\ j \in Slot /\ w.own[c] = d /\ w.own[b] = d
      /\ w.rank[c] \in Nat /\ w.rank[b] \in Nat /\ d # NONE /\ i \in Nat /\ j \in Nat
  BY WitnessIs, Constants DEF First
<1>2. ~ Before(w, b, j, c, i)
  BY <1>1 DEF First
<1>3. ~ Before(w, c, i, b, j)
  BY <1>1 DEF First
<1>4. w.rank[c] = w.rank[b]
  BY <1>1, <1>2, <1>3 DEF Before
<1>5. c = b
  BY <1>1, <1>4 DEF Chains
<1>6. i = j
  BY <1>1, <1>2, <1>3, <1>5 DEF Before
<1> QED
  BY <1>5, <1>6

\* What comes before unit i of c is in the clusters before c or before i.
LEMMA HitIsFirst ==
  ASSUME NEW dk, NEW w \in Witness, NEW t, Chains(t, w), NEW d \in Cluster, NEW n,
         NEW c \in Cluster, w.own[c] = d, NEW i \in Slot, Passed(dk, w, d, c, n),
         Is(dk[c][i], n), \A j \in 1 .. i - 1 : ~ Is(dk[c][j], n) /\ dk[c][j] # END
  PROVE  First(dk, w, d, n, c, i)
<1>1. ASSUME NEW b \in Cluster, NEW j \in Slot, w.own[b] = d, Before(w, b, j, c, i)
      PROVE  ~ Is(dk[b][j], n) /\ dk[b][j] # END
  <2>1. CASE w.rank[b] < w.rank[c]
    BY <1>1, <2>1 DEF Passed
  <2>2. CASE b = c /\ j < i
    <3>1. j \in 1 .. i - 1
      BY <2>2 DEF Slot
    <3> QED
      BY <2>2, <3>1
  <2> QED
    BY <1>1, <2>1, <2>2 DEF Before
<1> QED
  BY <1>1 DEF First

\* Where names are unique and nothing is behind an end mark, whatever has the name is what
\* a search finds.
LEMMA SoundFirst ==
  ASSUME NEW dk, NEW w \in Witness, Sound(dk, w), NEW d \in w.dirs, NEW n,
         NEW c \in Cluster, w.own[c] = d, NEW i \in Slot, Is(dk[c][i], n)
  PROVE  First(dk, w, d, n, c, i)
<1>1. Entry(dk, w, c, i)
  BY DEF Entry, Is
<1>2. ASSUME NEW b \in Cluster, NEW j \in Slot, w.own[b] = d, Before(w, b, j, c, i)
      PROVE  ~ Is(dk[b][j], n) /\ dk[b][j] # END
  <2>1. dk[b][j] # END
    BY <1>1, <1>2 DEF Sound
  <2>2. ASSUME Is(dk[b][j], n) PROVE FALSE
    <3>1. Entry(dk, w, b, j) /\ dk[b][j].name = dk[c][i].name
      BY <1>2, <2>2 DEF Entry, Is
    <3>2. b = c /\ i = j
      BY <1>1, <1>2, <3>1 DEF Sound
    <3>3. w.rank[c] \in Nat /\ i \in Nat
      BY WitnessIs, Constants
    <3> QED
      BY <1>2, <3>2, <3>3 DEF Before
  <2> QED
    BY <2>1, <2>2
<1> QED
  BY <1>2 DEF First

\* The search goes on to the next cluster, which is one further along the same chain.
LEMMA NextInChain ==
  ASSUME NEW t, NEW w \in Witness, Chains(t, w), NEW c \in Cluster, w.own[c] # NONE,
         t[c] \in Cluster
  PROVE  /\ w.own[t[c]] = w.own[c]
         /\ \A b \in Cluster : w.own[b] = w.own[c] /\ w.rank[b] < w.rank[t[c]] =>
              w.rank[b] < w.rank[c] \/ b = c
<1>1. w.own[t[c]] = w.own[c] /\ w.rank[t[c]] = w.rank[c] + 1
  BY DEF Chains
<1>2. ASSUME NEW b \in Cluster, w.own[b] = w.own[c], w.rank[b] < w.rank[t[c]]
      PROVE  w.rank[b] < w.rank[c] \/ b = c
  <2>1. w.rank[b] \in Nat /\ w.rank[c] \in Nat
    BY WitnessIs
  <2>2. w.rank[b] < w.rank[c] \/ w.rank[b] = w.rank[c]
    BY <1>1, <1>2, <2>1
  <2> QED
    BY <1>2, <2>2 DEF Chains
<1> QED
  BY <1>1, <1>2

\* Where the chain ends there is nothing further along it.
LEMMA LastInChain ==
  ASSUME NEW t, NEW w \in Witness, Chains(t, w), NEW c \in Cluster, w.own[c] # NONE,
         t[c] \notin Cluster, NEW b \in Cluster, w.own[b] = w.own[c]
  PROVE  w.rank[b] <= w.rank[c]
<1> DEFINE Far == {a \in Cluster : w.own[a] = w.own[c] /\ w.rank[a] > w.rank[c]}
           far == {w.rank[a] : a \in Far}
<1>1. SUFFICES ASSUME w.rank[b] > w.rank[c] PROVE FALSE
  <2>1. w.rank[b] \in Nat /\ w.rank[c] \in Nat
    BY WitnessIs
  <2> QED
    BY <2>1
<1>2. far \subseteq Nat /\ far # {}
  BY <1>1, WitnessIs
<1> HIDE DEF far
<1>3. \E r \in far : \A q \in far : ~ (q < r)
  <2>1. \A a, q \in Nat : <<a, q>> \in OpToRel(<, Nat) <=> a < q
    BY DEF OpToRel
  <2>2. IsWellFoundedOn(OpToRel(<, Nat), Nat)
    BY NatLessThanWellFounded
  <2> DEFINE L == OpToRel(<, Nat)
  <2> HIDE DEF L
  <2>3. \E r \in far : \A q \in far : ~ (<<q, r>> \in L)
    <3>1. IsWellFoundedOn(L, Nat)
      BY <2>2 DEF L
    <3> QED
      BY <1>2, <3>1, WFMin
  <2>4. \A a, q \in Nat : <<a, q>> \in L <=> a < q
    BY <2>1 DEF L
  <2> QED
    BY <1>2, <2>3, <2>4
<1>4. PICK r \in far : \A q \in far : ~ (q < r)
  BY <1>3
<1>5. PICK a \in Far : w.rank[a] = r
  BY <1>4 DEF far
<1>6. a \in Cluster /\ w.own[a] = w.own[c] /\ w.rank[a] > w.rank[c] /\ w.rank[a] \in Nat
      /\ w.rank[c] \in Nat
  BY <1>5, WitnessIs
<1>7. a # w.own[a]
  <2>1. w.rank[w.own[a]] = 0
    BY <1>6 DEF Chains
  <2> QED
    BY <1>6, <2>1
<1>8. PICK p \in Cluster : w.own[p] = w.own[a] /\ t[p] = a
  BY <1>6, <1>7 DEF Chains
<1>9. w.rank[a] = w.rank[p] + 1 /\ w.rank[p] \in Nat
  <2>1. w.own[p] # NONE /\ t[p] \in Cluster
    BY <1>6, <1>8
  <2> QED
    BY <1>8, <2>1, WitnessIs DEF Chains
<1>10. p \notin Far
  <2>1. ASSUME p \in Far PROVE FALSE
    <3>1. w.rank[p] \in far
      BY <2>1 DEF far
    <3> QED
      BY <1>4, <1>5, <1>9, <3>1
  <2> QED
    BY <2>1
<1>11. w.rank[p] = w.rank[c]
  BY <1>6, <1>8, <1>9, <1>10
<1>12. p = c
  BY <1>6, <1>8, <1>11 DEF Chains
<1> QED
  BY <1>6, <1>8, <1>12

\* A search that has come to the end of what it looks at has found nothing, if it has
\* passed nothing over.
LEMMA NoneFound ==
  ASSUME NEW t, NEW dk, NEW w \in Witness, Chains(t, w), NEW d \in Cluster, NEW n,
         NEW c \in Cluster, w.own[c] = d, Passed(dk, w, d, c, n),
         \/ t[c] \notin Cluster /\ \A j \in Slot : ~ Is(dk[c][j], n)
         \/ \E i \in Slot : dk[c][i] = END /\ \A j \in 1 .. i - 1 : ~ Is(dk[c][j], n)
  PROVE  NoFirst(dk, w, d, n)
<1>1. SUFFICES ASSUME NEW b \in Cluster, NEW j \in Slot, First(dk, w, d, n, b, j) PROVE FALSE
  BY DEF NoFirst
<1>2. w.own[b] = d /\ Is(dk[b][j], n) /\ w.rank[b] \in Nat /\ w.rank[c] \in Nat /\ d # NONE
  BY <1>1, WitnessIs, Constants DEF First
<1>3. w.rank[b] >= w.rank[c]
  BY <1>2 DEF Passed
<1>4. w.rank[b] = w.rank[c] => b = c
  BY <1>2 DEF Chains
<1>5. CASE t[c] \notin Cluster /\ \A k \in Slot : ~ Is(dk[c][k], n)
  BY <1>2, <1>3, <1>4, <1>5, LastInChain
<1>6. ASSUME NEW i \in Slot, dk[c][i] = END, \A k \in 1 .. i - 1 : ~ Is(dk[c][k], n) PROVE FALSE
  <2>1. ~ Before(w, c, i, b, j)
    BY <1>1, <1>2, <1>6 DEF First
  <2>2. b = c /\ j <= i /\ j # i
    <3>1. ~ Is(END, n)
      BY UnitsAre DEF Is
    <3>2. i \in Nat /\ j \in Nat
      BY Constants
    <3>3. b = c
      BY <1>2, <1>3, <1>4, <2>1 DEF Before
    <3> QED
      BY <1>2, <1>6, <2>1, <3>1, <3>2, <3>3 DEF Before
  <2>3. j \in 1 .. i - 1
    BY <2>2 DEF Slot
  <2> QED
    BY <1>2, <1>6, <2>2, <2>3
<1> QED
  BY <1>5, <1>6

\* At the head of a chain nothing has been passed yet.
LEMMA PassedAtHead ==
  ASSUME NEW t, NEW dk, NEW w \in Witness, Chains(t, w), NEW d \in Cluster, w.own[d] = d, NEW n
  PROVE  Passed(dk, w, d, d, n) /\ NoEnd(dk, w, d, d)
<1>1. w.rank[d] = 0
  BY Constants DEF Chains
<1>2. \A b \in Cluster : ~ (w.rank[b] < w.rank[d])
  BY <1>1, WitnessIs
<1> QED
  BY <1>2 DEF Passed, NoEnd

LEMMA PassedOn ==
  ASSUME NEW t, NEW dk, NEW w \in Witness, Chains(t, w), NEW d \in Cluster, NEW n,
         NEW c \in Cluster, w.own[c] = d, t[c] \in Cluster
  PROVE  /\ w.own[t[c]] = d
         /\ Passed(dk, w, d, c, n) /\ (\A j \in Slot : ~ Is(dk[c][j], n) /\ dk[c][j] # END)
              => Passed(dk, w, d, t[c], n)
         /\ NoEnd(dk, w, d, c) /\ (\A j \in Slot : dk[c][j] # END) => NoEnd(dk, w, d, t[c])
<1>1. d # NONE
  BY Constants
<1> QED
  BY <1>1, NextInChain DEF Passed, NoEnd

\* Where no end mark has been passed to the end of the chain there is none.
LEMMA NoEndAtAll ==
  ASSUME NEW t, NEW dk, NEW w \in Witness, Chains(t, w), NEW d \in Cluster,
         NEW c \in Cluster, w.own[c] = d, t[c] \notin Cluster, NoEnd(dk, w, d, c),
         \A j \in Slot : dk[c][j] # END
  PROVE  \A b \in Cluster, j \in Slot : w.own[b] = d => dk[b][j] # END
<1>1. ASSUME NEW b \in Cluster, NEW j \in Slot, w.own[b] = d PROVE dk[b][j] # END
  <2>1. w.rank[b] <= w.rank[c] /\ d # NONE /\ w.rank[b] \in Nat /\ w.rank[c] \in Nat
    BY <1>1, LastInChain, WitnessIs, Constants
  <2>2. w.rank[b] < w.rank[c] \/ b = c
    BY <1>1, <2>1 DEF Chains
  <2> QED
    BY <1>1, <2>2 DEF NoEnd
<1> QED
  BY <1>1

------------------------------------------------------------------------------
(* How the chains survive what happens to the FAT. *)

\* Nothing changes where there are chains.
LEMMA SaneTable ==
  ASSUME NEW t, NEW s, NEW dk, NEW w, NEW going, NEW n \in Nat, Sane(t, s, dk, w, NONE, going, n),
         NEW t2, NEW s2, NEW n2 \in Nat, n2 = 0 => n = 0,
         \A c \in Cluster : {t2[c], s2[c]} \subseteq {t[c], s[c], FREE, EOF},
         \A c \in Cluster : w.own[c] # NONE => {t2[c], s2[c]} \subseteq {t[c], s[c]}
  PROVE  Sane(t2, s2, dk, w, NONE, going, n2)
<1>1. /\ w \in Witness /\ Chains(t, w) /\ Recorded(dk, w)
      /\ Known(t, s, w, NONE) /\ Going(t, s, w, going) /\ (n = 0 => Sound(dk, w) /\ Dotted(dk, w))
  BY DEF Sane
<1>2. \A c \in Cluster : w.own[c] # NONE => t2[c] = t[c] /\ s2[c] = t[c]
  BY <1>1, Constants DEF Known
<1>3. Chains(t2, w)
  <2>1. ASSUME NEW c \in Cluster, w.own[c] # NONE
        PROVE  /\ t2[c] # FREE
               /\ w.own[w.own[c]] = w.own[c] /\ w.rank[w.own[c]] = 0
               /\ t2[c] \in Cluster => w.own[t2[c]] = w.own[c] /\ w.rank[t2[c]] = w.rank[c] + 1
               /\ c # w.own[c] => \E p \in Cluster : w.own[p] = w.own[c] /\ t2[p] = c
               /\ \A d \in Cluster : w.own[d] = w.own[c] /\ w.rank[d] = w.rank[c] => d = c
    BY <1>1, <1>2, <2>1 DEF Chains
  <2> QED
    BY <2>1 DEF Chains
<1>5. Known(t2, s2, w, NONE)
  BY <1>2 DEF Known
<1>6. Going(t2, s2, w, going)
  BY <1>1, Constants DEF Going
<1> QED
  BY <1>1, <1>3, <1>5, <1>6 DEF Sane

LEMMA SaneFaults ==
  ASSUME NEW t, NEW s, NEW dk, NEW w, NEW x, NEW going, NEW n \in Nat,
         Sane(t, s, dk, w, x, going, n), NEW n2 \in Nat, n2 = 0 => n = 0
  PROVE  Sane(t, s, dk, w, x, going, n2)
  BY DEF Sane

\* The driver takes the cluster c, which is free, to link it behind p.
LEMMA SaneTake ==
  ASSUME NEW t, NEW s, NEW dk, NEW w, NEW n \in Nat, Sane(t, s, dk, w, NONE, {}, n),
         NEW t2, NEW s2, NEW n2 \in Nat, n2 = 0 => n = 0,
         NEW c \in Cluster, FREE \in {t[c], s[c]}, NEW p \in Cluster \cup {NONE},
         s2[c] = EOF, t2[c] \in {t[c], s[c], EOF}, p # NONE => s2[p] = c,
         \A d \in Cluster : d # c => t2[d] \in {t[d], s[d]},
         \A d \in Cluster : d \notin {c, p} => s2[d] \in {t[d], s[d]}
  PROVE  /\ w.own[c] = NONE
         /\ Sane(t2, s2, dk, w, p, {}, n2)
<1>1. /\ w \in Witness /\ Chains(t, w) /\ Recorded(dk, w)
      /\ Known(t, s, w, NONE) /\ (n = 0 => Sound(dk, w) /\ Dotted(dk, w))
  BY DEF Sane
<1>2. w.own[c] = NONE
  BY <1>1, Constants DEF Known, Chains
<1>4. \A d \in Cluster : w.own[d] # NONE => t2[d] = t[d] /\ (d # p => s2[d] = t[d])
  BY <1>1, <1>2, Constants DEF Known
<1>5. Chains(t2, w)
  <2>1. ASSUME NEW d \in Cluster, w.own[d] # NONE
        PROVE  /\ t2[d] # FREE
               /\ w.own[w.own[d]] = w.own[d] /\ w.rank[w.own[d]] = 0
               /\ t2[d] \in Cluster => w.own[t2[d]] = w.own[d] /\ w.rank[t2[d]] = w.rank[d] + 1
               /\ d # w.own[d] => \E q \in Cluster : w.own[q] = w.own[d] /\ t2[q] = d
               /\ \A q \in Cluster : w.own[q] = w.own[d] /\ w.rank[q] = w.rank[d] => q = d
    BY <1>1, <1>4, <2>1 DEF Chains
  <2> QED
    BY <2>1 DEF Chains
<1>7. Known(t2, s2, w, p)
  BY <1>4 DEF Known
<1>8. Going(t2, s2, w, {})
  BY DEF Going
<1> QED
  BY <1>1, <1>2, <1>5, <1>7, <1>8 DEF Sane

\* Power is lost: the driver sees what is on the disk, whatever it was about to change.
LEMMA SanePower ==
  ASSUME NEW t, NEW s, NEW dk, NEW w, NEW x, NEW going, NEW n \in Nat,
         Sane(t, s, dk, w, x, going, n)
  PROVE  Sane(t, t, dk, w, NONE, {}, n)
  BY DEF Sane, Known, Going

LEMMA SaneGone ==
  ASSUME NEW t, NEW s, NEW dk, NEW w, NEW x, NEW going, NEW n \in Nat,
         Sane(t, s, dk, w, x, going, n)
  PROVE  Sane(t, s, dk, w, x, {}, n)
  BY DEF Sane, Going

\* The witness without the chain that begins at h.
Without(w, h) ==
  [own |-> [c \in Cluster |-> IF w.own[c] = h THEN NONE ELSE w.own[c]],
   rank |-> w.rank, dirs |-> w.dirs]
ChainOf(w, h) == {c \in Cluster : w.own[c] = h}

LEMMA WithoutIs ==
  ASSUME NEW w \in Witness, NEW h \in Cluster, h \notin w.dirs, \A d \in w.dirs : w.own[d] = d
  PROVE  LET v == Without(w, h)
         IN  /\ v \in Witness /\ v.rank = w.rank /\ v.dirs = w.dirs
             /\ \A c \in Cluster : v.own[c] = IF w.own[c] = h THEN NONE ELSE w.own[c]
             /\ \A c \in Cluster : v.own[c] \in v.dirs <=> w.own[c] \in w.dirs
  BY Constants DEF Without, Witness

\* The chain of a file or directory that no entry records is given up.
LEMMA SaneDrop ==
  ASSUME NEW t, NEW s, NEW dk \in Disks, NEW w, NEW n \in Nat,
         Sane(t, s, dk, w, NONE, {}, n), NEW h \in Cluster, Unlisted(dk, w, h)
  PROVE  Sane(t, s, dk, Without(w, h), NONE, ChainOf(w, h), n)
<1> DEFINE v == Without(w, h)
           g == ChainOf(w, h)
<1>1. /\ w \in Witness /\ Chains(t, w) /\ Recorded(dk, w)
      /\ Known(t, s, w, NONE) /\ (n = 0 => Sound(dk, w) /\ Dotted(dk, w))
  BY DEF Sane
<1>2. h \notin w.dirs /\ w.own[h] = h /\ \A d \in w.dirs : w.own[d] = d
  BY <1>1 DEF Unlisted, Recorded
<1>3. /\ v \in Witness /\ v.rank = w.rank /\ v.dirs = w.dirs
      /\ \A c \in Cluster : v.own[c] = IF w.own[c] = h THEN NONE ELSE w.own[c]
      /\ \A c \in Cluster : v.own[c] \in v.dirs <=> w.own[c] \in w.dirs
  BY <1>1, <1>2, WithoutIs
<1>4. g \subseteq Cluster /\ \A c \in Cluster : c \in g <=> w.own[c] = h
  BY DEF ChainOf
<1> HIDE DEF v, g
<1>5. h # NONE
  BY Constants
<1>6. \A c, i : Entry(dk, v, c, i) /\ c \in Cluster <=> Entry(dk, w, c, i) /\ c \in Cluster
  BY <1>3 DEF Entry
<1>7. Chains(t, v)
  <2>1. ASSUME NEW c \in Cluster, v.own[c] # NONE
        PROVE  /\ t[c] # FREE
               /\ v.own[v.own[c]] = v.own[c] /\ v.rank[v.own[c]] = 0
               /\ t[c] \in Cluster => v.own[t[c]] = v.own[c] /\ v.rank[t[c]] = v.rank[c] + 1
               /\ c # v.own[c] => \E q \in Cluster : v.own[q] = v.own[c] /\ t[q] = c
               /\ \A q \in Cluster : v.own[q] = v.own[c] /\ v.rank[q] = v.rank[c] => q = c
    <3>1. w.own[c] = v.own[c] /\ w.own[c] # h /\ w.own[c] # NONE /\ w.own[c] \in Cluster
      BY <1>1, <1>3, <2>1, WitnessIs
    <3>2. w.own[w.own[c]] = w.own[c] /\ v.own[w.own[c]] = w.own[c]
      BY <1>1, <1>3, <3>1 DEF Chains
    <3>3. t[c] \in Cluster => v.own[t[c]] = v.own[c] /\ v.rank[t[c]] = v.rank[c] + 1
      BY <1>1, <1>3, <3>1 DEF Chains
    <3>4. c # v.own[c] => \E q \in Cluster : v.own[q] = v.own[c] /\ t[q] = c
      BY <1>1, <1>3, <3>1 DEF Chains
    <3>5. \A q \in Cluster : v.own[q] = v.own[c] /\ v.rank[q] = v.rank[c] => q = c
      BY <1>1, <1>3, <3>1 DEF Chains
    <3>6. t[c] # FREE /\ v.rank[v.own[c]] = 0
      BY <1>1, <1>3, <3>1 DEF Chains
    <3> QED
      BY <3>1, <3>2, <3>3, <3>4, <3>5, <3>6
  <2> QED
    BY <2>1 DEF Chains
<1>8. Recorded(dk, v)
  <2>1. root \in v.dirs /\ \A d \in v.dirs : v.own[d] = d
    BY <1>1, <1>2, <1>3, WitnessIs DEF Recorded
  <2>2. ASSUME NEW c \in Cluster, NEW i \in Slot, Entry(dk, v, c, i)
        PROVE  /\ dk[c][i].kind = "dir" <=> dk[c][i].first \in v.dirs
               /\ dk[c][i].kind = "dir" => dk[c][i].name \notin Written
               /\ dk[c][i].first # NONE =>
                    v.own[dk[c][i].first] = dk[c][i].first /\ dk[c][i].first # root
    <3>1. Entry(dk, w, c, i)
      BY <1>6, <2>2
    <3>2. dk[c][i].first # h
      BY <3>1 DEF Unlisted
    <3>3. dk[c][i].first # NONE => w.own[dk[c][i].first] = dk[c][i].first /\ dk[c][i].first # root
      BY <1>1, <3>1 DEF Recorded
    <3>4. dk[c][i].first # NONE => v.own[dk[c][i].first] = dk[c][i].first
      BY <1>3, <3>1, <3>2, <3>3, LiveIs DEF Entry
    <3> QED
      BY <1>1, <1>3, <3>1, <3>3, <3>4 DEF Recorded
  <2>3. \A c, d \in Cluster, i, j \in Slot :
          /\ Entry(dk, v, c, i) /\ Entry(dk, v, d, j)
          /\ dk[c][i].first = dk[d][j].first /\ dk[c][i].first # NONE
          => c = d /\ i = j
    BY <1>1, <1>6 DEF Recorded
  <2> QED
    BY <2>1, <2>2, <2>3 DEF Recorded
<1>10. Known(t, s, v, NONE)
  BY <1>1, <1>3 DEF Known
<1>11. Going(t, s, v, g)
  <2>1. ASSUME NEW c \in g
        PROVE  /\ v.own[c] = NONE
               /\ t[c] \in Cluster => t[c] \in g
               /\ s[c] \in Cluster => s[c] \in g
    <3>1. c \in Cluster /\ w.own[c] = h
      BY <1>4, <2>1
    <3>2. s[c] = t[c]
      BY <1>1, <1>5, <3>1, Constants DEF Known
    <3>3. t[c] \in Cluster => w.own[t[c]] = h
      BY <1>1, <1>5, <3>1 DEF Chains
    <3> QED
      BY <1>3, <1>4, <3>1, <3>2, <3>3
  <2> QED
    BY <1>4, <2>1 DEF Going
<1>12. n = 0 => Sound(dk, v)
  <2>1. ASSUME Sound(dk, w) PROVE Sound(dk, v)
    <3>1. \A c, d \in Cluster : v.own[c] = v.own[d] /\ v.own[c] \in v.dirs => w.own[c] = w.own[d]
      BY <1>1, <1>3, Constants, WitnessIs
    <3>2. \A c, d \in Cluster, i, j \in Slot :
            /\ Entry(dk, v, c, i) /\ Entry(dk, v, d, j)
            /\ v.own[c] = v.own[d] /\ dk[c][i].name = dk[d][j].name
            => c = d /\ i = j
      BY <1>6, <2>1, <3>1 DEF Sound, Entry
    <3>3. \A c, b \in Cluster, i, j \in Slot :
            /\ Entry(dk, v, c, i) /\ v.own[b] = v.own[c] /\ Before(v, b, j, c, i)
            => dk[b][j] # END
      BY <1>3, <1>6, <2>1, <3>1 DEF Sound, Entry, Before
    <3> QED
      BY <3>2, <3>3 DEF Sound
  <2> QED
    BY <1>1, <2>1
<1>13. n = 0 => Dotted(dk, v)
  <2>1. \A c \in Cluster : v.own[c] \in v.dirs => v.own[c] = w.own[c]
    BY <1>1, <1>3, Constants, WitnessIs
  <2> QED
    BY <1>1, <1>6, <2>1 DEF Dotted, Entry
<1> QED
  BY <1>3, <1>7, <1>8, <1>10, <1>11, <1>12, <1>13 DEF Sane, v, g

\* The witness with c linked behind p, where that chain ends then, or as a chain of its own.
Grown(w, p, c) ==
  IF p = NONE
  THEN [own |-> [w.own EXCEPT ![c] = c], rank |-> [w.rank EXCEPT ![c] = 0], dirs |-> w.dirs]
  ELSE [own |-> [d \in Cluster |->
                   IF d = c THEN w.own[p]
                   ELSE IF w.own[d] = w.own[p] /\ w.rank[d] > w.rank[p] THEN NONE
                   ELSE w.own[d]],
        rank |-> [w.rank EXCEPT ![c] = w.rank[p] + 1], dirs |-> w.dirs]

\* If p is in a directory, there are no entries in c.
Clean(dk, w, p, c) == p # NONE /\ w.own[p] \in w.dirs => \A i \in Slot : ~ Live(dk[c][i])

\* c comes last in its chain, and what is not behind p stays where it is.
LEMMA GrownIs ==
  ASSUME NEW t, NEW w \in Witness, Chains(t, w), NEW c \in Cluster, w.own[c] = NONE,
         NEW p \in Cluster \cup {NONE}, p # NONE => w.own[p] # NONE
  PROVE  LET v == Grown(w, p, c)
         IN  /\ v \in Witness /\ v.dirs = w.dirs
             /\ v.own[c] = (IF p = NONE THEN c ELSE w.own[p])
             /\ v.rank[c] = (IF p = NONE THEN 0 ELSE w.rank[p] + 1)
             /\ \A d \in Cluster : d # c =>
                  /\ v.own[d] = w.own[d] \/ v.own[d] = NONE
                  /\ v.rank[d] = w.rank[d]
                  /\ v.own[d] # NONE /\ v.own[d] = v.own[c] =>
                       p # NONE /\ w.rank[d] <= w.rank[p]
                  /\ v.own[d] = NONE /\ w.own[d] # NONE =>
                       p # NONE /\ w.own[d] = w.own[p] /\ w.rank[d] > w.rank[p]
             /\ \A h \in Cluster : w.own[h] = h => v.own[h] = h
<1> DEFINE v == Grown(w, p, c)
<1>1. CASE p = NONE
  <2>1. v = [own |-> [w.own EXCEPT ![c] = c], rank |-> [w.rank EXCEPT ![c] = 0], dirs |-> w.dirs]
    BY <1>1 DEF Grown
  <2> HIDE DEF v
  <2>2. v \in Witness /\ v.dirs = w.dirs /\ v.own[c] = c /\ v.rank[c] = 0
        /\ \A d \in Cluster : d # c => v.own[d] = w.own[d] /\ v.rank[d] = w.rank[d]
    BY <2>1 DEF Witness
  <2>3. \A d \in Cluster : w.own[d] # c
    <3>1. ASSUME NEW d \in Cluster, w.own[d] = c PROVE FALSE
      <4>1. w.own[d] # NONE
        BY <3>1, Constants
      <4> QED
        BY <3>1, <4>1, Constants DEF Chains
    <3> QED
      BY <3>1
  <2> QED
    BY <1>1, <2>2, <2>3 DEF v
<1>2. CASE p # NONE
  <2> DEFINE o == [d \in Cluster |-> IF d = c THEN w.own[p]
                                     ELSE IF w.own[d] = w.own[p] /\ w.rank[d] > w.rank[p] THEN NONE
                                     ELSE w.own[d]]
             r == [w.rank EXCEPT ![c] = w.rank[p] + 1]
  <2>1. v = [own |-> o, rank |-> r, dirs |-> w.dirs]
    BY <1>2 DEF Grown
  <2>2. p \in Cluster /\ w.own[p] \in Cluster /\ w.rank[p] \in Nat /\ w.rank \in [Cluster -> Nat]
        /\ \A d \in Cluster : w.own[d] \in Cluster \cup {NONE} /\ w.rank[d] \in Nat
    BY <1>2, WitnessIs DEF Witness
  <2>3. o \in [Cluster -> Cluster \cup {NONE}] /\ r \in [Cluster -> Nat]
    BY <2>2
  <2>4. o[c] = w.own[p] /\ r[c] = w.rank[p] + 1
        /\ \A d \in Cluster : d # c =>
             /\ r[d] = w.rank[d]
             /\ o[d] = IF w.own[d] = w.own[p] /\ w.rank[d] > w.rank[p] THEN NONE ELSE w.own[d]
    BY <2>2
  <2> HIDE DEF v, o, r
  <2>5. v \in Witness /\ v.dirs = w.dirs /\ v.own = o /\ v.rank = r
    BY <2>1, <2>3 DEF Witness
  <2>6. \A d \in Cluster : d # c =>
          /\ v.own[d] = w.own[d] \/ v.own[d] = NONE
          /\ v.rank[d] = w.rank[d]
          /\ v.own[d] # NONE /\ v.own[d] = v.own[c] => w.rank[d] <= w.rank[p]
          /\ v.own[d] = NONE /\ w.own[d] # NONE => w.own[d] = w.own[p] /\ w.rank[d] > w.rank[p]
    BY <2>2, <2>4, <2>5
  <2>7. ASSUME NEW h \in Cluster, w.own[h] = h PROVE v.own[h] = h
    <3>1. w.rank[h] = 0 /\ h # c
      BY <2>7, Constants DEF Chains
    <3> QED
      BY <2>2, <2>4, <2>5, <2>7, <3>1
  <2> QED
    BY <1>2, <2>4, <2>5, <2>6, <2>7 DEF v
<1> QED
  BY <1>1, <1>2

\* A new cluster without entries does not change what a search finds, unless that is in a
\* part of the directory that is lost.
LEMMA GrownFirst ==
  ASSUME NEW t, NEW dk, NEW w \in Witness, Chains(t, w), NEW c \in Cluster, w.own[c] = NONE,
         NEW p \in Cluster \cup {NONE}, p # NONE => w.own[p] # NONE,
         Clean(dk, w, p, c), NEW d \in Cluster, d \in w.dirs, w.own[d] = d, NEW n, NEW b, NEW i
  PROVE  First(dk, Grown(w, p, c), d, n, b, i)
           <=> First(dk, w, d, n, b, i) /\ Grown(w, p, c).own[b] = d
<1> DEFINE v == Grown(w, p, c)
<1>1. /\ v \in Witness /\ v.dirs = w.dirs
      /\ v.own[c] = (IF p = NONE THEN c ELSE w.own[p])
      /\ v.rank[c] = (IF p = NONE THEN 0 ELSE w.rank[p] + 1)
      /\ \A e \in Cluster : e # c =>
           /\ v.own[e] = w.own[e] \/ v.own[e] = NONE
           /\ v.rank[e] = w.rank[e]
           /\ v.own[e] # NONE /\ v.own[e] = v.own[c] =>
                p # NONE /\ w.rank[e] <= w.rank[p]
           /\ v.own[e] = NONE /\ w.own[e] # NONE =>
                p # NONE /\ w.own[e] = w.own[p] /\ w.rank[e] > w.rank[p]
  BY GrownIs
<1>2. \A e \in Cluster : w.rank[e] \in Nat /\ w.own[e] \in Cluster \cup {NONE}
  BY WitnessIs
<1> HIDE DEF v
<1>3. d # NONE /\ d # c
  BY Constants
<1>4. ASSUME First(dk, v, d, n, b, i) PROVE First(dk, w, d, n, b, i) /\ v.own[b] = d
  <2>1. b \in Cluster /\ i \in Slot /\ v.own[b] = d /\ Is(dk[b][i], n)
    BY <1>4 DEF First
  <2>2. b # c /\ w.own[b] = d /\ v.rank[b] = w.rank[b]
    BY <1>1, <1>3, <2>1 DEF Is, Clean
  <2>3. ASSUME NEW e \in Cluster, NEW j \in Slot, w.own[e] = d, Before(w, e, j, b, i)
        PROVE  ~ Is(dk[e][j], n) /\ dk[e][j] # END
    <3>1. e # c
      BY <1>3, <2>3
    <3>2. w.rank[e] <= w.rank[b]
      BY <1>2, <2>1, <2>3 DEF Before
    <3>3. v.own[e] = d
      <4>1. ASSUME v.own[e] = NONE PROVE FALSE
        <5>1. p \in Cluster /\ w.own[e] = w.own[p] /\ w.rank[e] > w.rank[p]
          BY <1>1, <1>3, <2>3, <3>1, <4>1
        <5>2. v.own[c] = d
          BY <1>1, <2>3, <5>1, Constants
        <5>3. w.rank[b] <= w.rank[p]
          BY <1>1, <1>3, <2>1, <2>2, <5>2
        <5> QED
          BY <1>2, <2>1, <2>3, <3>2, <5>1, <5>3
      <4> QED
        BY <1>1, <2>3, <3>1, <4>1
    <3>4. Before(v, e, j, b, i)
      BY <1>1, <2>2, <2>3, <3>1 DEF Before
    <3> QED
      BY <1>4, <3>3, <3>4 DEF First
  <2> QED
    BY <2>1, <2>2, <2>3 DEF First
<1>5. ASSUME First(dk, w, d, n, b, i), v.own[b] = d PROVE First(dk, v, d, n, b, i)
  <2>1. b \in Cluster /\ i \in Slot /\ w.own[b] = d /\ Is(dk[b][i], n)
    BY <1>5 DEF First
  <2>2. b # c /\ v.rank[b] = w.rank[b]
    BY <1>1, <1>3, <2>1
  <2>3. ASSUME NEW e \in Cluster, NEW j \in Slot, v.own[e] = d, Before(v, e, j, b, i)
        PROVE  ~ Is(dk[e][j], n) /\ dk[e][j] # END
    <3>1. CASE e = c
      <4>1. p # NONE /\ w.rank[b] <= w.rank[p] /\ v.rank[c] = w.rank[p] + 1 /\ p \in Cluster
        BY <1>1, <1>3, <1>5, <2>1, <2>2, <2>3, <3>1
      <4>2. ~ Before(v, c, j, b, i)
        BY <1>2, <2>1, <2>2, <4>1 DEF Before
      <4> QED
        BY <2>3, <3>1, <4>2
    <3>2. CASE e # c
      <4>1. w.own[e] = d /\ Before(w, e, j, b, i)
        BY <1>1, <1>3, <2>2, <2>3, <3>2 DEF Before
      <4> QED
        BY <1>5, <2>3, <4>1 DEF First
    <3> QED
      BY <3>1, <3>2
  <2> QED
    BY <1>5, <2>1, <2>3 DEF First
<1> QED
  BY <1>4, <1>5 DEF v

\* The FAT is written: c is linked behind p.
LEMMA SaneCommit ==
  ASSUME NEW t, NEW s \in Table, NEW dk \in Disks, NEW w, NEW c \in Cluster,
         NEW p \in Cluster \cup {NONE},
         NEW n \in Nat, Sane(t, s, dk, w, p, {}, n), w.own[c] = NONE, s[c] = EOF,
         Clean(dk, w, p, c), p # NONE => w.own[p] # NONE /\ s[p] = c
  PROVE  Sane(s, s, dk, Grown(w, p, c), NONE, {}, n)
<1> DEFINE v == Grown(w, p, c)
<1>1. /\ w \in Witness /\ Chains(t, w) /\ Recorded(dk, w)
      /\ Known(t, s, w, p) /\ (n = 0 => Sound(dk, w) /\ Dotted(dk, w))
  BY DEF Sane
<1>2. /\ v \in Witness /\ v.dirs = w.dirs
      /\ v.own[c] = (IF p = NONE THEN c ELSE w.own[p])
      /\ v.rank[c] = (IF p = NONE THEN 0 ELSE w.rank[p] + 1)
      /\ \A d \in Cluster : d # c =>
           /\ v.own[d] = w.own[d] \/ v.own[d] = NONE
           /\ v.rank[d] = w.rank[d]
           /\ v.own[d] # NONE /\ v.own[d] = v.own[c] =>
                p # NONE /\ w.rank[d] <= w.rank[p]
           /\ v.own[d] = NONE /\ w.own[d] # NONE =>
                p # NONE /\ w.own[d] = w.own[p] /\ w.rank[d] > w.rank[p]
      /\ \A h \in Cluster : w.own[h] = h => v.own[h] = h
  BY <1>1, GrownIs
<1>3. \A d \in Cluster : w.rank[d] \in Nat /\ w.own[d] \in Cluster \cup {NONE}
  BY <1>1, WitnessIs
<1> HIDE DEF v
<1>4. \A d \in Cluster : d # c /\ v.own[d] # NONE => v.own[d] = w.own[d] /\ w.own[d] # NONE
  BY <1>2
<1>5. \A d \in Cluster : d # c /\ d # p /\ v.own[d] # NONE => s[d] = t[d]
  BY <1>1, <1>4 DEF Known
<1>6. \A d \in Cluster : w.own[d] # c
  BY <1>1, Constants DEF Chains
<1>7. p # NONE => v.own[p] = w.own[p] /\ v.rank[p] = w.rank[p] /\ p # c
  BY <1>2, <1>3
<1>8. Chains(s, v)
  <2>1. ASSUME NEW d \in Cluster, v.own[d] # NONE, d # c
        PROVE  /\ s[d] # FREE
               /\ v.own[v.own[d]] = v.own[d] /\ v.rank[v.own[d]] = 0
               /\ s[d] \in Cluster => v.own[s[d]] = v.own[d] /\ v.rank[s[d]] = v.rank[d] + 1
               /\ d # v.own[d] => \E q \in Cluster : v.own[q] = v.own[d] /\ s[q] = d
               /\ \A e \in Cluster : v.own[e] = v.own[d] /\ v.rank[e] = v.rank[d] => e = d
    <3>1. v.own[d] = w.own[d] /\ w.own[d] \in Cluster /\ v.rank[d] = w.rank[d]
      BY <1>2, <1>3, <1>4, <2>1
    <3>2. /\ t[d] # FREE /\ w.own[w.own[d]] = w.own[d] /\ w.rank[w.own[d]] = 0
          /\ t[d] \in Cluster => w.own[t[d]] = w.own[d] /\ w.rank[t[d]] = w.rank[d] + 1
          /\ d # w.own[d] => \E q \in Cluster : w.own[q] = w.own[d] /\ t[q] = d
          /\ \A e \in Cluster : w.own[e] = w.own[d] /\ w.rank[e] = w.rank[d] => e = d
      BY <1>1, <2>1, <3>1 DEF Chains
    <3>3. s[d] # FREE
      BY <1>5, <2>1, <3>2, Constants
    <3>4. v.own[v.own[d]] = v.own[d] /\ v.rank[v.own[d]] = 0
      BY <1>2, <1>6, <3>1, <3>2
    <3>5. s[d] \in Cluster => v.own[s[d]] = v.own[d] /\ v.rank[s[d]] = v.rank[d] + 1
      <4>1. CASE d = p
        BY <1>2, <1>7, <2>1, <4>1, Constants
      <4>2. CASE d # p /\ s[d] \in Cluster
        <5>1. s[d] = t[d] /\ w.own[t[d]] = w.own[d] /\ w.rank[t[d]] = w.rank[d] + 1 /\ t[d] # c
          BY <1>5, <2>1, <3>1, <3>2, <4>2, Constants
        <5>2. ASSUME v.own[t[d]] = NONE PROVE FALSE
          <6>1. p \in Cluster /\ w.own[d] = w.own[p] /\ w.rank[d] + 1 > w.rank[p]
            BY <1>2, <3>1, <4>2, <5>1, <5>2, Constants
          <6>2. v.own[c] = w.own[d] /\ v.own[d] = v.own[c]
            BY <1>2, <3>1, <6>1, Constants
          <6>3. w.rank[d] <= w.rank[p]
            BY <1>2, <2>1, <3>1, <6>2, Constants
          <6>4. w.rank[d] = w.rank[p]
            BY <1>3, <6>1, <6>3
          <6> QED
            BY <3>2, <4>2, <6>1, <6>4
        <5> QED
          BY <1>2, <3>1, <4>2, <5>1, <5>2
      <4> QED
        BY <4>1, <4>2
    <3>6. d # v.own[d] => \E q \in Cluster : v.own[q] = v.own[d] /\ s[q] = d
      <4>1. SUFFICES ASSUME d # w.own[d] PROVE \E q \in Cluster : v.own[q] = w.own[d] /\ s[q] = d
        BY <3>1
      <4>2. PICK q \in Cluster : w.own[q] = w.own[d] /\ t[q] = d
        BY <3>2, <4>1
      <4>3. w.rank[d] = w.rank[q] + 1 /\ q # c
        BY <1>1, <3>1, <4>2, Constants DEF Chains
      <4>4. v.own[q] = w.own[d] /\ q # p
        <5>1. ASSUME p \in Cluster, w.own[q] = w.own[p], w.rank[q] >= w.rank[p] PROVE FALSE
          <6>1. v.own[d] = v.own[c]
            BY <1>2, <3>1, <4>2, <5>1, Constants
          <6> QED
            BY <1>2, <1>3, <2>1, <3>1, <4>3, <5>1, <6>1, Constants
        <5>2. q # p
          BY <1>3, <4>2, <5>1
        <5>3. v.own[q] # NONE
          <6>1. ASSUME v.own[q] = NONE PROVE FALSE
            <7>1. p \in Cluster /\ w.own[q] = w.own[p] /\ w.rank[q] > w.rank[p]
              BY <1>2, <3>1, <4>2, <4>3, <6>1, Constants
            <7> QED
              BY <1>3, <5>1, <7>1
          <6> QED
            BY <6>1
        <5> QED
          BY <1>2, <4>2, <4>3, <5>2, <5>3
      <4>5. s[q] = t[q]
        BY <1>5, <3>1, <4>3, <4>4, Constants
      <4> QED
        BY <4>2, <4>4, <4>5
    <3>7. ASSUME NEW e \in Cluster, v.own[e] = v.own[d], v.rank[e] = v.rank[d] PROVE e = d
      <4>1. CASE e = c
        <5>1. p # NONE /\ w.rank[d] <= w.rank[p] /\ v.rank[c] = w.rank[p] + 1 /\ p \in Cluster
          BY <1>2, <2>1, <3>7, <4>1
        <5> QED
          BY <1>3, <3>1, <3>7, <4>1, <5>1
      <4>2. CASE e # c
        BY <1>2, <1>4, <2>1, <3>1, <3>2, <3>7, <4>2
      <4> QED
        BY <4>1, <4>2
    <3> QED
      BY <3>3, <3>4, <3>5, <3>6, <3>7
  <2>2. /\ s[c] # FREE
        /\ v.own[v.own[c]] = v.own[c] /\ v.rank[v.own[c]] = 0
        /\ s[c] \in Cluster => v.own[s[c]] = v.own[c] /\ v.rank[s[c]] = v.rank[c] + 1
        /\ c # v.own[c] => \E q \in Cluster : v.own[q] = v.own[c] /\ s[q] = c
        /\ \A e \in Cluster : v.own[e] = v.own[c] /\ v.rank[e] = v.rank[c] => e = c
    <3>1. s[c] # FREE /\ s[c] \notin Cluster
      BY Constants
    <3>2. CASE p = NONE
      <4>1. \A e \in Cluster : v.own[e] = c => e = c
        BY <1>2, <1>6, <3>2, Constants
      <4> QED
        BY <1>2, <3>1, <3>2, <4>1
    <3>3. CASE p # NONE
      <4>1. p \in Cluster /\ v.own[c] = w.own[p] /\ w.own[p] \in Cluster /\ w.own[p] # c
        BY <1>2, <1>3, <1>6, <3>3
      <4>2. v.own[w.own[p]] = w.own[p] /\ v.rank[w.own[p]] = 0
        BY <1>1, <1>2, <3>3, <4>1 DEF Chains
      <4>3. v.own[p] = v.own[c] /\ s[p] = c
        BY <1>7, <3>3, <4>1
      <4>4. \A e \in Cluster : v.own[e] = v.own[c] /\ v.rank[e] = v.rank[c] => e = c
        <5>1. ASSUME NEW e \in Cluster, e # c, v.own[e] = v.own[c], v.rank[e] = v.rank[c] PROVE FALSE
          <6>1. w.rank[e] <= w.rank[p] /\ v.rank[e] = w.rank[e] /\ v.rank[c] = w.rank[p] + 1
            BY <1>2, <3>3, <4>1, <5>1, Constants
          <6>2. w.rank[e] \in Nat /\ w.rank[p] \in Nat
            BY <1>3, <4>1
          <6>3. w.rank[e] = w.rank[p] + 1
            BY <5>1, <6>1
          <6> QED
            BY ONLY <6>1, <6>2, <6>3
        <5> QED
          BY <5>1
      <4> QED
        BY <3>1, <4>1, <4>2, <4>3, <4>4
    <3> QED
      BY <3>2, <3>3
  <2> QED
    BY <2>1, <2>2 DEF Chains
<1>9. \A b \in Cluster, i \in Slot : Entry(dk, v, b, i) =>
        Entry(dk, w, b, i) /\ b # c /\ v.own[b] = w.own[b] /\ v.rank[b] = w.rank[b]
        /\ v.own[b] # NONE
  <2>1. NONE \notin w.dirs /\ c \notin w.dirs
    BY <1>1, Constants, WitnessIs DEF Recorded
  <2>2. \A i \in Slot : ~ Entry(dk, v, c, i)
    BY <1>2, <2>1 DEF Entry, Clean
  <2> QED
    BY <1>2, <2>1, <2>2 DEF Entry
<1>10. Recorded(dk, v)
  <2>1. root \in v.dirs /\ \A d \in v.dirs : v.own[d] = d
    BY <1>1, <1>2, WitnessIs DEF Recorded
  <2>2. ASSUME NEW b \in Cluster, NEW i \in Slot, Entry(dk, v, b, i)
        PROVE  /\ dk[b][i].kind = "dir" <=> dk[b][i].first \in v.dirs
               /\ dk[b][i].kind = "dir" => dk[b][i].name \notin Written
               /\ dk[b][i].first # NONE =>
                    v.own[dk[b][i].first] = dk[b][i].first /\ dk[b][i].first # root
    <3>1. Entry(dk, w, b, i) /\ dk[b][i].first \in Cluster \cup {NONE}
      BY <1>9, <2>2, LiveIs DEF Entry
    <3> QED
      BY <1>1, <1>2, <3>1 DEF Recorded
  <2>3. \A b, d \in Cluster, i, j \in Slot :
          /\ Entry(dk, v, b, i) /\ Entry(dk, v, d, j)
          /\ dk[b][i].first = dk[d][j].first /\ dk[b][i].first # NONE
          => b = d /\ i = j
    BY <1>1, <1>9 DEF Recorded
  <2> QED
    BY <2>1, <2>2, <2>3 DEF Recorded
<1>12. Known(s, s, v, NONE) /\ Going(s, s, v, {})
  BY DEF Known, Going
<1>13. ASSUME Sound(dk, w) PROVE Sound(dk, v)
  <2>1. \A b, d \in Cluster, i, j \in Slot :
          /\ Entry(dk, v, b, i) /\ Entry(dk, v, d, j)
          /\ v.own[b] = v.own[d] /\ dk[b][i].name = dk[d][j].name
          => b = d /\ i = j
    BY <1>9, <1>13 DEF Sound
  <2>2. ASSUME NEW b \in Cluster, NEW d \in Cluster, NEW i \in Slot, NEW j \in Slot,
               Entry(dk, v, b, i), v.own[d] = v.own[b], Before(v, d, j, b, i)
        PROVE  dk[d][j] # END
    <3>1. Entry(dk, w, b, i) /\ b # c /\ v.own[b] = w.own[b] /\ v.rank[b] = w.rank[b]
          /\ v.own[b] # NONE
      BY <1>9, <2>2
    <3>2. d # c
      <4>1. ASSUME d = c PROVE FALSE
        <5>1. p # NONE /\ w.rank[b] <= w.rank[p] /\ v.rank[c] = w.rank[p] + 1 /\ p \in Cluster
          BY <1>2, <2>2, <3>1, <4>1
        <5> QED
          BY <1>3, <2>2, <3>1, <4>1, <5>1 DEF Before
      <4> QED
        BY <4>1
    <3>3. w.own[d] = w.own[b] /\ Before(w, d, j, b, i)
      BY <1>2, <2>2, <3>1, <3>2 DEF Before
    <3> QED
      BY <1>13, <3>1, <3>3 DEF Sound
  <2> QED
    BY <2>1, <2>2 DEF Sound
<1>14. ASSUME Dotted(dk, w) PROVE Dotted(dk, v)
  BY <1>9, <1>14 DEF Dotted
<1> QED
  BY <1>1, <1>2, <1>8, <1>10, <1>12, <1>13, <1>14 DEF Sane, v

------------------------------------------------------------------------------
(* How they survive what is written to the clusters. *)

\* Only cluster c is different.
Differs(dk, dk2, c) == dk2 \in Disks /\ \A b \in Cluster \ {c} : dk2[b] = dk[b]

\* A cluster is written that is not in a directory, or is the last there, not the first and
\* without entries.
Vacant(dk, w, c) ==
  w.own[c] \in w.dirs =>
    /\ \A i \in Slot : ~ Live(dk[c][i])
    /\ c # w.own[c] /\ \A b \in Cluster : w.own[b] = w.own[c] => w.rank[b] <= w.rank[c]

LEMMA VacantFirst ==
  ASSUME NEW dk, NEW dk2, NEW w \in Witness, NEW c \in Cluster, Differs(dk, dk2, c),
         Vacant(dk, w, c), Vacant(dk2, w, c), NEW d \in w.dirs, NEW n, NEW b, NEW i
  PROVE  First(dk2, w, d, n, b, i) <=> First(dk, w, d, n, b, i)
<1>1. \A a \in Cluster, j \in Slot : a # c => dk2[a][j] = dk[a][j]
  BY DEF Differs
<1>2. w.own[c] = d => \A j \in Slot : ~ Is(dk[c][j], n) /\ ~ Is(dk2[c][j], n)
  BY DEF Vacant, Is
<1>3. \A a \in Cluster, k \in Slot, j \in Slot :
        w.own[c] = d /\ w.own[a] = d /\ a # c => ~ Before(w, c, k, a, j)
  BY WitnessIs DEF Before, Vacant
<1>4. ASSUME First(dk2, w, d, n, b, i) PROVE First(dk, w, d, n, b, i)
  <2>1. b \in Cluster /\ i \in Slot /\ w.own[b] = d /\ b # c /\ Is(dk[b][i], n)
    BY <1>1, <1>2, <1>4 DEF First
  <2>2. ASSUME NEW a \in Cluster, NEW j \in Slot, w.own[a] = d, Before(w, a, j, b, i)
        PROVE  ~ Is(dk[a][j], n) /\ dk[a][j] # END
    <3>1. a # c
      BY <1>3, <2>1, <2>2
    <3> QED
      BY <1>1, <1>4, <2>2, <3>1 DEF First
  <2> QED
    BY <2>1, <2>2 DEF First
<1>5. ASSUME First(dk, w, d, n, b, i) PROVE First(dk2, w, d, n, b, i)
  <2>1. b \in Cluster /\ i \in Slot /\ w.own[b] = d /\ b # c /\ Is(dk2[b][i], n)
    BY <1>1, <1>2, <1>5 DEF First
  <2>2. ASSUME NEW a \in Cluster, NEW j \in Slot, w.own[a] = d, Before(w, a, j, b, i)
        PROVE  ~ Is(dk2[a][j], n) /\ dk2[a][j] # END
    <3>1. a # c
      BY <1>3, <2>1, <2>2
    <3> QED
      BY <1>1, <1>5, <2>2, <3>1 DEF First
  <2> QED
    BY <2>1, <2>2 DEF First
<1> QED
  BY <1>4, <1>5

\* No search and no entry is affected.
LEMMA SaneVacant ==
  ASSUME NEW t, NEW s, NEW dk \in Disks, NEW w, NEW x, NEW going, NEW n \in Nat,
         Sane(t, s, dk, w, x, going, n), NEW c \in Cluster, NEW dk2, Differs(dk, dk2, c),
         Vacant(dk, w, c), Vacant(dk2, w, c)
  PROVE  /\ Sane(t, s, dk2, w, x, going, n)
         /\ \A b \in Cluster, i \in Slot :
              Entry(dk2, w, b, i) <=> Entry(dk, w, b, i) /\ b # c
         /\ \A b \in Cluster, i \in Slot : Entry(dk, w, b, i) => b # c /\ dk2[b][i] = dk[b][i]
<1>1. /\ w \in Witness /\ Chains(t, w) /\ Recorded(dk, w)
      /\ Known(t, s, w, x) /\ Going(t, s, w, going) /\ (n = 0 => Sound(dk, w) /\ Dotted(dk, w))
  BY DEF Sane
<1>2. \A a \in Cluster, j \in Slot : a # c => dk2[a][j] = dk[a][j]
  BY DEF Differs
<1>3. w.own[c] \in w.dirs => \A j \in Slot : ~ Live(dk[c][j]) /\ ~ Live(dk2[c][j])
  BY DEF Vacant
<1>4. \A b \in Cluster, i \in Slot :
        /\ Entry(dk2, w, b, i) <=> Entry(dk, w, b, i) /\ b # c
        /\ Entry(dk, w, b, i) => b # c /\ dk2[b][i] = dk[b][i]
  BY <1>2, <1>3 DEF Entry
<1>5. Recorded(dk2, w)
  BY <1>1, <1>4 DEF Recorded
<1>7. ASSUME Sound(dk, w) PROVE Sound(dk2, w)
  <2>1. \A a, b \in Cluster, i, j \in Slot :
          /\ Entry(dk2, w, a, i) /\ Entry(dk2, w, b, j)
          /\ w.own[a] = w.own[b] /\ dk2[a][i].name = dk2[b][j].name
          => a = b /\ i = j
    BY <1>4, <1>7 DEF Sound
  <2>2. ASSUME NEW a \in Cluster, NEW b \in Cluster, NEW i \in Slot, NEW j \in Slot,
               Entry(dk2, w, a, i), w.own[b] = w.own[a], Before(w, b, j, a, i)
        PROVE  dk2[b][j] # END
    <3>1. Entry(dk, w, a, i) /\ a # c /\ w.own[a] \in w.dirs
      BY <1>4, <2>2 DEF Entry
    <3>2. b # c
      BY <1>1, <2>2, <3>1, WitnessIs DEF Before, Vacant
    <3> QED
      BY <1>2, <1>7, <2>2, <3>1, <3>2 DEF Sound
  <2> QED
    BY <2>1, <2>2 DEF Sound
<1>8. ASSUME Dotted(dk, w) PROVE Dotted(dk2, w)
  <2>1. ASSUME NEW b \in Cluster, NEW i \in Slot, Entry(dk2, w, b, i), dk2[b][i].kind = "dir"
        PROVE  DotsOf(dk2, dk2[b][i].first, w.own[b])
    <3>1. Entry(dk, w, b, i) /\ dk2[b][i] = dk[b][i]
      BY <1>4, <2>1
    <3>2. dk[b][i].first \in w.dirs /\ DotsOf(dk, dk[b][i].first, w.own[b])
      BY <1>1, <1>8, <2>1, <3>1 DEF Recorded, Dotted
    <3>3. dk[b][i].first \in Cluster /\ w.own[dk[b][i].first] = dk[b][i].first
      BY <1>1, <3>2, WitnessIs DEF Recorded
    <3>4. dk[b][i].first # c
      BY <3>2, <3>3 DEF Vacant
    <3>5. dk2[dk[b][i].first] = dk[dk[b][i].first]
      BY <3>3, <3>4 DEF Differs
    <3> QED
      BY <3>1, <3>2, <3>5 DEF DotsOf
  <2> QED
    BY <2>1 DEF Dotted
<1> QED
  BY <1>1, <1>4, <1>5, <1>7, <1>8 DEF Sane

\* A directory's first two units are not in use.
LEMMA DotsStay ==
  ASSUME NEW dk \in Disks, NEW dk2 \in Disks, NEW f \in Cluster, NEW d, DotsOf(dk, f, d),
         \A i \in Slot : dk2[f][i] = dk[f][i] \/ Live(dk[f][i]) \/ dk[f][i] \in {END, DELETED}
                         \/ \E j \in Slot : j = i - 1 /\ dk[f][j] = END
  PROVE  DotsOf(dk2, f, d)
<1>1. dk[f][1] = Dot(f) /\ dk[f][2] = Dot(d) /\ 1 \in Slot /\ 2 \in Slot /\ 0 \notin Slot
  BY Constants DEF DotsOf
<1>2. ~ Live(dk[f][1]) /\ dk[f][1] \notin {END, DELETED} /\ ~ Live(dk[f][2])
      /\ dk[f][2] \notin {END, DELETED}
  BY <1>1, UnitsAre
<1>3. dk2[f][1] = dk[f][1]
  BY <1>1, <1>2
<1>4. dk2[f][2] = dk[f][2]
  BY <1>1, <1>2
<1> QED
  BY <1>1, <1>3, <1>4 DEF DotsOf

\* An entry is marked as deleted.
LEMMA SaneMark ==
  ASSUME NEW t, NEW s, NEW dk \in Disks, NEW w, NEW x, NEW going, NEW n \in Nat,
         Sane(t, s, dk, w, x, going, n), NEW c \in Cluster, NEW i \in Slot,
         Live(dk[c][i]), NEW dk2, Differs(dk, dk2, c),
         \A j \in Slot : dk2[c][j] = IF j = i THEN DELETED ELSE dk[c][j]
  PROVE  /\ Sane(t, s, dk2, w, x, going, n)
         /\ \A b \in Cluster, j \in Slot :
              Entry(dk2, w, b, j) => Entry(dk, w, b, j) /\ dk2[b][j] = dk[b][j] /\ ~ (b = c /\ i = j)
<1>1. /\ w \in Witness /\ Chains(t, w) /\ Recorded(dk, w)
      /\ Known(t, s, w, x) /\ Going(t, s, w, going) /\ (n = 0 => Sound(dk, w) /\ Dotted(dk, w))
  BY DEF Sane
<1>2. \A b \in Cluster, j \in Slot :
        \/ dk2[b][j] = dk[b][j] /\ ~ (b = c /\ j = i)
        \/ dk2[b][j] = DELETED /\ b = c /\ j = i
  BY DEF Differs
<1>3. ~ Live(DELETED) /\ DELETED # END
  BY UnitsAre
<1>4. \A b \in Cluster, j \in Slot :
        Entry(dk2, w, b, j) => Entry(dk, w, b, j) /\ dk2[b][j] = dk[b][j] /\ ~ (b = c /\ i = j)
  BY <1>2, <1>3 DEF Entry
<1>5. Recorded(dk2, w)
  BY <1>1, <1>4 DEF Recorded
<1>7. ASSUME Sound(dk, w) PROVE Sound(dk2, w)
  <2>1. \A a, b \in Cluster, j, k \in Slot :
          /\ Entry(dk2, w, a, j) /\ Entry(dk2, w, b, k)
          /\ w.own[a] = w.own[b] /\ dk2[a][j].name = dk2[b][k].name
          => a = b /\ j = k
    BY <1>4, <1>7 DEF Sound
  <2>2. \A a, b \in Cluster, j, k \in Slot :
          /\ Entry(dk2, w, a, j) /\ w.own[b] = w.own[a] /\ Before(w, b, k, a, j)
          => dk2[b][k] # END
    BY <1>2, <1>3, <1>4, <1>7 DEF Sound
  <2> QED
    BY <2>1, <2>2 DEF Sound
<1>8. ASSUME Dotted(dk, w) PROVE Dotted(dk2, w)
  <2>1. ASSUME NEW b \in Cluster, NEW j \in Slot, Entry(dk2, w, b, j), dk2[b][j].kind = "dir"
        PROVE  DotsOf(dk2, dk2[b][j].first, w.own[b])
    <3>1. Entry(dk, w, b, j) /\ dk2[b][j] = dk[b][j]
      BY <1>4, <2>1
    <3>2. dk[b][j].first \in Cluster /\ DotsOf(dk, dk[b][j].first, w.own[b])
      BY <1>1, <1>8, <2>1, <3>1, WitnessIs DEF Recorded, Dotted
    <3>3. dk2 \in Disks /\ \A k \in Slot : dk2[dk[b][j].first][k] = dk[dk[b][j].first][k]
            \/ Live(dk[dk[b][j].first][k])
      BY <1>2, <3>2 DEF Differs
    <3> QED
      BY <3>1, <3>2, <3>3, DotsStay
  <2> QED
    BY <2>1 DEF Dotted
<1> QED
  BY <1>1, <1>4, <1>5, <1>7, <1>8 DEF Sane

\* The entry of a file is given the first cluster f, which no other entry has.
LEMMA SaneLink ==
  ASSUME NEW t, NEW s, NEW dk \in Disks, NEW w, NEW x, NEW going, NEW n \in Nat,
         Sane(t, s, dk, w, x, going, n), NEW c \in Cluster, w.own[c] \in w.dirs, NEW i \in Slot,
         Live(dk[c][i]), dk[c][i].kind = "file", NEW dk2, Differs(dk, dk2, c),
         \A j \in Slot : j # i => dk2[c][j] = dk[c][j],
         dk2[c][i].kind = "file", dk2[c][i].name = dk[c][i].name,
         NEW f \in Cluster \cup {NONE}, dk2[c][i].first = f,
         f # NONE => w.own[f] = f /\ f \notin w.dirs,
         f # NONE => \A b \in Cluster, j \in Slot :
                       Entry(dk, w, b, j) /\ dk[b][j].first = f => b = c /\ j = i
  PROVE  /\ Sane(t, s, dk2, w, x, going, n)
         /\ \A b \in Cluster, j \in Slot : Entry(dk2, w, b, j) <=> Entry(dk, w, b, j)
         /\ \A d, m, b, j : First(dk2, w, d, m, b, j) <=> First(dk, w, d, m, b, j)
<1>1. /\ w \in Witness /\ Chains(t, w) /\ Recorded(dk, w)
      /\ Known(t, s, w, x) /\ Going(t, s, w, going) /\ (n = 0 => Sound(dk, w) /\ Dotted(dk, w))
  BY DEF Sane
<1>2. \A b \in Cluster, j \in Slot : ~ (b = c /\ j = i) => dk2[b][j] = dk[b][j]
  BY DEF Differs
<1>3. Live(dk2[c][i]) /\ dk2[c][i] # END /\ dk[c][i] # END
  BY UnitsAre DEF Live
<1>4. \A b \in Cluster, j \in Slot :
        /\ Live(dk2[b][j]) <=> Live(dk[b][j])
        /\ Live(dk[b][j]) => dk2[b][j].name = dk[b][j].name /\ dk2[b][j].kind = dk[b][j].kind
        /\ dk2[b][j] = END <=> dk[b][j] = END
        /\ \A m : Is(dk2[b][j], m) <=> Is(dk[b][j], m)
  BY <1>2, <1>3 DEF Is
<1>5. \A b \in Cluster, j \in Slot : Entry(dk2, w, b, j) <=> Entry(dk, w, b, j)
  BY <1>4 DEF Entry
<1>6. Entry(dk, w, c, i) /\ f \notin w.dirs /\ f # root
  BY <1>1, WitnessIs, Constants DEF Entry, Recorded
<1>7. Recorded(dk2, w)
  <2>1. ASSUME NEW b \in Cluster, NEW j \in Slot, Entry(dk2, w, b, j)
        PROVE  /\ dk2[b][j].kind = "dir" <=> dk2[b][j].first \in w.dirs
               /\ dk2[b][j].kind = "dir" => dk2[b][j].name \notin Written
               /\ dk2[b][j].first # NONE =>
                    w.own[dk2[b][j].first] = dk2[b][j].first /\ dk2[b][j].first # root
    <3>1. CASE b = c /\ j = i
      BY <1>6, <3>1
    <3>2. CASE ~ (b = c /\ j = i)
      BY <1>1, <1>2, <1>5, <2>1, <3>2 DEF Recorded
    <3> QED
      BY <3>1, <3>2
  <2>2. ASSUME NEW a \in Cluster, NEW b \in Cluster, NEW j \in Slot, NEW k \in Slot,
               Entry(dk2, w, a, j), Entry(dk2, w, b, k),
               dk2[a][j].first = dk2[b][k].first, dk2[a][j].first # NONE
        PROVE  a = b /\ j = k
    <3>1. Entry(dk, w, a, j) /\ Entry(dk, w, b, k)
      BY <1>5, <2>2
    <3>2. CASE a = c /\ j = i /\ ~ (b = c /\ k = i)
      <4>1. dk[b][k].first = f /\ f # NONE
        BY <1>2, <2>2, <3>2
      <4> QED
        BY <3>1, <3>2, <4>1
    <3>3. CASE b = c /\ k = i /\ ~ (a = c /\ j = i)
      <4>1. dk[a][j].first = f /\ f # NONE
        BY <1>2, <2>2, <3>3
      <4> QED
        BY <3>1, <3>3, <4>1
    <3>4. CASE ~ (a = c /\ j = i) /\ ~ (b = c /\ k = i)
      BY <1>1, <1>2, <2>2, <3>1, <3>4 DEF Recorded
    <3> QED
      BY <3>2, <3>3, <3>4
  <2> QED
    BY <1>1, <2>1, <2>2 DEF Recorded
<1>9. ASSUME Sound(dk, w) PROVE Sound(dk2, w)
  <2>1. \A a, b \in Cluster, j, k \in Slot :
          /\ Entry(dk2, w, a, j) /\ Entry(dk2, w, b, k)
          /\ w.own[a] = w.own[b] /\ dk2[a][j].name = dk2[b][k].name
          => a = b /\ j = k
    <3>1. \A b \in Cluster, j \in Slot : Entry(dk2, w, b, j) =>
            Entry(dk, w, b, j) /\ dk2[b][j].name = dk[b][j].name
      BY <1>4, <1>5 DEF Entry
    <3> QED
      BY <1>9, <3>1 DEF Sound
  <2>2. \A a, b \in Cluster, j, k \in Slot :
          /\ Entry(dk2, w, a, j) /\ w.own[b] = w.own[a] /\ Before(w, b, k, a, j)
          => dk2[b][k] # END
    BY <1>4, <1>5, <1>9 DEF Sound
  <2> QED
    BY <2>1, <2>2 DEF Sound
<1>10. ASSUME Dotted(dk, w) PROVE Dotted(dk2, w)
  <2>1. ASSUME NEW b \in Cluster, NEW j \in Slot, Entry(dk2, w, b, j), dk2[b][j].kind = "dir"
        PROVE  DotsOf(dk2, dk2[b][j].first, w.own[b])
    <3>1. Entry(dk, w, b, j) /\ dk2[b][j] = dk[b][j]
      BY <1>2, <1>5, <2>1
    <3>2. dk[b][j].first \in Cluster /\ DotsOf(dk, dk[b][j].first, w.own[b])
      BY <1>1, <1>10, <2>1, <3>1, WitnessIs DEF Recorded, Dotted
    <3>3. dk2 \in Disks /\ \A k \in Slot : dk2[dk[b][j].first][k] = dk[dk[b][j].first][k]
            \/ Live(dk[dk[b][j].first][k])
      BY <1>2, <3>2 DEF Differs
    <3> QED
      BY <3>1, <3>2, <3>3, DotsStay
  <2> QED
    BY <2>1 DEF Dotted
<1>11. \A d, m, b, j : First(dk2, w, d, m, b, j) <=> First(dk, w, d, m, b, j)
  <2>1. ASSUME NEW d, NEW m, NEW b, NEW j
        PROVE  First(dk2, w, d, m, b, j) <=> First(dk, w, d, m, b, j)
    <3>1. \A a \in Cluster, k \in Slot :
            ~ Is(dk2[a][k], m) /\ dk2[a][k] # END <=> ~ Is(dk[a][k], m) /\ dk[a][k] # END
      BY <1>4
    <3>2. b \in Cluster /\ j \in Slot => (Is(dk2[b][j], m) <=> Is(dk[b][j], m))
      BY <1>4
    <3> QED
      BY ONLY <3>1, <3>2 DEF First
  <2> QED
    BY <2>1
<1> QED
  BY <1>1, <1>5, <1>7, <1>9, <1>10, <1>11 DEF Sane

\* The witness with h as the first cluster of a directory, if e is one's entry.
Listing(w, e) ==
  [own |-> w.own, rank |-> w.rank,
   dirs |-> IF e.kind = "dir" THEN w.dirs \cup {e.first} ELSE w.dirs]

\* The entry e may be put into slot i of c, where the end mark or a deleted entry is.
Fits(dk, w, n, c, d, i, e) ==
  /\ w.own[c] = d /\ d \in w.dirs
  /\ dk[c][i] \in {END, DELETED} /\ \A j \in 1 .. i - 1 : dk[c][j] \notin {END, DELETED}
  /\ Live(e)
  /\ e.kind = "dir" => /\ e.first \in Cluster /\ Unlisted(dk, w, e.first) /\ Blank(dk, w, e.first)
                      /\ e.name \notin Written
  /\ e.kind = "dir" /\ n = 0 => DotsOf(dk, e.first, d)
  /\ e.kind = "file" => e.first = NONE
  /\ n = 0 => NoFirst(dk, w, d, e.name) /\ NoEnd(dk, w, d, c)

Puts(dk, dk2, c, i, e) ==
  /\ Differs(dk, dk2, c)
  /\ \A j \in Slot : dk2[c][j] = IF j = i THEN e
                                 ELSE IF j = i + 1 /\ dk[c][i] = END THEN END
                                 ELSE dk[c][j]

\* The name n leads to no other unit than i of c.
OnlyFirst(dk, w, d, n, c, i) == \A b, j : First(dk, w, d, n, b, j) => b = c /\ j = i

\* An entry e is added to the directory d where the end mark or a deleted entry was.
LEMMA SaneAdd ==
  ASSUME NEW t, NEW s, NEW dk \in Disks, NEW w, NEW n \in Nat, Sane(t, s, dk, w, NONE, {}, n),
         NEW c \in Cluster, NEW d, NEW i \in Slot, NEW e \in Units, NEW dk2,
         Fits(dk, w, n, c, d, i, e), Puts(dk, dk2, c, i, e)
  PROVE  /\ Sane(t, s, dk2, Listing(w, e), NONE, {}, n)
         /\ NoFirst(dk, w, d, e.name) => OnlyFirst(dk2, Listing(w, e), d, e.name, c, i)
<1>0. /\ w.own[c] = d /\ d \in w.dirs
      /\ dk[c][i] \in {END, DELETED} /\ \A j \in 1 .. i - 1 : dk[c][j] \notin {END, DELETED}
      /\ Live(e)
      /\ e.kind = "dir" => /\ e.first \in Cluster /\ Unlisted(dk, w, e.first) /\ Blank(dk, w, e.first)
                         /\ e.name \notin Written
      /\ e.kind = "dir" /\ n = 0 => DotsOf(dk, e.first, d)
      /\ e.kind = "file" => e.first = NONE
      /\ n = 0 => NoFirst(dk, w, d, e.name) /\ NoEnd(dk, w, d, c)
      /\ Differs(dk, dk2, c)
      /\ \A j \in Slot : dk2[c][j] = IF j = i THEN e
                                     ELSE IF j = i + 1 /\ dk[c][i] = END THEN END
                                     ELSE dk[c][j]
  BY DEF Fits, Puts
<1> USE <1>0
<1> DEFINE v == Listing(w, e)
<1>1. /\ w \in Witness /\ Chains(t, w) /\ Recorded(dk, w)
      /\ Known(t, s, w, NONE) /\ (n = 0 => Sound(dk, w) /\ Dotted(dk, w))
  BY DEF Sane
<1>2. v \in Witness /\ v.own = w.own /\ v.rank = w.rank
      /\ v.dirs = (IF e.kind = "dir" THEN w.dirs \cup {e.first} ELSE w.dirs)
  BY <1>1 DEF Listing, Witness
<1> HIDE DEF v
<1>3. \A b \in Cluster, j \in Slot :
        \/ b = c /\ j = i
        \/ b = c /\ j = i + 1 /\ dk[c][i] = END /\ dk2[b][j] = END
        \/ dk2[b][j] = dk[b][j] /\ ~ (b = c /\ j = i) /\ ~ (b = c /\ j = i + 1 /\ dk[c][i] = END)
  BY DEF Differs
<1>4. dk2[c][i] = e /\ ~ Live(END) /\ ~ Live(DELETED) /\ e # END
  BY UnitsAre
<1>5. e.kind = "dir" => e.first \notin w.dirs /\ w.own[e.first] = e.first /\ e.first # NONE
  BY Constants DEF Unlisted
<1>6. \A b \in Cluster, j \in Slot : w.own[b] \notin w.dirs /\ w.own[b] \in v.dirs => ~ Live(dk[b][j])
  BY <1>2, <1>5 DEF Blank
<1>7. \A b \in Cluster, j \in Slot : Entry(dk2, v, b, j) =>
        \/ b = c /\ j = i
        \/ Entry(dk, w, b, j) /\ dk2[b][j] = dk[b][j]
           /\ ~ (b = c /\ j = i) /\ ~ (b = c /\ j = i + 1 /\ dk[c][i] = END)
  BY <1>2, <1>3, <1>4, <1>6 DEF Entry
<1>8. Recorded(dk2, v)
  <2>1. root \in v.dirs /\ \A h \in v.dirs : v.own[h] = h
    BY <1>1, <1>2, <1>5 DEF Recorded
  <2>2. ASSUME NEW b \in Cluster, NEW j \in Slot, Entry(dk2, v, b, j)
        PROVE  /\ dk2[b][j].kind = "dir" <=> dk2[b][j].first \in v.dirs
               /\ dk2[b][j].kind = "dir" => dk2[b][j].name \notin Written
               /\ dk2[b][j].first # NONE =>
                    v.own[dk2[b][j].first] = dk2[b][j].first /\ dk2[b][j].first # root
    <3>1. CASE b = c /\ j = i
      <4>1. e.kind \in {"file", "dir"}
        BY DEF Live
      <4>2. root # e.first
        BY <1>1, <1>5, <4>1, Constants DEF Recorded
      <4>3. NONE \notin w.dirs
        BY <1>1, WitnessIs, Constants
      <4> QED
        BY <1>2, <1>4, <1>5, <3>1, <4>1, <4>2, <4>3
    <3>2. CASE ~ (b = c /\ j = i)
      <4>1. Entry(dk, w, b, j) /\ dk2[b][j] = dk[b][j]
        BY <1>7, <2>2, <3>2
      <4>2. e.kind = "dir" => dk[b][j].first # e.first
        BY <4>1 DEF Unlisted
      <4> QED
        BY <1>1, <1>2, <4>1, <4>2 DEF Recorded
    <3> QED
      BY <3>1, <3>2
  <2>3. ASSUME NEW a \in Cluster, NEW b \in Cluster, NEW j \in Slot, NEW k \in Slot,
               Entry(dk2, v, a, j), Entry(dk2, v, b, k),
               dk2[a][j].first = dk2[b][k].first, dk2[a][j].first # NONE
        PROVE  a = b /\ j = k
    <3>0. e.first # NONE => e.kind = "dir"
      BY DEF Live
    <3>1. CASE a = c /\ j = i /\ ~ (b = c /\ k = i)
      <4>1. Entry(dk, w, b, k) /\ dk[b][k].first = e.first /\ e.first # NONE
        BY <1>4, <1>7, <2>3, <3>1
      <4> QED
        BY <3>0, <4>1 DEF Unlisted
    <3>2. CASE b = c /\ k = i /\ ~ (a = c /\ j = i)
      <4>1. Entry(dk, w, a, j) /\ dk[a][j].first = e.first /\ e.first # NONE
        BY <1>4, <1>7, <2>3, <3>2
      <4> QED
        BY <3>0, <4>1 DEF Unlisted
    <3>3. CASE ~ (a = c /\ j = i) /\ ~ (b = c /\ k = i)
      <4>1. Entry(dk, w, a, j) /\ Entry(dk, w, b, k) /\ dk2[a][j] = dk[a][j] /\ dk2[b][k] = dk[b][k]
        BY <1>7, <2>3, <3>3
      <4> QED
        BY <1>1, <2>3, <4>1 DEF Recorded
    <3> QED
      BY <3>1, <3>2, <3>3
  <2> QED
    BY <2>1, <2>2, <2>3 DEF Recorded
<1>10. Known(t, s, v, NONE) /\ Chains(t, v) /\ Going(t, s, v, {})
  BY <1>1, <1>2 DEF Known, Chains, Going
<1>11. ASSUME n = 0 PROVE Sound(dk2, v)
  <2>1. \A b \in Cluster, j \in Slot : Entry(dk, w, b, j) /\ w.own[b] = d => dk[b][j].name # e.name
    BY <1>1, <1>11, SoundFirst DEF NoFirst, Entry, Is
  <2>2. \A a, b \in Cluster, j, k \in Slot :
          /\ Entry(dk2, v, a, j) /\ Entry(dk2, v, b, k)
          /\ v.own[a] = v.own[b] /\ dk2[a][j].name = dk2[b][k].name
          => a = b /\ j = k
    BY <1>1, <1>2, <1>4, <1>7, <1>11, <2>1 DEF Sound
  <2>3. ASSUME NEW a \in Cluster, NEW b \in Cluster, NEW j \in Slot, NEW k \in Slot,
               Entry(dk2, v, a, j), v.own[b] = v.own[a], Before(v, b, k, a, j)
        PROVE  dk2[b][k] # END
    <3>0. w.own[b] = w.own[a] /\ Before(w, b, k, a, j) /\ i \in Nat /\ j \in Nat /\ k \in Nat
          /\ w.rank[a] \in Nat /\ w.rank[b] \in Nat
      BY <1>1, <1>2, <2>3, Constants, WitnessIs DEF Before
    <3>1. CASE a = c /\ j = i
      <4>1. CASE b = c
        <5>1. k < i
          BY <3>0, <3>1, <4>1 DEF Before
        <5>2. k \in 1 .. i - 1 /\ k # i /\ k # i + 1
          BY <3>0, <5>1 DEF Slot
        <5> QED
          BY <4>1, <5>2
      <4>2. CASE b # c
        <5>1. w.rank[b] < w.rank[c] /\ dk2[b][k] = dk[b][k]
          BY <3>0, <3>1, <4>2 DEF Before, Differs
        <5> QED
          BY <1>11, <3>0, <3>1, <5>1 DEF NoEnd
      <4> QED
        BY <4>1, <4>2
    <3>2. CASE ~ (a = c /\ j = i)
      <4>1. Entry(dk, w, a, j) /\ ~ (a = c /\ j = i + 1 /\ dk[c][i] = END)
        BY <1>7, <2>3, <3>2
      <4>2. dk[b][k] # END
        BY <1>1, <1>11, <3>0, <4>1 DEF Sound
      <4>3. CASE b = c /\ k = i
        BY <1>4, <4>3
      <4>4. CASE b = c /\ k = i + 1 /\ dk[c][i] = END
        <5>1. Before(w, c, i, a, j)
          BY <3>0, <4>4 DEF Before
        <5>2. w.own[c] = w.own[a]
          BY <3>0, <4>4
        <5> QED
          BY <1>1, <1>11, <4>1, <4>4, <5>1, <5>2 DEF Sound
      <4> QED
        BY <1>3, <4>2, <4>3, <4>4
    <3> QED
      BY <3>1, <3>2
  <2> QED
    BY <2>2, <2>3 DEF Sound
<1>12. ASSUME n = 0 PROVE Dotted(dk2, v)
  <2>1. \A h \in Cluster, k \in Slot : \/ dk2[h][k] = dk[h][k] \/ Live(dk[h][k]) \/ dk[h][k] \in {END, DELETED}
                          \/ \E q \in Slot : q = k - 1 /\ dk[h][q] = END
    <3>1. ASSUME NEW k \in Slot, k = i + 1 PROVE i = k - 1
      BY <3>1, Constants
    <3> QED
      BY <1>3, <3>1
  <2>2. \A h \in Cluster : \A b : DotsOf(dk, h, b) => DotsOf(dk2, h, b)
    BY <2>1, DotsStay DEF Differs
  <2>3. ASSUME NEW b \in Cluster, NEW j \in Slot, Entry(dk2, v, b, j), dk2[b][j].kind = "dir"
        PROVE  DotsOf(dk2, dk2[b][j].first, v.own[b])
    <3>1. CASE b = c /\ j = i
      BY <1>2, <1>4, <1>12, <2>2, <2>3, <3>1
    <3>2. CASE ~ (b = c /\ j = i)
      <4>1. Entry(dk, w, b, j) /\ dk2[b][j] = dk[b][j]
        BY <1>7, <2>3, <3>2
      <4>2. dk[b][j].first \in Cluster /\ DotsOf(dk, dk[b][j].first, w.own[b])
        BY <1>1, <1>12, <2>3, <4>1, WitnessIs DEF Recorded, Dotted
      <4> QED
        BY <1>2, <2>2, <4>1, <4>2
    <3> QED
      BY <3>1, <3>2
  <2> QED
    BY <2>3 DEF Dotted
<1>13. ASSUME NoFirst(dk, w, d, e.name), NEW b, NEW j, First(dk2, v, d, e.name, b, j), ~ (b = c /\ j = i)
       PROVE  FALSE
  <2>1. b \in Cluster /\ j \in Slot /\ w.own[b] = d /\ Is(dk2[b][j], e.name)
        /\ i \in Nat /\ j \in Nat /\ w.rank[b] \in Nat /\ w.rank[c] \in Nat
    BY <1>1, <1>2, <1>13, Constants, WitnessIs DEF First
  <2>2. ~ Before(w, c, i, b, j)
    <3>1. Is(dk2[c][i], e.name)
      BY <1>4 DEF Is
    <3> QED
      BY <1>2, <1>13, <3>1 DEF First, Before
  <2>3. dk2[b][j] = dk[b][j]
    BY <1>3, <1>4, <1>13, <2>1 DEF Is
  <2>4. ASSUME NEW a \in Cluster, NEW k \in Slot, w.own[a] = d, Before(w, a, k, b, j)
        PROVE  ~ Is(dk[a][k], e.name) /\ dk[a][k] # END
    <3>1. ~ (a = c /\ k = i)
      BY <2>2, <2>4
    <3>2. ~ (a = c /\ k = i + 1)
      <4>1. ASSUME a = c, k = i + 1 PROVE Before(w, c, i, b, j)
        BY <2>1, <2>4, <4>1 DEF Before
      <4> QED
        BY <2>2, <4>1
    <3>3. dk2[a][k] = dk[a][k]
      BY <1>3, <3>1, <3>2
    <3> QED
      BY <1>2, <1>13, <2>4, <3>3 DEF First, Before
  <2>5. First(dk, w, d, e.name, b, j)
    BY <2>1, <2>3, <2>4 DEF First
  <2> QED
    BY <1>13, <2>1, <2>5 DEF NoFirst
<1>14. NoFirst(dk, w, d, e.name) => OnlyFirst(dk2, v, d, e.name, c, i)
  BY <1>13 DEF OnlyFirst
<1> QED
  BY <1>2, <1>8, <1>10, <1>11, <1>12, <1>14 DEF Sane, v

------------------------------------------------------------------------------
(* The commands: every step keeps the chains. *)

\* What is asked of the names in the commands: nothing that is written is the name of a
\* directory, and updateDirEntry, which compares the extension of a name with the start of
\* another, takes no other name for one that is written.
NamesTold ==
  /\ \A c \in Command : c.kind = "mkdir" => c.path[Len(c.path)] \notin Written
  /\ \A n \in Written, k \in Names : k.base = n.base /\ k.base = n.ext => k = n

Promise ==
  ~ Damaged => (\E w, going, loc, m : Good(w, going, loc, m)) \/ (\E w : Awaiting(w))

LEMMA PromiseIs ==
  ASSUME Promise, ~ Damaged, pc # "zero"
  PROVE  \E w, going, loc, m : Good(w, going, loc, m)
  BY DEF Promise, Awaiting

\* The variables, and what Good says of the chains.
LEMMA GoodIs ==
  ASSUME Typed, NEW w, NEW going, NEW loc, NEW m, Good(w, going, loc, m)
  PROVE  /\ w \in Witness /\ Chains(fat, w) /\ Recorded(disk, w)
         /\ root \in w.dirs /\ w.dirs \subseteq Cluster /\ \A d \in w.dirs : w.own[d] = d /\ d # NONE
         /\ pc # "commit" => Sane(fat, Seen, disk, w, NONE, going, faults)
         /\ pc # "commit" => \A c \in Cluster : w.own[c] # NONE => Seen[c] = fat[c]
         /\ dir \in w.dirs /\ w.own[dir] = dir /\ dir \in Cluster
         /\ faults = 0 => Sound(disk, w) /\ Dotted(disk, w)
<1>1. w \in Witness /\ Chains(fat, w) /\ Recorded(disk, w)
      /\ (faults = 0 => Sound(disk, w) /\ Dotted(disk, w))
      /\ Sane(fat, Seen, disk, w, Moving, going, faults) /\ Known(fat, Seen, w, Moving)
  BY DEF Good, Structure, Sane
<1>2. pc # "commit" => Moving = NONE
  BY DEF Moving
<1>3. pc # "commit" => \A c \in Cluster : w.own[c] # NONE => Seen[c] = fat[c]
  BY <1>1, <1>2, Constants DEF Known
<1>4. root \in w.dirs /\ w.dirs \subseteq Cluster /\ \A d \in w.dirs : w.own[d] = d /\ d # NONE
  BY <1>1, WitnessIs, Constants DEF Recorded
<1>5. dir \in w.dirs
  BY DEF Good, Control, Searching
<1> QED
  BY <1>1, <1>2, <1>3, <1>4, <1>5

LEMMA TypesAre ==
  ASSUME Typed
  PROVE  /\ F \in FatState /\ crashes \in Nat /\ FTyped /\ fat \in Table /\ Seen \in Table
         /\ disk \in Disks /\ faults \in Nat /\ lost \in BOOLEAN
         /\ cur \in Cluster /\ dir \in Cluster /\ tries \in 0 .. 2 /\ rest \in Seq(Names)
         /\ alloc.prev \in Cluster \cup {NONE} /\ alloc.new \in Cluster \cup {NONE}
         /\ file.first \in Cluster \cup {NONE}
         /\ file \in [first : Cluster \cup {NONE}, size : Nat, position : Nat]
         /\ alloc \in [sector : FatSector, prev : Cluster \cup {NONE}, new : Cluster \cup {NONE},
                       purpose : Purposes \cup {"none"}]
         /\ command \in Command \cup {NULL} /\ (command = NULL <=> pc = "idle")
         /\ cache.dirty => pc \in {"commit", "free", "freed"}
<1>1. FTyped /\ F \in FatState /\ crashes \in Nat
  BY DEF Typed, CacheTyped, FTyped
<1>2. fat \in Table /\ Seen \in Table /\ faults \in Nat /\ lost \in BOOLEAN
  BY <1>1, CacheIs, FIs, SeenTyped DEF Seen
<1>3. disk \in Disks
  BY DEF Typed, DiskTyped, Disks
<1>4. cache.dirty => pc \in {"commit", "free", "freed"}
  BY DEF Typed, CacheTyped
<1> QED
  BY <1>1, <1>2, <1>3, <1>4 DEF Typed, ControlTyped, AllocTyped, FileTyped, LoopTyped

\* A disk is not mended.
LEMMA NotMended ==
  ASSUME Typed, Grows(F, F'), ~ Damaged'
  PROVE  /\ ~ Damaged /\ faults <= faults' /\ faults' <= 1 /\ faults \in Nat /\ faults' \in Nat
         /\ ~ lost' /\ ~ lost /\ F' \in FatState /\ (faults' = 0 => faults = 0)
         /\ (faults' > 0 => faults' = 1)
<1>1. F \in FatState /\ F' \in FatState /\ faults \in Nat
  BY TypesAre DEF Grows
<1>2. F.faults = faults /\ F.lost = lost /\ F'.faults = faults' /\ F'.lost = lost'
  BY DEF F
<1>3. faults' \in Nat /\ lost' \in BOOLEAN /\ lost \in BOOLEAN
  BY <1>1, <1>2, CacheIs, TypesAre
<1>4. faults <= faults' /\ (lost => lost')
  BY <1>2 DEF Grows
<1>5. ~ lost' /\ faults' <= 1
  BY <1>3 DEF Damaged
<1> QED
  BY <1>1, <1>3, <1>4, <1>5 DEF Damaged

\* Where the FAT is not touched, or one more request fails.
LEMMA AloneGrows ==
  ASSUME Typed, UNCHANGED <<fat, cache>>,
         \/ UNCHANGED <<faults, lost>>
         \/ \E kind \in {"read", "write"}, parted \in BOOLEAN : FailsWith(kind, parted)
  PROVE  Reads(F, F') /\ Grows(F, F') /\ fat' = fat /\ Seen' = Seen
<1>1. Reads(F, F') /\ F \in FatState
  BY AloneReads, TypesAre
<1>2. Seen' = Seen
  BY DEF Seen, SeenIn, F
<1> QED
  BY <1>1, <1>2, ReadsGrows

\* Reads of the FAT do not touch the chains.
LEMMA Quiet ==
  ASSUME Typed, NEW w, NEW going, NEW loc, NEW m, Good(w, going, loc, m), pc # "commit",
         Reads(F, F'), ~ Damaged', disk' = disk
  PROVE  Sane(fat', Seen', disk', w, NONE, going, faults')
<1>1. Sane(fat, Seen, disk, w, NONE, going, faults)
  BY GoodIs
<1>2. Grows(F, F')
  BY TypesAre, ReadsGrows
<1>3. faults \in Nat /\ faults' \in Nat /\ (faults' = 0 => faults = 0)
  BY <1>2, NotMended
<1>4. \A c \in Cluster : {fat'[c], Seen'[c]} \subseteq {fat[c], Seen[c]}
  BY DEF Reads, Seen, F
<1> QED
  BY <1>1, <1>3, <1>4, SaneTable

\* When a command returns all is said that there is to say.
LEMMA Returned ==
  ASSUME NEW w, NEW x, NEW going, NEW loc, NEW m, NEW ok, NEW data, Return(ok, data),
         Sane(fat', Seen', disk', w, x, going, faults'), x = NONE, faults' \in Nat
  PROVE  Good(w, {}, loc, m)'
<1>1. pc' = "idle" /\ command' = NULL /\ tries' = 0 /\ dir' = root /\ file' = NoFile
  BY DEF Return
<1>2. Sane(fat', Seen', disk', w, NONE, {}, faults')
  BY SaneGone
<1>3. root \in w.dirs
  BY <1>2 DEF Sane, Recorded
<1>4. Structure(w, {})'
  BY <1>1, <1>2 DEF Structure, Moving
<1>5. Control(w, {}, loc, m)'
  BY <1>1, <1>3 DEF Control, Kinds, Searching, Looking, Marking, Creates, Adds, Writes, Commits,
     Frees, Adding, Allocating, Creating, Writing, NoFile
<1> QED
  BY <1>4, <1>5 DEF Good

LEMMA InitPromise ==
  ASSUME Init
  PROVE  Promise
<1> DEFINE w == [own |-> [c \in Cluster |-> IF c = root THEN root ELSE NONE],
                 rank |-> [c \in Cluster |-> 0], dirs |-> {root}]
<1>1. w \in Witness /\ w.dirs = {root} /\ (\A c \in Cluster : w.rank[c] = 0)
      /\ \A c \in Cluster : w.own[c] = IF c = root THEN root ELSE NONE
  BY Constants DEF Witness
<1> HIDE DEF w
<1>2. /\ \A c \in Cluster : fat[c] = IF c = root THEN EOF ELSE FREE
      /\ \A c \in Cluster, i \in Slot : disk[c][i] = END
      /\ cache = NoCache /\ faults = 0 /\ pc = "idle" /\ command = NULL /\ tries = 0 /\ dir = root
      /\ file = NoFile
  BY DEF Init, Zeros
<1>3. \A c \in Cluster : Seen[c] = fat[c]
  BY <1>2, SectorIsFatSector DEF Seen, SeenIn, F, NoCache
<1>4. \A c \in Cluster, i \in Slot : ~ Live(disk[c][i])
  BY <1>2, UnitsAre
<1>5. Chains(fat, w)
  BY <1>1, <1>2, Constants DEF Chains
<1>6. Recorded(disk, w) /\ Sound(disk, w) /\ Dotted(disk, w)
  BY <1>1, <1>4, Constants DEF Recorded, Sound, Dotted, Entry
<1>7. Known(fat, Seen, w, NONE) /\ Going(fat, Seen, w, {})
  BY <1>3 DEF Known, Going
<1>8. Structure(w, {})
  BY <1>1, <1>2, <1>5, <1>6, <1>7 DEF Structure, Sane, Moving
<1>9. Control(w, {}, 0, 0)
  BY <1>1, <1>2 DEF Control, Kinds, Searching, Looking, Marking, Creates, Adds, Writes, Commits,
     Frees, Adding, Allocating, Creating, Writing, NoFile
<1> QED
  BY <1>8, <1>9 DEF Promise, Good

\* A directory that is just growing will be well; it is well already if the cluster has no
\* entries.
LEMMA AwaitingIs ==
  ASSUME Typed, NEW w, Awaiting(w)
  PROVE  /\ alloc.new \in Cluster /\ Zeroed \in Disks
         /\ Differs(disk, Zeroed, alloc.new) /\ Differs(Zeroed, disk, alloc.new)
         /\ w \in Witness /\ Chains(fat, w) /\ dir \in Cluster /\ dir \in w.dirs
         /\ w.own[dir] = dir /\ alloc.new # dir
         /\ Vacant(Zeroed, w, alloc.new)
         /\ ~ Unzeroed => /\ Vacant(disk, w, alloc.new)
                          /\ Sane(fat, Seen, disk, w, NONE, {}, faults)
<1>1. alloc.new \in Cluster /\ disk \in Disks /\ faults \in Nat
  <2>1. pc = "zero"
    BY DEF Awaiting
  <2>2. alloc.new \in Cluster
    BY <2>1 DEF Typed, ControlTyped, AllocTyped
  <2> QED
    BY <2>2, TypesAre
<1>2. Zeroed \in Disks /\ Zeroed[alloc.new] = Zeros
      /\ Differs(disk, Zeroed, alloc.new) /\ Differs(Zeroed, disk, alloc.new)
  <2>1. disk \in [Cluster -> [Slot -> Units]] /\ Zeros \in [Slot -> Units]
    BY <1>1, UnitsAre DEF Disks
  <2> QED
    BY <1>1, <2>1 DEF Zeroed, Disks, Differs
<1>3. w \in Witness /\ Chains(fat, w) /\ dir \in w.dirs /\ w.own[dir] = dir /\ dir \in Cluster
      /\ Sane(fat, Seen, Zeroed, w, NONE, {}, faults)
      /\ w.own[alloc.new] = dir /\ w.rank[alloc.new] > 0
      /\ \A b \in Cluster : w.own[b] = dir => w.rank[b] <= w.rank[alloc.new]
  BY WitnessIs DEF Awaiting, Sane, Recorded
<1>4. alloc.new # dir
  BY <1>3, Constants DEF Chains
<1>5. \A i \in Slot : ~ Live(Zeroed[alloc.new][i])
  BY <1>2, UnitsAre DEF Zeros
<1>6. Vacant(Zeroed, w, alloc.new)
  BY <1>3, <1>4, <1>5 DEF Vacant
<1>7. ASSUME ~ Unzeroed
      PROVE  Vacant(disk, w, alloc.new) /\ Sane(fat, Seen, disk, w, NONE, {}, faults)
  <2>1. \A i \in Slot : ~ Live(disk[alloc.new][i])
    BY <1>7 DEF Unzeroed, Awaiting
  <2>2. Vacant(disk, w, alloc.new)
    BY <1>3, <1>4, <2>1 DEF Vacant
  <2> QED
    BY <1>1, <1>2, <1>3, <1>6, <2>2, SaneVacant
<1> QED
  BY <1>1, <1>2, <1>3, <1>4, <1>6, <1>7

\* How the clusters on the disk lie in chains.
Explains(w) == \E x, going : Sane(fat, Seen, disk, w, x, going, faults)

LEMMA PromiseExplains ==
  ASSUME Typed, Promise, ~ Damaged, ~ Unzeroed
  PROVE  \E w : Explains(w)
<1>1. ASSUME NEW w, NEW going, NEW loc, NEW m, Good(w, going, loc, m) PROVE Explains(w)
  BY <1>1 DEF Good, Structure, Explains
<1>2. ASSUME NEW w, Awaiting(w) PROVE Explains(w)
  BY <1>2, AwaitingIs DEF Explains
<1> QED
  BY <1>1, <1>2 DEF Promise

LEMMA CrashPromise ==
  ASSUME Typed, Promise, Crash
  PROVE  Promise'
<1>1. SUFFICES ASSUME ~ Damaged' PROVE \E w, going, loc, m : Good(w, going, loc, m)'
  BY DEF Promise
<1>2. ~ Damaged /\ ~ Unzeroed /\ faults' = faults /\ fat' = fat /\ disk' = disk
      /\ cache' = NoCache /\ pc' = "idle" /\ command' = NULL /\ tries' = 0 /\ dir' = root
      /\ file' = NoFile
  BY <1>1 DEF Crash, Damaged
<1>3. PICK w, x, going : Sane(fat, Seen, disk, w, x, going, faults)
  BY <1>2, PromiseExplains DEF Explains
<1>4. Seen' = fat
  <2>1. \A c \in Cluster : Seen'[c] = fat[c]
    BY <1>2, SectorIsFatSector DEF Seen, SeenIn, F, NoCache
  <2>2. fat \in [Cluster -> Value]
    BY TypesAre DEF Table
  <2> QED
    BY <2>1, <2>2 DEF Seen, SeenIn
<1>5. Sane(fat, fat, disk, w, NONE, {}, faults)
  BY <1>3, TypesAre, SanePower
<1>6. Structure(w, {})'
  BY <1>2, <1>4, <1>5 DEF Structure, Moving
<1>7. root \in w.dirs
  BY <1>5 DEF Sane, Recorded
<1>8. Control(w, {}, 0, 0)'
  BY <1>2, <1>7 DEF Control, Kinds, Searching, Looking, Marking, Creates, Adds, Writes,
     Commits, Frees, Adding, Allocating, Creating, Writing, NoFile
<1> QED
  BY <1>6, <1>8 DEF Good

\* What setting the entry of c may make of the FAT and of what the driver sees of it.
LEMMA SetTable ==
  ASSUME NEW f \in FatState, NEW c \in Cluster, NEW v \in Value, NEW r \in setFatEntry(f, c, v),
         crashes \in Nat
  PROVE  /\ Grows(f, r.f) /\ r.f \in FatState
         /\ \A d \in Cluster : r.f.fat[d] \in {f.fat[d], SeenIn(f)[d]}
         /\ \A d \in Cluster : d # c => SeenIn(r.f)[d] \in {f.fat[d], SeenIn(f)[d]}
         /\ SeenIn(r.f)[c] \in {f.fat[c], SeenIn(f)[c], v}
<1>1. Grows(f, r.f) /\ r.f \in FatState /\ r.ok \in BOOLEAN
  BY SetGrows, SetIs DEF Grows
<1>2. CASE r.ok
  BY <1>1, <1>2, SetIs DEF Sets
<1>3. CASE ~ r.ok
  BY <1>1, <1>3, SetIs DEF Reads
<1> QED
  BY <1>1, <1>2, <1>3

LEMMA FreeClusterPromise ==
  ASSUME Typed, Promise, FreeCluster
  PROVE  Promise'
<1>1. SUFFICES ASSUME ~ Damaged' PROVE \E w, going, loc, m : Good(w, going, loc, m)'
  BY DEF Promise
<1>2. F \in FatState /\ crashes \in Nat /\ cur \in Cluster /\ pc = "free" /\ Seen \in Table
      /\ fat \in Table /\ disk' = disk
  BY TypesAre DEF FreeCluster
<1>3. PICK n \in getNextCluster(F, cur) :
        /\ \E r \in setFatEntry(n.f, cur, FREE) : Becomes(r.f)
        /\ IF n.next = NONE THEN Goto("freed") /\ UNCHANGED cur
           ELSE cur' = n.next /\ Goto("free")
  BY DEF FreeCluster
<1>4. PICK r \in setFatEntry(n.f, cur, FREE) : Becomes(r.f)
  BY <1>3
<1>5. Reads(F, n.f) /\ n.f \in FatState /\ n.next \in Cluster \cup {NONE}
      /\ (n.next # NONE => n.next \in {fat[cur], Seen[cur]})
  <2>1. n.next # NONE => n.next \in {F.fat[cur], SeenIn(F)[cur]}
    BY <1>2, GetNextIs
  <2> QED
    BY <1>2, <2>1, GetNextIs DEF Reads, Seen, F
<1>6. /\ Grows(n.f, r.f) /\ r.f \in FatState
      /\ \A d \in Cluster : r.f.fat[d] \in {n.f.fat[d], SeenIn(n.f)[d]}
      /\ \A d \in Cluster : d # cur => SeenIn(r.f)[d] \in {n.f.fat[d], SeenIn(n.f)[d]}
      /\ SeenIn(r.f)[cur] \in {n.f.fat[cur], SeenIn(n.f)[cur], FREE}
  BY <1>2, <1>5, SetTable DEF Value
<1>7. F' = r.f
  BY <1>4, <1>6, BecomesIs
<1>8. Grows(F, F')
  BY <1>2, <1>5, <1>6, <1>7, ReadsGrows, GrowsTransitive
<1>9. ~ Damaged /\ faults \in Nat /\ faults' \in Nat /\ (faults' = 0 => faults = 0)
  BY <1>1, <1>8, NotMended
<1>10. PICK w, going, loc, m : Good(w, going, loc, m)
  BY <1>2, <1>9, PromiseIs
<1>11. Sane(fat, Seen, disk, w, NONE, going, faults) /\ cur \in going /\ going \subseteq Cluster
       /\ w.own[cur] = NONE /\ fat[cur] \in going \cup {FREE, EOF} /\ Seen[cur] \in going \cup {FREE, EOF}
  <2>1. Sane(fat, Seen, disk, w, NONE, going, faults) /\ cur \in going
    BY <1>2, <1>10, GoodIs DEF Good, Control, Frees
  <2>2. Going(fat, Seen, w, going)
    BY <2>1 DEF Sane
  <2>3. fat[cur] \in Value /\ Seen[cur] \in Value
    BY <1>2 DEF Table
  <2> QED
    BY <2>1, <2>2, <2>3 DEF Going, Value
<1>12. \A d \in Cluster : n.f.fat[d] \in {fat[d], Seen[d]} /\ SeenIn(n.f)[d] \in {fat[d], Seen[d]}
  BY <1>5 DEF Reads, Seen, F
<1>13. \A d \in Cluster : /\ fat'[d] \in {fat[d], Seen[d]}
                          /\ d # cur => Seen'[d] \in {fat[d], Seen[d]}
  <2>1. fat' = r.f.fat /\ Seen' = SeenIn(r.f)
    BY <1>4, <1>7 DEF Becomes, Seen
  <2> QED
    BY <1>6, <1>12, <2>1
<1>14. Seen'[cur] \in {fat[cur], Seen[cur], FREE}
  BY <1>2, <1>6, <1>7, <1>12 DEF Seen
<1>15. Sane(fat', Seen', disk, w, NONE, going, faults')
  <2>1. \A c \in Cluster : {fat'[c], Seen'[c]} \subseteq {fat[c], Seen[c], FREE, EOF}
    BY <1>13, <1>14
  <2>2. \A c \in Cluster : w.own[c] # NONE => {fat'[c], Seen'[c]} \subseteq {fat[c], Seen[c]}
    BY <1>11, <1>13
  <2> QED
    BY <1>9, <1>11, <2>1, <2>2, SaneTable
<1>16. (pc' = "free" => cur' \in going) /\ pc' \in {"free", "freed"}
  BY <1>3, <1>5, <1>11, Constants DEF Goto
<1>17. Structure(w, going)'
  BY <1>2, <1>15, <1>16 DEF Structure, Moving
<1>18. command' = command /\ UNCHANGED <<rest, tries, dir, count, file, done, alloc>>
  BY <1>3 DEF FreeCluster, Goto
<1>19. command.kind = "rm" /\ dir \in w.dirs
  BY <1>2, <1>10, GoodIs DEF Good, Control, Kinds
<1>20. Control(w, going, loc, m)'
  BY <1>16, <1>18, <1>19 DEF Control, Kinds, Searching, Looking, Marking, Creates, Adds, Writes,
     Commits, Frees, Adding, Allocating, Creating, Writing
<1> QED
  BY <1>17, <1>20 DEF Good

LEMMA FreedPromise ==
  ASSUME Typed, Promise, Freed
  PROVE  Promise'
<1>1. SUFFICES ASSUME ~ Damaged' PROVE \E w, going, loc, m : Good(w, going, loc, m)'
  BY DEF Promise
<1>2. PICK f \in flushFatCache(F) : Becomes(f)
  BY DEF Freed
<1>3. Reads(F, F')
  <2>1. Reads(F, f) /\ f \in FatState
    BY TypesAre, FlushReads DEF Reads
  <2> QED
    BY <1>2, <2>1, BecomesIs
<1>4. ~ Damaged /\ faults' \in Nat
  BY <1>1, <1>3, TypesAre, ReadsGrows, NotMended
<1>5. PICK w, going, loc, m : Good(w, going, loc, m)
  BY <1>4, PromiseIs DEF Freed
<1>6. Sane(fat', Seen', disk', w, NONE, going, faults')
  BY <1>1, <1>3, <1>5, Quiet DEF Freed
<1> QED
  BY <1>4, <1>6, Returned DEF Freed

LEMMA UndoPromise ==
  ASSUME Typed, Promise, Undo
  PROVE  Promise'
<1>1. SUFFICES ASSUME ~ Damaged' PROVE \E w, going, loc, m : Good(w, going, loc, m)'
  BY DEF Promise
<1>2. F \in FatState /\ crashes \in Nat /\ file.first \in Cluster /\ pc = "undo" /\ disk' = disk
      /\ disk \in Disks
  BY TypesAre DEF Undo, Typed, ControlTyped, FileTyped
<1>3. PICK r \in setFatEntry(F, file.first, FREE) : \E f \in flushFatCache(r.f) : Becomes(f)
  BY DEF Undo
<1>4. PICK f \in flushFatCache(r.f) : Becomes(f)
  BY <1>3
<1>5. /\ Grows(F, r.f) /\ r.f \in FatState
      /\ \A d \in Cluster : r.f.fat[d] \in {F.fat[d], Seen[d]}
      /\ \A d \in Cluster : d # file.first => SeenIn(r.f)[d] \in {F.fat[d], Seen[d]}
      /\ SeenIn(r.f)[file.first] \in {F.fat[file.first], Seen[file.first], FREE}
  BY <1>2, SetTable DEF Value, Seen
<1>6. Reads(r.f, f) /\ f \in FatState
  BY <1>2, <1>5, FlushReads DEF Reads
<1>7. F' = f
  BY <1>4, <1>6, BecomesIs
<1>8. Grows(F, F')
  BY <1>2, <1>5, <1>6, <1>7, ReadsGrows, GrowsTransitive
<1>9. ~ Damaged /\ faults \in Nat /\ faults' \in Nat /\ (faults' = 0 => faults = 0)
  BY <1>1, <1>8, NotMended
<1>10. PICK w, going, loc, m : Good(w, going, loc, m)
  BY <1>2, <1>9, PromiseIs
<1>16. PICK h \in Cluster : h = file.first
  BY <1>2
<1> DEFINE v == Without(w, h)
           g == ChainOf(w, h)
<1>11. Sane(fat, Seen, disk, w, NONE, {}, faults) /\ Unlisted(disk, w, h)
  <2>1. going = {} /\ command.kind = "mkdir"
    BY <1>2, <1>10 DEF Good, Control, Frees, Kinds
  <2>2. Unlisted(disk, w, h)
    BY <1>2, <1>10, <1>16, <2>1 DEF Good, Control, Creates
  <2> QED
    BY <1>2, <1>10, <2>1, <2>2, GoodIs
<1>12. Sane(fat, Seen, disk, v, NONE, g, faults) /\ h \in g /\ v.own[h] = NONE
  <2>1. h \in Cluster
    OBVIOUS
  <2>2. w.own[h] = h
    BY <1>11 DEF Unlisted
  <2>3. Sane(fat, Seen, disk, v, NONE, g, faults)
    BY <1>2, <1>9, <1>11, SaneDrop
  <2> QED
    BY <2>1, <2>2, <2>3 DEF v, g, Without, ChainOf
<1> HIDE DEF v, g
<1>13. \A d \in Cluster : /\ fat'[d] \in {fat[d], Seen[d], FREE} /\ Seen'[d] \in {fat[d], Seen[d], FREE}
                          /\ d # h => fat'[d] \in {fat[d], Seen[d]} /\ Seen'[d] \in {fat[d], Seen[d]}
  <2>1. fat' = f.fat /\ Seen' = SeenIn(f) /\ F.fat = fat
    BY <1>4, <1>7 DEF Becomes, Seen, F
  <2>2. \A d \in Cluster : {f.fat[d], SeenIn(f)[d]} \subseteq {r.f.fat[d], SeenIn(r.f)[d]}
    BY <1>6 DEF Reads
  <2> QED
    BY <1>5, <1>16, <2>1, <2>2
<1>14. Sane(fat', Seen', disk, v, NONE, g, faults')
  <2>1. \A c \in Cluster : {fat'[c], Seen'[c]} \subseteq {fat[c], Seen[c], FREE, EOF}
    BY <1>13
  <2>2. \A c \in Cluster : v.own[c] # NONE => {fat'[c], Seen'[c]} \subseteq {fat[c], Seen[c]}
    BY <1>12, <1>13
  <2> QED
    BY <1>9, <1>12, <2>1, <2>2, SaneTable
<1>15. Good(v, {}, loc, m)'
  <2>1. Return(FALSE, << >>)
    BY DEF Undo
  <2>2. Sane(fat', Seen', disk', v, NONE, g, faults')
    BY <1>2, <1>14
  <2> QED
    BY <1>9, <2>1, <2>2, Returned
<1> QED
  BY <1>15

\* A step of the loops over a file's clusters: the file that is written stays the file.
LEMMA LoopPromise ==
  ASSUME Typed, NEW w, NEW going, NEW loc, NEW m, Good(w, going, loc, m), ~ Damaged',
         Reads(F, F'), UNCHANGED <<disk, rest, tries, dir, command>>,
         pc \in {"next", "walk", "last", "data", "read", "wrote"},
         pc' \in {"next", "walk", "last", "data", "read", "wrote"},
         file'.first = file.first,
         pc' \in {"last", "wrote"} => command.kind = "write",
         pc' = "read" => command.kind # "write",
         pc = "read" \/ command.kind # "write" => pc' \in {"next", "walk", "data", "read"},
         pc' \in {"walk", "last", "data"} /\ command.kind = "write" =>
           file.first # NONE /\ w.own[cur'] = file.first
  PROVE  Good(w, going, loc, m)'
<1>1. Sane(fat', Seen', disk', w, NONE, going, faults')
  BY Quiet
<1>2. Structure(w, going)'
  BY <1>1 DEF Structure, Moving
<1>3. dir \in w.dirs /\ command # NULL
  BY GoodIs, TypesAre
<1>4. pc = "read" => command.kind # "write"
  BY DEF Good, Control, Kinds
<1>5. command.kind = "write" =>
        /\ MayLead(disk, w, dir, Name, file.first)
        /\ file.first # NONE => Held(disk, w, dir, Name, file.first)
  <2>1. command.kind = "write" => Writing
    BY <1>3, <1>4 DEF Writing
  <2> QED
    BY <2>1 DEF Good, Control, Writes
<1>6. going = {}
  BY DEF Good, Control, Frees
<1>7. Name' = Name
  BY DEF Name
<1>8. Writes(w)'
  BY <1>3, <1>5, <1>7 DEF Writes, Writing, Allocating
<1>9. Control(w, going, loc, m)'
  BY <1>3, <1>6, <1>8 DEF Control, Kinds, Searching, Looking, Marking, Creates, Adds, Commits,
     Frees, Adding, Allocating, Creating
<1> QED
  BY <1>2, <1>9 DEF Good

\* A cluster is to be allocated for the file that is written.
LEMMA AllocatePromise ==
  ASSUME Typed, NEW w, NEW going, NEW loc, NEW m, Good(w, going, loc, m), ~ Damaged',
         Reads(F, F'), UNCHANGED <<disk, rest, tries, dir, file>>,
         pc \in {"next", "last"}, command.kind = "write",
         NEW p, NEW purpose \in {"first", "extend"}, Allocate(p, purpose),
         purpose = "first" => p = NONE /\ file.first = NONE,
         purpose = "extend" => p \in Cluster /\ file.first # NONE /\ w.own[p] = file.first
  PROVE  Good(w, going, loc, m)'
<1>1. Sane(fat', Seen', disk', w, NONE, going, faults')
  BY Quiet
<1>2. pc' = "scan" /\ command' = command /\ alloc'.prev = p /\ alloc'.purpose = purpose
  BY DEF Allocate, Goto
<1>3. Structure(w, going)'
  BY <1>1, <1>2 DEF Structure, Moving
<1>4. dir \in w.dirs /\ command # NULL
  BY GoodIs, TypesAre
<1>5. MayLead(disk, w, dir, Name, file.first)
      /\ (file.first # NONE => Held(disk, w, dir, Name, file.first))
  <2>1. Writing
    BY <1>4 DEF Writing
  <2> QED
    BY <2>1 DEF Good, Control, Writes
<1>6. going = {}
  BY DEF Good, Control, Frees
<1>7. Name' = Name
  BY <1>2 DEF Name
<1>8. Writes(w)'
  BY <1>2, <1>4, <1>5, <1>7 DEF Writes, Writing, Allocating
<1>9. Control(w, going, loc, m)'
  BY <1>2, <1>4, <1>6, <1>8, Constants DEF Control, Kinds, Searching, Looking, Marking, Creates,
     Adds, Commits, Frees, Adding, Allocating, Creating
<1> QED
  BY <1>3, <1>9 DEF Good

LEMMA NextUnitsPromise ==
  ASSUME Typed, Promise, NextUnits
  PROVE  Promise'
<1>1. SUFFICES ASSUME ~ Damaged' PROVE \E w, going, loc, m : Good(w, going, loc, m)'
  BY DEF Promise
<1>2. pc = "next" /\ UNCHANGED <<disk, fatVars, rest, tries, dir, file>> /\ command' = command
  BY DEF NextUnits, Goto, Allocate
<1>3. Reads(F, F') /\ Grows(F, F')
  BY <1>2, AloneGrows DEF fatVars
<1>4. ~ Damaged
  BY <1>1, <1>3, NotMended
<1>5. PICK w, going, loc, m : Good(w, going, loc, m)
  BY <1>2, <1>4, PromiseIs
<1>6. command # NULL /\ (command.kind = "write" /\ file.first # NONE => w.own[file.first] = file.first)
  <2>1. command # NULL
    BY <1>2, TypesAre
  <2>2. command.kind = "write" => Writing
    BY <1>2, <2>1 DEF Writing
  <2> QED
    BY <1>5, <2>1, <2>2 DEF Good, Control, Writes, Held
<1>7. CASE command.kind = "write" /\ Left # 0 /\ file.first = NONE
  <2>1. Allocate(NONE, "first")
    BY <1>7 DEF NextUnits
  <2>2. Good(w, going, loc, m)'
    BY <1>1, <1>2, <1>3, <1>5, <1>7, <2>1, AllocatePromise
  <2> QED
    BY <2>2
<1>8. CASE ~ (command.kind = "write" /\ Left # 0 /\ file.first = NONE)
  <2>1. \/ pc' = "wrote" /\ command.kind = "write"
        \/ pc' = "walk" /\ cur' = file.first /\ file.first # NONE
        \/ pc' = "read" /\ command.kind # "write"
    BY <1>8 DEF NextUnits, Goto
  <2>2. Good(w, going, loc, m)'
    BY <1>1, <1>2, <1>3, <1>5, <1>6, <2>1, LoopPromise
  <2> QED
    BY <2>2
<1> QED
  BY <1>7, <1>8

\* The next cluster of the chain that is followed.
LEMMA OnwardInChain ==
  ASSUME Typed, NEW w, NEW going, NEW loc, NEW m, Good(w, going, loc, m), pc # "commit",
         NEW n \in getNextCluster(F, cur), Becomes(n.f), w.own[cur] # NONE
  PROVE  /\ n.next # NONE => n.next = fat[cur] /\ n.next \in Cluster /\ w.own[n.next] = w.own[cur]
         /\ Reads(F, F')
<1>1. Reads(F, F') /\ n.next \in Cluster \cup {NONE} /\ (n.next # NONE => n.next \in {fat[cur], Seen[cur]})
  <2>1. F \in FatState /\ cur \in Cluster /\ FTyped
    BY TypesAre
  <2> QED
    BY <2>1, NextReads
<1>2. Seen[cur] = fat[cur]
  BY TypesAre, GoodIs
<1>3. n.next # NONE => n.next = fat[cur] /\ n.next \in Cluster
  BY <1>1, <1>2
<1> QED
  BY <1>1, <1>3, TypesAre, GoodIs, NextInChain

LEMMA WalkPromise ==
  ASSUME Typed, Promise, Walk
  PROVE  Promise'
<1>1. SUFFICES ASSUME ~ Damaged' PROVE \E w, going, loc, m : Good(w, going, loc, m)'
  BY DEF Promise
<1>2. /\ pc = "walk" /\ UNCHANGED <<disk, rest, tries, dir, file>> /\ command' = command
      /\ command # NULL /\ FTyped /\ cur \in Cluster /\ F \in FatState
  BY TypesAre DEF Walk, Goto
<1>3. Reads(F, F') /\ Grows(F, F')
  <2>1. CASE count = 0
    BY <2>1, AloneGrows DEF fatVars, Walk
  <2>2. CASE count # 0
    <3>1. PICK n \in getNextCluster(F, cur) : Becomes(n.f)
      BY <2>2 DEF Walk
    <3> QED
      BY <1>2, <3>1, NextReads, ReadsGrows
  <2> QED
    BY <2>1, <2>2
<1>4. ~ Damaged
  BY <1>1, <1>3, NotMended
<1>5. PICK w, going, loc, m : Good(w, going, loc, m)
  BY <1>2, <1>4, PromiseIs
<1>6. command.kind = "write" => /\ file.first # NONE /\ w.own[cur] = file.first
                                /\ w.own[file.first] = file.first
  <2>1. command.kind = "write" => Writing
    BY <1>2 DEF Writing
  <2> QED
    BY <1>2, <1>5, <2>1 DEF Good, Control, Writes, Held
<1>7. \/ pc' = "data" /\ cur' = cur
      \/ pc' = "walk" /\ (command.kind = "write" => w.own[cur'] = w.own[cur])
      \/ pc' = "last" /\ cur' = file.first /\ command.kind = "write"
      \/ pc' = "read" /\ command.kind # "write"
  <2>1. CASE count = 0
    BY <2>1 DEF Walk, Goto
  <2>2. CASE count # 0
    <3>1. PICK n \in getNextCluster(F, cur) :
            /\ Becomes(n.f)
            /\ IF n.next # NONE
               THEN cur' = n.next /\ count' = count - 1 /\ Goto("walk")
               ELSE /\ count' = 0
                    /\ IF command.kind = "write"
                       THEN cur' = file.first /\ Goto("last")
                       ELSE Goto("read") /\ UNCHANGED cur
      BY <2>2 DEF Walk
    <3>2. command.kind = "write" /\ n.next # NONE => w.own[n.next] = w.own[cur]
      BY <1>2, <1>5, <1>6, <3>1, OnwardInChain
    <3> QED
      BY <3>1, <3>2 DEF Goto
  <2> QED
    BY <2>1, <2>2
<1>8. Good(w, going, loc, m)'
  BY <1>1, <1>2, <1>3, <1>5, <1>6, <1>7, LoopPromise
<1> QED
  BY <1>8

LEMMA LastClusterPromise ==
  ASSUME Typed, Promise, LastCluster
  PROVE  Promise'
<1>1. SUFFICES ASSUME ~ Damaged' PROVE \E w, going, loc, m : Good(w, going, loc, m)'
  BY DEF Promise
<1>2. /\ pc = "last" /\ UNCHANGED <<disk, rest, tries, dir, file>>
      /\ command # NULL /\ FTyped /\ cur \in Cluster /\ F \in FatState
  BY TypesAre DEF LastCluster
<1>3. PICK n \in getNextCluster(F, cur) :
        /\ Becomes(n.f)
        /\ IF n.next # NONE
           THEN cur' = n.next /\ Goto("last") /\ UNCHANGED alloc
           ELSE Allocate(cur, "extend") /\ UNCHANGED cur
  BY DEF LastCluster
<1>4. Reads(F, F') /\ Grows(F, F')
  BY <1>2, <1>3, NextReads, ReadsGrows
<1>5. ~ Damaged
  BY <1>1, <1>4, NotMended
<1>6. PICK w, going, loc, m : Good(w, going, loc, m)
  BY <1>2, <1>5, PromiseIs
<1>7. command.kind = "write"
  BY <1>2, <1>6 DEF Good, Control, Kinds
<1>8. file.first # NONE /\ w.own[cur] = file.first
  <2>1. Writing
    BY <1>2, <1>7 DEF Writing
  <2> QED
    BY <1>2, <1>6, <2>1 DEF Good, Control, Writes
<1>9. CASE n.next # NONE
  <2>1. w.own[n.next] = file.first /\ pc' = "last" /\ cur' = n.next /\ command' = command
    BY <1>2, <1>3, <1>6, <1>8, <1>9, OnwardInChain DEF Goto
  <2>2. Good(w, going, loc, m)'
    BY <1>1, <1>2, <1>4, <1>6, <1>7, <1>8, <2>1, LoopPromise
  <2> QED
    BY <2>2
<1>10. CASE n.next = NONE
  <2>1. Good(w, going, loc, m)'
    BY <1>1, <1>2, <1>3, <1>4, <1>6, <1>7, <1>8, <1>10, AllocatePromise
  <2> QED
    BY <2>1
<1> QED
  BY <1>9, <1>10

LEMMA ReadDataPromise ==
  ASSUME Typed, Promise, ReadData
  PROVE  Promise'
<1>1. SUFFICES ASSUME ~ Damaged' PROVE \E w, going, loc, m : Good(w, going, loc, m)'
  BY DEF Promise
<1>2. /\ pc = "data" /\ UNCHANGED <<fat, cache, disk, rest, tries, dir, cur, file>>
      /\ command.kind = "cat" /\ command' = command /\ pc' \in {"next", "read"}
  BY DEF ReadData, Goto
<1>3. Reads(F, F') /\ Grows(F, F')
  BY <1>2, AloneGrows DEF ReadData, Succeeds, Fails
<1>4. ~ Damaged
  BY <1>1, <1>3, NotMended
<1>5. PICK w, going, loc, m : Good(w, going, loc, m)
  BY <1>2, <1>4, PromiseIs
<1>6. Good(w, going, loc, m)'
  BY <1>1, <1>2, <1>3, <1>5, LoopPromise
<1> QED
  BY <1>6

LEMMA ReadPromise ==
  ASSUME Typed, Promise, Read
  PROVE  Promise'
<1>1. SUFFICES ASSUME ~ Damaged' PROVE \E w, going, loc, m : Good(w, going, loc, m)'
  BY DEF Promise
<1>2. pc = "read" /\ UNCHANGED <<disk, fatVars>>
  BY DEF Read
<1>3. Reads(F, F') /\ Grows(F, F')
  BY <1>2, AloneGrows DEF fatVars
<1>4. ~ Damaged /\ faults' \in Nat
  BY <1>1, <1>3, NotMended
<1>5. PICK w, going, loc, m : Good(w, going, loc, m)
  BY <1>2, <1>4, PromiseIs
<1>6. command.kind # "write"
  BY <1>2, <1>5 DEF Good, Control, Kinds
<1>7. CASE Len(done) > file.position /\ Len(done) < file.size
  <2>1. file' = [file EXCEPT !.position = Len(done)] /\ pc' = "next" /\ command' = command
        /\ UNCHANGED <<rest, tries, dir>>
    BY <1>7 DEF Read, Goto
  <2>2. file'.first = file.first
    BY <2>1, TypesAre
  <2>3. Good(w, going, loc, m)'
    BY <1>1, <1>2, <1>3, <1>5, <1>6, <2>1, <2>2, LoopPromise
  <2> QED
    BY <2>3
<1>8. CASE ~ (Len(done) > file.position /\ Len(done) < file.size)
  <2>1. Return(TRUE, done)
    BY <1>8 DEF Read
  <2>2. Sane(fat', Seen', disk', w, NONE, going, faults')
    BY <1>1, <1>2, <1>3, <1>5, Quiet
  <2> QED
    BY <1>4, <2>1, <2>2, Returned
<1> QED
  BY <1>7, <1>8

LEMMA WrotePromise ==
  ASSUME Typed, Promise, Wrote
  PROVE  Promise'
<1>1. SUFFICES ASSUME ~ Damaged' PROVE \E w, going, loc, m : Good(w, going, loc, m)'
  BY DEF Promise
<1>2. pc = "wrote" /\ UNCHANGED <<disk, fatVars>> /\ command # NULL
  BY TypesAre DEF Wrote
<1>3. Reads(F, F') /\ Grows(F, F')
  BY <1>2, AloneGrows DEF fatVars
<1>4. ~ Damaged /\ faults' \in Nat
  BY <1>1, <1>3, NotMended
<1>5. PICK w, going, loc, m : Good(w, going, loc, m)
  BY <1>2, <1>4, PromiseIs
<1>6. Sane(fat', Seen', disk', w, NONE, going, faults')
  BY <1>1, <1>2, <1>3, <1>5, Quiet
<1>7. CASE done = << >>
  BY <1>4, <1>6, <1>7, Returned DEF Wrote
<1>8. CASE done # << >>
  <2>1. /\ pc' = "link" /\ cur' = dir /\ command' = command /\ UNCHANGED <<dir, tries, rest, disk>>
        /\ file' = [file EXCEPT !.size = IF Len(done) > @ THEN Len(done) ELSE @]
    BY <1>2, <1>8 DEF Wrote, Goto
  <2>2. file'.first = file.first
    BY <2>1, TypesAre
  <2>3. command.kind = "write" /\ going = {} /\ dir \in w.dirs /\ w.own[dir] = dir /\ dir \in Cluster
        /\ w \in Witness /\ Chains(fat, w)
    BY <1>2, <1>5, GoodIs DEF Good, Control, Kinds, Frees
  <2>4. MayLead(disk, w, dir, Name, file.first)
        /\ (file.first # NONE => Held(disk, w, dir, Name, file.first))
    <3>1. Writing
      BY <1>2, <2>3 DEF Writing
    <3> QED
      BY <1>5, <3>1 DEF Good, Control, Writes
  <2>5. \A n : Passed(disk, w, dir, dir, n)
    BY <2>3, PassedAtHead
  <2>6. Name' = Name
    BY <2>1 DEF Name
  <2>7. Writes(w)'
    BY <2>1, <2>2, <2>4, <2>5, <2>6 DEF Writes, Writing, Allocating, Covered
  <2>8. Control(w, going, loc, m)'
    BY <2>1, <2>3, <2>7 DEF Control, Kinds, Searching, Looking, Marking, Creates, Adds, Commits,
       Frees, Adding, Allocating, Creating
  <2>9. Structure(w, going)'
    BY <1>6, <2>1 DEF Structure, Moving
  <2> QED
    BY <2>8, <2>9 DEF Good
<1> QED
  BY <1>7, <1>8

\* What is held of a file stays so while a cluster of it is written.
LEMMA HeldVacant ==
  ASSUME NEW t, NEW s, NEW dk \in Disks, NEW w \in Witness, NEW x, NEW going, NEW n \in Nat,
         Sane(t, s, dk, w, x, going, n), NEW c \in Cluster, NEW dk2, Differs(dk, dk2, c),
         Vacant(dk, w, c), Vacant(dk2, w, c), NEW d \in w.dirs, NEW k, NEW f
  PROVE  /\ NoFirst(dk, w, d, k) <=> NoFirst(dk2, w, d, k)
         /\ MayLead(dk, w, d, k, f) => MayLead(dk2, w, d, k, f)
         /\ Held(dk, w, d, k, f) => Held(dk2, w, d, k, f)
         /\ Unlisted(dk, w, f) => Unlisted(dk2, w, f)
<1>1. \A b, i : First(dk2, w, d, k, b, i) <=> First(dk, w, d, k, b, i)
  BY VacantFirst
<1>2. \A b \in Cluster, i \in Slot : /\ Entry(dk2, w, b, i) <=> Entry(dk, w, b, i) /\ b # c
                                     /\ Entry(dk, w, b, i) => b # c /\ dk2[b][i] = dk[b][i]
  BY SaneVacant
<1>3. \A b \in Cluster, i \in Slot : First(dk, w, d, k, b, i) => dk2[b][i] = dk[b][i]
  BY <1>2 DEF First, Is, Entry
<1>4. NoFirst(dk, w, d, k) <=> NoFirst(dk2, w, d, k)
  BY <1>1 DEF NoFirst
<1>5. MayLead(dk, w, d, k, f) => MayLead(dk2, w, d, k, f)
  BY <1>1, <1>3 DEF MayLead
<1>6. Held(dk, w, d, k, f) => Held(dk2, w, d, k, f)
  BY <1>1, <1>2 DEF Held
<1>7. Unlisted(dk, w, f) => Unlisted(dk2, w, f)
  BY <1>2 DEF Unlisted
<1> QED
  BY <1>4, <1>5, <1>6, <1>7

LEMMA WriteDataPromise ==
  ASSUME Typed, Typed', Promise, WriteData
  PROVE  Promise'
<1>1. SUFFICES ASSUME ~ Damaged' PROVE \E w, going, loc, m : Good(w, going, loc, m)'
  BY DEF Promise
<1>2. /\ pc = "data" /\ command.kind = "write" /\ command' = command /\ command # NULL
      /\ UNCHANGED <<fat, cache, rest, tries, dir, cur, file>> /\ pc' \in {"next", "wrote"}
      /\ cur \in Cluster /\ disk \in Disks /\ disk' \in Disks
  BY TypesAre DEF WriteData, Goto, Typed, DiskTyped, Disks
<1>3. Reads(F, F') /\ Grows(F, F') /\ fat' = fat /\ Seen' = Seen
  BY <1>2, AloneGrows DEF WriteData, Succeeds, Fails, WriteFails
<1>4. ~ Damaged /\ faults' \in Nat /\ faults \in Nat /\ (faults' = 0 => faults = 0)
  BY <1>1, <1>3, NotMended
<1>5. PICK w, going, loc, m : Good(w, going, loc, m)
  BY <1>2, <1>4, PromiseIs
<1>6. Writing
  BY <1>2 DEF Writing
<1>7. file.first # NONE /\ w.own[cur] = file.first /\ file.first \notin w.dirs
  BY <1>2, <1>5, <1>6 DEF Good, Control, Writes, Held
<1>8. CASE disk' = disk
  <2>1. Good(w, going, loc, m)'
    BY <1>1, <1>2, <1>3, <1>5, <1>7, <1>8, LoopPromise
  <2> QED
    BY <2>1
<1>9. CASE disk' # disk
  <2>1. disk' = [disk EXCEPT ![cur] = [i \in Slot |-> IF i <= Smaller(Left, UNITS)
                                          THEN command.data[Len(done) + i] ELSE disk[cur][i]]]
    BY <1>9 DEF WriteData, Write, WriteFails
  <2>2. Differs(disk, disk', cur)
    <3>1. disk \in [Cluster -> [Slot -> Units]]
      BY <1>2 DEF Disks
    <3> QED
      BY <1>2, <2>1, <3>1 DEF Differs
  <2>3. Sane(fat, Seen, disk, w, NONE, going, faults) /\ w \in Witness /\ dir \in w.dirs /\ going = {}
    BY <1>2, <1>5, GoodIs DEF Good, Control, Frees
  <2>4. Sane(fat, Seen, disk, w, NONE, going, faults')
    BY <1>4, <2>3, SaneFaults
  <2>5. Vacant(disk, w, cur) /\ Vacant(disk', w, cur)
    BY <1>7 DEF Vacant
  <2>6. Sane(fat, Seen, disk', w, NONE, going, faults')
    BY <1>2, <1>4, <2>2, <2>4, <2>5, SaneVacant
  <2>7. MayLead(disk', w, dir, Name, file.first) /\ Held(disk', w, dir, Name, file.first)
    <3>1. MayLead(disk, w, dir, Name, file.first) /\ Held(disk, w, dir, Name, file.first)
      BY <1>5, <1>6, <1>7 DEF Good, Control, Writes
    <3> QED
      BY <1>2, <1>4, <2>2, <2>3, <2>4, <2>5, <3>1, HeldVacant
  <2>8. Structure(w, going)'
    BY <1>2, <1>3, <2>6 DEF Structure, Moving
  <2>9. Name' = Name
    BY <1>2 DEF Name
  <2>10. Writes(w)'
    BY <1>2, <2>1, <2>7, <2>9 DEF Writes, Writing, Allocating
  <2>11. Control(w, going, loc, m)'
    BY <1>2, <2>1, <2>3, <2>10 DEF Control, Kinds, Searching, Looking, Marking, Creates, Adds,
       Commits, Frees, Adding, Allocating, Creating
  <2> QED
    BY <2>8, <2>11 DEF Good
<1> QED
  BY <1>8, <1>9

\* The search of a directory goes on where the chain does.
LEMMA SearchOn ==
  ASSUME Typed, NEW w, NEW going, NEW loc, NEW m, Good(w, going, loc, m), w.own[cur] = dir,
         pc # "commit", NEW n, Onward(n)
  PROVE  /\ n # NONE => n = fat[cur] /\ n \in Cluster /\ w.own[n] = dir
         /\ n = NONE /\ faults' = faults => fat[cur] \notin Cluster
<1>1. dir # NONE /\ Seen[cur] = fat[cur] /\ w \in Witness /\ Chains(fat, w) /\ cur \in Cluster
  BY TypesAre, GoodIs, Constants
<1>2. n # NONE => n = fat[cur] /\ n \in Cluster
  BY <1>1 DEF Onward
<1>3. n = NONE /\ faults' = faults => fat[cur] \notin Cluster
  BY <1>1 DEF Onward
<1> QED
  BY <1>1, <1>2, <1>3, NextInChain

\* When a search goes on, what it has passed has no hit, or names are unique still.
LEMMA CoveredOn ==
  ASSUME Typed, NEW w, NEW going, NEW loc, NEW m, Good(w, going, loc, m), w.own[cur] = dir,
         pc # "commit", NEW n, n # NONE, Onward(n), ~ Damaged', disk' = disk, dir' = dir, cur' = n,
         NEW name, Covered(w, name),
         faults' = faults => \A j \in Slot : ~ Is(disk[cur][j], name) /\ disk[cur][j] # END
  PROVE  /\ Covered(w, name)'
         /\ faults > 0 /\ Passed(disk, w, dir, cur, name) => faults' > 0 /\ Passed(disk', w, dir', cur', name)
<1>1. Grows(F, F')
  BY TypesAre, ReadsGrows DEF Onward
<1>2. faults \in Nat /\ faults' \in Nat /\ faults <= faults' /\ faults' <= 1
  BY <1>1, NotMended
<1>3. w \in Witness /\ Chains(fat, w) /\ cur \in Cluster /\ dir \in Cluster
      /\ (faults = 0 => Sound(disk, w))
  BY TypesAre, GoodIs
<1>4. n = fat[cur] /\ n \in Cluster
  BY SearchOn
<1>5. faults' = faults /\ Passed(disk, w, dir, cur, name) => Passed(disk, w, dir, n, name)
  BY <1>3, <1>4, PassedOn
<1>6. faults' # faults => faults = 0 /\ faults' > 0
  BY <1>2
<1> QED
  BY <1>2, <1>3, <1>5, <1>6 DEF Covered

\* What a search that has a hit at unit i of cur has found.
LEMMA Covers ==
  ASSUME Typed, NEW w, NEW going, NEW loc, NEW m, Good(w, going, loc, m), w.own[cur] = dir,
         NEW name, Covered(w, name), NEW i \in Slot, Is(disk[cur][i], name),
         \A j \in 1 .. i - 1 : ~ Is(disk[cur][j], name) /\ disk[cur][j] # END
  PROVE  First(disk, w, dir, name, cur, i)
<1>1. w \in Witness /\ Chains(fat, w) /\ dir \in w.dirs /\ dir \in Cluster /\ cur \in Cluster
  BY TypesAre, GoodIs
<1>2. CASE Passed(disk, w, dir, cur, name)
  BY <1>1, <1>2, HitIsFirst
<1>3. CASE Sound(disk, w)
  BY <1>1, <1>3, SoundFirst
<1> QED
  BY <1>2, <1>3 DEF Covered

\* A write goes on, or returns, after it has updated the directory entry or has not.
LEMMA UpdatedPromise ==
  ASSUME Typed, pc = "link", Updated, NEW w, NEW loc, NEW m, command.kind = "write",
         Sane(fat', Seen', disk', w, NONE, {}, faults'), faults' \in Nat, dir \in w.dirs,
         MayLead(disk', w, dir, Name, file.first),
         file.first # NONE => Held(disk', w, dir, Name, file.first)
  PROVE  Good(w, {}, loc, m)'
<1>1. CASE done = << >>
  <2>1. cur' = file.first /\ pc' = "data" /\ command' = command /\ dir' = dir /\ file' = file
    BY <1>1 DEF Updated, Goto
  <2>2. file.first \in Cluster
    BY <1>1 DEF Typed, ControlTyped, FileTyped
  <2>3. file.first # NONE /\ w.own[file.first] = file.first
    BY <2>2, Constants DEF Held
  <2>4. Name' = Name
    BY <2>1 DEF Name
  <2>5. command # NULL
    BY TypesAre
  <2>6. Writes(w)'
    BY <2>1, <2>3, <2>4, <2>5 DEF Writes, Writing, Allocating
  <2>7. Control(w, {}, loc, m)'
    BY <2>1, <2>6 DEF Control, Kinds, Searching, Looking, Marking, Creates, Adds, Commits, Frees,
       Adding, Allocating, Creating
  <2>8. Structure(w, {})'
    BY <2>1 DEF Structure, Moving
  <2> QED
    BY <2>7, <2>8 DEF Good
<1>2. CASE done # << >>
  BY <1>2, Returned DEF Updated
<1> QED
  BY <1>1, <1>2

LEMMA LinkPromise ==
  ASSUME NamesTold, Typed, Typed', Promise, UpdateDirEntry
  PROVE  Promise'
<1>1. SUFFICES ASSUME ~ Damaged' PROVE \E w, going, loc, m : Good(w, going, loc, m)'
  BY DEF Promise
<1>2. /\ FTyped /\ cur \in Cluster /\ disk \in Disks /\ disk' \in Disks /\ pc = "link"
      /\ command \in Command /\ command # NULL /\ file.first \in Cluster \cup {NONE}
  BY TypesAre DEF Typed, DiskTyped, Disks, UpdateDirEntry
<1>3. \/ \E i \in Slot :
           /\ Live(disk[cur][i]) /\ Matches(disk[cur][i], Name)
           /\ \A j \in 1 .. i - 1 : ~ (Live(disk[cur][j]) /\ Matches(disk[cur][j], Name)) /\ disk[cur][j] # END
           /\ LinkFound(i)
      \/ UNCHANGED fatVars /\ NotUpdated
      \/ \E n \in Cluster \cup {NONE} :
           /\ Onward(n)
           /\ faults' = faults =>
                \A j \in Slot : ~ (Live(disk[cur][j]) /\ Matches(disk[cur][j], Name)) /\ disk[cur][j] # END
           /\ IF n = NONE THEN NotUpdated ELSE GoOn(n)
  BY <1>2, LinkCases
<1>4. Reads(F, F') /\ Grows(F, F')
  <2>1. CASE UNCHANGED fatVars
    BY <2>1, AloneGrows DEF fatVars
  <2>2. ASSUME NEW i \in Slot, LinkFound(i) PROVE Reads(F, F') /\ Grows(F, F')
    BY <2>2, AloneGrows DEF LinkFound, Succeeds, Fails, WriteFails
  <2>3. ASSUME NEW n, Onward(n) PROVE Reads(F, F') /\ Grows(F, F')
    BY <2>3, TypesAre, ReadsGrows DEF Onward
  <2> QED
    BY <1>3, <2>1, <2>2, <2>3
<1>5. ~ Damaged /\ faults' \in Nat /\ faults \in Nat /\ (faults' = 0 => faults = 0)
  BY <1>1, <1>4, NotMended
<1>6. PICK w, going, loc, m : Good(w, going, loc, m)
  BY <1>2, <1>5, PromiseIs
<1>7. command.kind = "write" /\ going = {} /\ w.own[cur] = dir /\ dir \in w.dirs /\ w \in Witness
      /\ dir \in Cluster /\ Sane(fat, Seen, disk, w, NONE, {}, faults)
  BY <1>2, <1>6, GoodIs DEF Good, Control, Kinds, Frees, Searching
<1>8. MayLead(disk, w, dir, Name, file.first)
      /\ (file.first # NONE => Held(disk, w, dir, Name, file.first))
      /\ (Name.base = Name.ext => Covered(w, Name))
  <2>1. Writing
    BY <1>2, <1>7 DEF Writing
  <2> QED
    BY <1>2, <1>6, <2>1 DEF Good, Control, Writes
<1>9. Name \in Written
  BY <1>2, <1>7 DEF Written, Name
<1>10. \A c \in Cluster, j \in Slot : Live(disk[c][j]) /\ Matches(disk[c][j], Name) =>
         Is(disk[c][j], Name) /\ Name.base = Name.ext
  <2>1. ASSUME NEW c \in Cluster, NEW j \in Slot, Live(disk[c][j]), Matches(disk[c][j], Name)
        PROVE  Is(disk[c][j], Name) /\ Name.base = Name.ext
    <3>1. disk[c][j].name \in Names
      BY <1>2, <2>1, LiveIs
    <3>2. disk[c][j].name.base = Name.base /\ disk[c][j].name.base = Name.ext
      BY <2>1 DEF Matches
    <3>3. disk[c][j].name = Name
      BY <1>9, <3>1, <3>2 DEF NamesTold
    <3> QED
      BY <2>1, <3>2, <3>3 DEF Is
  <2> QED
    BY <2>1
<1>11. Name.base = Name.ext => \A c \in Cluster, j \in Slot :
         Is(disk[c][j], Name) => Live(disk[c][j]) /\ Matches(disk[c][j], Name)
  BY DEF Is, Matches
<1>12. disk' = disk => Sane(fat', Seen', disk', w, NONE, {}, faults')
  BY <1>1, <1>2, <1>4, <1>6, <1>7, Quiet
<1>13. CASE NotUpdated
  <2>1. disk' = disk /\ Updated
    BY <1>13 DEF NotUpdated
  <2>2. Good(w, {}, loc, m)'
    BY <1>2, <1>5, <1>7, <1>8, <1>12, <2>1, UpdatedPromise
  <2> QED
    BY <2>2
<1>14. ASSUME NEW n \in Cluster, Onward(n), GoOn(n),
              faults' = faults =>
                \A j \in Slot : ~ (Live(disk[cur][j]) /\ Matches(disk[cur][j], Name)) /\ disk[cur][j] # END
       PROVE  Good(w, {}, loc, m)'
  <2>1. /\ cur' = n /\ pc' = "link" /\ command' = command
        /\ UNCHANGED <<disk, rest, tries, dir, count, file, done, alloc>>
    BY <1>2, <1>14 DEF GoOn, Goto
  <2>2. n # NONE
    BY Constants
  <2>3. w.own[n] = dir
    BY <1>2, <1>6, <1>7, <1>14, <2>2, SearchOn
  <2>4. Name.base = Name.ext => Covered(w, Name)'
    <3>1. SUFFICES ASSUME Name.base = Name.ext PROVE Covered(w, Name)'
      OBVIOUS
    <3>2. PICK name : name = Name
      OBVIOUS
    <3>3. faults' = faults => \A j \in Slot : ~ Is(disk[cur][j], name) /\ disk[cur][j] # END
      BY <1>2, <1>11, <1>14, <3>1, <3>2
    <3>4. Covered(w, name) /\ pc # "commit"
      BY <1>2, <1>8, <3>1, <3>2
    <3>5. Covered(w, name)'
      BY <1>1, <1>6, <1>7, <1>14, <2>1, <2>2, <3>3, <3>4, CoveredOn
    <3>6. Name' = name
      BY <2>1, <3>2 DEF Name
    <3> QED
      BY <3>5, <3>6
  <2>5. Structure(w, {})'
    BY <1>12, <2>1 DEF Structure, Moving
  <2>6. Name' = Name
    BY <2>1 DEF Name
  <2>7. Writes(w)'
    BY <1>2, <1>8, <2>1, <2>4, <2>6 DEF Writes, Writing, Allocating
  <2>8. Control(w, {}, loc, m)'
    BY <1>7, <2>1, <2>3, <2>7 DEF Control, Kinds, Searching, Looking, Marking, Creates, Adds,
       Commits, Frees, Adding, Allocating, Creating
  <2> QED
    BY <2>5, <2>8 DEF Good
<1>15. ASSUME NEW i \in Slot, Live(disk[cur][i]), Matches(disk[cur][i], Name),
              \A j \in 1 .. i - 1 : ~ (Live(disk[cur][j]) /\ Matches(disk[cur][j], Name)) /\ disk[cur][j] # END,
              LinkFound(i)
       PROVE  Good(w, {}, loc, m)'
  <2>1. Is(disk[cur][i], Name) /\ Name.base = Name.ext
    BY <1>2, <1>10, <1>15
  <2>2. \A j \in 1 .. i - 1 : ~ Is(disk[cur][j], Name) /\ disk[cur][j] # END
    BY <1>2, <1>11, <1>15, <2>1, SlotsBefore
  <2>3. First(disk, w, dir, Name, cur, i)
    BY <1>6, <1>7, <1>8, <2>1, <2>2, Covers
  <2>4. disk[cur][i].kind = "file" /\ disk[cur][i].first \in {file.first, NONE}
    BY <1>2, <1>8, <1>15, <2>3 DEF MayLead
  <2>5. Updated /\ UNCHANGED <<fat, cache>> /\ Seen' = Seen
    BY <1>15, AloneGrows DEF LinkFound, Succeeds, Fails, WriteFails
  <2>6. CASE disk' = disk
    BY <1>2, <1>5, <1>7, <1>8, <1>12, <2>5, <2>6, UpdatedPromise
  <2>7. CASE disk' # disk
    <3>1. disk' = [disk EXCEPT ![cur] =
                     [disk[cur] EXCEPT ![i].first = file.first, ![i].size = file.size]]
      BY <1>15, <2>7 DEF LinkFound, Write, WriteFails
    <3>2. disk \in [Cluster -> [Slot -> Units]]
      BY <1>2 DEF Disks
    <3>3. Differs(disk, disk', cur)
      BY <1>2, <3>1, <3>2 DEF Differs
    <3>4. disk'[cur] = [disk[cur] EXCEPT ![i].first = file.first, ![i].size = file.size]
      BY <1>2, <3>1, <3>2
    <3>5. disk[cur] \in [Slot -> Units]
      BY <1>2, <3>2
    <3>6. \A j \in Slot : j # i => disk'[cur][j] = disk[cur][j]
      BY <3>4, <3>5
    <3>7. disk'[cur][i] = [disk[cur][i] EXCEPT !.first = file.first, !.size = file.size]
      BY <3>4, <3>5
    <3>8. disk[cur][i] \in [kind : {"file", "dir"}, name : Names, first : Cluster \cup {NONE}, size : Nat]
      BY <1>15, <3>5, UnitsAre
    <3>9. disk'[cur][i].kind = "file" /\ disk'[cur][i].name = disk[cur][i].name
          /\ disk'[cur][i].first = file.first
      BY <2>4, <3>7, <3>8
    <3>10. PICK f \in Cluster \cup {NONE} : f = file.first
      BY <1>2
    <3>11. f # NONE => w.own[f] = f /\ f \notin w.dirs
      BY <1>8, <3>10 DEF Held
    <3>12. f # NONE => \A b \in Cluster, j \in Slot :
             Entry(disk, w, b, j) /\ disk[b][j].first = f => b = cur /\ j = i
      <4>1. SUFFICES ASSUME f # NONE, NEW b \in Cluster, NEW j \in Slot, Entry(disk, w, b, j),
                            disk[b][j].first = f
                     PROVE  b = cur /\ j = i
        OBVIOUS
      <4>2. First(disk, w, dir, Name, b, j)
        BY <1>8, <3>10, <4>1 DEF Held
      <4>3. Chains(fat, w)
        BY <1>6, GoodIs
      <4> QED
        BY <1>7, <2>3, <4>2, <4>3, FirstUnique
    <3>13. /\ Sane(fat, Seen, disk', w, NONE, {}, faults')
           /\ \A b \in Cluster, j \in Slot : Entry(disk', w, b, j) <=> Entry(disk, w, b, j)
           /\ \A d, k, b, j : First(disk', w, d, k, b, j) <=> First(disk, w, d, k, b, j)
      <4>1. w.own[cur] \in w.dirs /\ disk'[cur][i].first = f /\ i \in Slot
        BY <1>7, <1>15, <3>9, <3>10
      <4>2. Sane(fat, Seen, disk, w, NONE, {}, faults')
        BY <1>5, <1>7, SaneFaults
      <4>3. PICK e, q : e = disk' /\ q = faults'
        OBVIOUS
      <4>4. /\ q \in Nat /\ Sane(fat, Seen, disk, w, NONE, {}, q) /\ Differs(disk, e, cur)
            /\ \A j \in Slot : j # i => e[cur][j] = disk[cur][j]
            /\ e[cur][i].kind = "file" /\ e[cur][i].name = disk[cur][i].name /\ e[cur][i].first = f
        BY <1>5, <3>3, <3>6, <3>9, <4>1, <4>2, <4>3
      <4>5. /\ Sane(fat, Seen, e, w, NONE, {}, q)
            /\ \A b \in Cluster, j \in Slot : Entry(e, w, b, j) <=> Entry(disk, w, b, j)
            /\ \A d, k, b, j : First(e, w, d, k, b, j) <=> First(disk, w, d, k, b, j)
        BY <1>2, <1>15, <2>4, <3>11, <3>12, <4>1, <4>4, SaneLink
      <4> QED
        BY <4>3, <4>5
    <3>14. \A b, j : First(disk, w, dir, Name, b, j) => b = cur /\ j = i
      <4>1. Chains(fat, w)
        BY <1>6, GoodIs
      <4> QED
        BY <1>7, <2>3, <4>1, FirstUnique
    <3>15. MayLead(disk', w, dir, Name, file.first)
      BY <3>9, <3>13, <3>14 DEF MayLead
    <3>16. file.first # NONE => Held(disk', w, dir, Name, file.first)
      <4>1. SUFFICES ASSUME file.first # NONE, NEW b \in Cluster, NEW j \in Slot,
                            Entry(disk', w, b, j), disk'[b][j].first = file.first
                     PROVE  First(disk', w, dir, Name, b, j)
        BY <1>8 DEF Held
      <4>2. CASE b = cur /\ j = i
        BY <2>3, <3>13, <4>2
      <4>3. CASE ~ (b = cur /\ j = i)
        <5>1. disk'[b][j] = disk[b][j]
          BY <3>3, <3>6, <4>3 DEF Differs
        <5>2. Entry(disk, w, b, j)
          BY <3>13, <4>1
        <5> QED
          BY <3>10, <3>12, <4>1, <4>3, <5>1, <5>2
      <4> QED
        BY <4>2, <4>3
    <3>17. Sane(fat', Seen', disk', w, NONE, {}, faults')
      BY <2>5, <3>13
    <3> QED
      BY <1>2, <1>5, <1>7, <2>5, <3>15, <3>16, <3>17, UpdatedPromise
  <2> QED
    BY <2>6, <2>7
<1> QED
  BY <1>3, <1>13, <1>14, <1>15

LEMMA MarkPromise ==
  ASSUME Typed, Typed', Promise, Mark
  PROVE  Promise'
<1>1. SUFFICES ASSUME ~ Damaged' PROVE \E w, going, loc, m : Good(w, going, loc, m)'
  BY DEF Promise
<1>2. /\ FTyped /\ cur \in Cluster /\ disk \in Disks /\ disk' \in Disks /\ pc = "mark"
      /\ command \in Command /\ command # NULL /\ file.first \in Cluster \cup {NONE}
  BY TypesAre DEF Typed, DiskTyped, Disks, Mark
<1>3. \/ \E i \in Slot :
           /\ ~ command.slash /\ Is(disk[cur][i], Name)
           /\ \A j \in 1 .. i - 1 : ~ Is(disk[cur][j], Name) /\ disk[cur][j] # END
           /\ MarkFound(i)
      \/ UNCHANGED fatVars /\ NotThere
      \/ \E n \in Cluster \cup {NONE} :
           /\ Onward(n)
           /\ faults' = faults /\ ~ command.slash =>
                \A j \in Slot : ~ Is(disk[cur][j], Name) /\ disk[cur][j] # END
           /\ IF n = NONE THEN NotThere ELSE GoOn(n)
  BY <1>2, MarkCases
<1>4. Reads(F, F') /\ Grows(F, F')
  <2>1. CASE UNCHANGED fatVars
    BY <2>1, AloneGrows DEF fatVars
  <2>2. ASSUME NEW i \in Slot, MarkFound(i) PROVE Reads(F, F') /\ Grows(F, F')
    BY <2>2, AloneGrows DEF MarkFound, Succeeds, Fails, WriteFails
  <2>3. ASSUME NEW n, Onward(n) PROVE Reads(F, F') /\ Grows(F, F')
    BY <2>3, TypesAre, ReadsGrows DEF Onward
  <2> QED
    BY <1>3, <2>1, <2>2, <2>3
<1>5. ~ Damaged /\ faults' \in Nat /\ faults \in Nat /\ (faults' = 0 => faults = 0)
  BY <1>1, <1>4, NotMended
<1>6. PICK w, going, loc, m : Good(w, going, loc, m)
  BY <1>2, <1>5, PromiseIs
<1>7. command.kind = "rm" /\ going = {} /\ w.own[cur] = dir /\ dir \in w.dirs /\ w \in Witness
      /\ dir \in Cluster /\ Sane(fat, Seen, disk, w, NONE, {}, faults) /\ Recorded(disk, w)
      /\ \A d \in w.dirs : w.own[d] = d
  BY <1>2, <1>6, GoodIs DEF Good, Control, Kinds, Frees, Searching
<1>8. ~ command.slash => Covered(w, Name) /\ Leads(disk, w, dir, Name, file.first)
  BY <1>2, <1>6 DEF Good, Control, Marking
<1>9. disk' = disk => Sane(fat', Seen', disk', w, NONE, {}, faults')
  BY <1>1, <1>2, <1>4, <1>6, <1>7, Quiet
<1>10. CASE NotThere
  <2>1. Good(w, {}, loc, m)'
    BY <1>5, <1>9, <1>10, Returned DEF NotThere
  <2> QED
    BY <2>1
<1>11. ASSUME NEW n \in Cluster, Onward(n), GoOn(n),
              faults' = faults /\ ~ command.slash =>
                \A j \in Slot : ~ Is(disk[cur][j], Name) /\ disk[cur][j] # END
       PROVE  Good(w, {}, loc, m)'
  <2>1. /\ cur' = n /\ pc' = "mark" /\ command' = command
        /\ UNCHANGED <<disk, rest, tries, dir, count, file, done, alloc>>
    BY <1>2, <1>11 DEF GoOn, Goto
  <2>2. n # NONE
    BY Constants
  <2>3. w.own[n] = dir
    BY <1>2, <1>6, <1>7, <1>11, <2>2, SearchOn
  <2>4. Name' = Name
    BY <2>1 DEF Name
  <2>5. ASSUME ~ command.slash PROVE Covered(w, Name)'
    <3>1. PICK name : name = Name
      OBVIOUS
    <3>2. faults' = faults => \A j \in Slot : ~ Is(disk[cur][j], name) /\ disk[cur][j] # END
      BY <1>11, <2>5, <3>1
    <3>3. Covered(w, name) /\ pc # "commit"
      BY <1>2, <1>8, <2>5, <3>1
    <3>4. Covered(w, name)'
      BY <1>1, <1>6, <1>7, <1>11, <2>1, <2>2, <3>2, <3>3, CoveredOn
    <3>5. Name' = name
      BY <2>4, <3>1
    <3> QED
      BY <3>4, <3>5
  <2>6. Structure(w, {})'
    BY <1>9, <2>1 DEF Structure, Moving
  <2>7. Marking(w)'
    BY <1>8, <2>1, <2>4, <2>5 DEF Marking
  <2>8. Control(w, {}, loc, m)'
    BY <1>7, <2>1, <2>3, <2>7 DEF Control, Kinds, Searching, Looking, Creates, Adds, Writes, Commits,
       Frees, Adding, Allocating, Creating, Writing
  <2> QED
    BY <2>6, <2>8 DEF Good
<1>12. ASSUME NEW i \in Slot, ~ command.slash, Is(disk[cur][i], Name),
              \A j \in 1 .. i - 1 : ~ Is(disk[cur][j], Name) /\ disk[cur][j] # END,
              MarkFound(i)
       PROVE  \E v, g : Good(v, g, loc, m)'
  <2>1. First(disk, w, dir, Name, cur, i)
    BY <1>6, <1>7, <1>8, <1>12, Covers
  <2>2. disk[cur][i].kind = "file" /\ disk[cur][i].first = file.first /\ Live(disk[cur][i]) /\ i \in Slot
    BY <1>2, <1>8, <1>12, <2>1 DEF Leads, Is
  <2>3. UNCHANGED <<fat, cache>> /\ Seen' = Seen
    BY <1>12, AloneGrows DEF MarkFound, Succeeds, Fails, WriteFails
  <2>4. CASE disk' = disk /\ Return(FALSE, << >>)
    <3>1. Good(w, {}, loc, m)'
      BY <1>5, <1>9, <2>4, Returned
    <3> QED
      BY <3>1
  <2>5. CASE /\ disk' = [disk EXCEPT ![cur] = [disk[cur] EXCEPT ![i] = DELETED]]
             /\ \/ \E ok \in BOOLEAN : Return(ok, << >>)
                \/ /\ file.first # NONE /\ cur' = file.first
                   /\ Goto("free")
                   /\ UNCHANGED <<rest, tries, dir, count, file, done, alloc>>
    <3>1. disk \in [Cluster -> [Slot -> Units]]
      BY <1>2 DEF Disks
    <3>2. Differs(disk, disk', cur)
      BY <1>2, <2>5, <3>1 DEF Differs
    <3>3. disk'[cur] = [disk[cur] EXCEPT ![i] = DELETED] /\ disk[cur] \in [Slot -> Units]
      BY <1>2, <2>5, <3>1
    <3>4. \A j \in Slot : disk'[cur][j] = IF j = i THEN DELETED ELSE disk[cur][j]
      BY <3>3
    <3>0. Sane(fat, Seen, disk, w, NONE, {}, faults')
      BY <1>5, <1>7, SaneFaults
    <3>5. /\ Sane(fat, Seen, disk', w, NONE, {}, faults')
          /\ \A b \in Cluster, j \in Slot :
               Entry(disk', w, b, j) => Entry(disk, w, b, j) /\ disk'[b][j] = disk[b][j]
                                        /\ ~ (b = cur /\ i = j)
      BY <1>2, <1>5, <2>2, <3>0, <3>2, <3>4, SaneMark
    <3>6. CASE \E ok \in BOOLEAN : Return(ok, << >>)
      <4>1. Sane(fat', Seen', disk', w, NONE, {}, faults')
        BY <2>3, <3>5
      <4>2. Good(w, {}, loc, m)'
        BY <1>5, <3>6, <4>1, Returned
      <4> QED
        BY <4>2
    <3>7. CASE /\ file.first # NONE /\ cur' = file.first
               /\ Goto("free")
               /\ UNCHANGED <<rest, tries, dir, count, file, done, alloc>>
      <4>1. PICK h \in Cluster : h = file.first
        BY <1>2, <3>7
      <4>2. Entry(disk, w, cur, i)
        BY <1>7, <2>2 DEF Entry
      <4>3. w.own[h] = h /\ h \notin w.dirs
        BY <1>2, <1>7, <2>2, <3>7, <4>1, <4>2 DEF Recorded
      <4>4. Unlisted(disk', w, h)
        <5>1. ASSUME NEW b \in Cluster, NEW j \in Slot, Entry(disk', w, b, j) PROVE disk'[b][j].first # h
          <6>1. Entry(disk, w, b, j) /\ disk'[b][j] = disk[b][j] /\ ~ (b = cur /\ i = j)
            BY <3>5, <5>1
          <6> QED
            BY <1>2, <1>7, <2>2, <3>7, <4>1, <4>2, <6>1 DEF Recorded
        <5> QED
          BY <4>3, <5>1 DEF Unlisted
      <4> DEFINE v == Without(w, h)
                 g == ChainOf(w, h)
      <4>5. Sane(fat, Seen, disk', v, NONE, g, faults') /\ h \in g /\ v.dirs = w.dirs
        <5>1. Sane(fat, Seen, disk', v, NONE, g, faults')
          BY <1>2, <1>5, <3>5, <4>4, SaneDrop
        <5>2. v.dirs = w.dirs
          BY DEF Without
        <5> QED
          BY <4>3, <5>1, <5>2 DEF ChainOf
      <4> HIDE DEF v, g
      <4>6. /\ cur' = h /\ pc' = "free" /\ command' = command
            /\ UNCHANGED <<rest, tries, dir, count, file, done, alloc>>
        BY <3>7, <4>1 DEF Goto
      <4>7. Structure(v, g)'
        BY <2>3, <4>5, <4>6 DEF Structure, Moving
      <4>8. Control(v, g, loc, m)'
        BY <1>7, <4>5, <4>6 DEF Control, Kinds, Searching, Looking, Marking, Creates, Adds, Writes,
           Commits, Frees, Adding, Allocating, Creating, Writing
      <4>9. Good(v, g, loc, m)'
        BY <4>7, <4>8 DEF Good
      <4> QED
        BY <4>9
    <3> QED
      BY <2>5, <3>6, <3>7
  <2> QED
    BY <1>12, <2>4, <2>5 DEF MarkFound, Write, WriteFails
<1> QED
  BY <1>3, <1>10, <1>11, <1>12

LEMMA ZeroIs ==
  ASSUME Typed, Typed', ~ Damaged', Zero
  PROVE  /\ pc = "zero" /\ command' = command /\ command # NULL
         /\ UNCHANGED <<fat, cache, rest, tries, dir, alloc>>
         /\ disk \in Disks /\ disk' \in Disks /\ alloc.new \in Cluster /\ alloc.purpose \in Purposes
         /\ file \in [first : Cluster \cup {NONE}, size : Nat, position : Nat]
         /\ fat' = fat /\ Seen' = Seen /\ Name' = Name
         /\ ~ Damaged /\ faults' \in Nat /\ faults \in Nat /\ (faults' = 0 => faults = 0)
         /\ disk' = Zeroed \/ (disk' = disk /\ ~ Unzeroed)
<1>1. /\ pc = "zero" /\ command' = command /\ command # NULL /\ UNCHANGED <<fat, cache, rest, tries, dir, alloc>>
      /\ disk \in Disks /\ disk' \in Disks /\ alloc.new \in Cluster /\ alloc.purpose \in Purposes
      /\ file \in [first : Cluster \cup {NONE}, size : Nat, position : Nat]
  BY TypesAre DEF Typed, DiskTyped, Disks, ControlTyped, AllocTyped, Zero, Goto, Purposes
<1>2. Unzeroed \in BOOLEAN
  BY DEF Unzeroed
<1>3. Reads(F, F') /\ Grows(F, F') /\ fat' = fat /\ Seen' = Seen
  BY <1>1, <1>2, AloneGrows DEF Zero, Succeeds, Fails
<1>4. ~ Damaged /\ ~ lost' /\ faults' \in Nat /\ faults \in Nat /\ (faults' = 0 => faults = 0)
  BY <1>3, NotMended
<1>5. disk' = Zeroed \/ (disk' = disk /\ ~ Unzeroed)
  BY <1>4 DEF Zero, Write, Zeroed, FailsWith
<1> QED
  BY <1>1, <1>3, <1>4, <1>5 DEF Name

\* A cluster of a file, or the first of a new directory, is zeroed.
LEMMA ZeroFile ==
  ASSUME Typed, Typed', ~ Damaged', Zero, NEW w, NEW going, NEW loc, NEW m, Good(w, going, loc, m)
  PROVE  Good(w, {}, loc, m)'
<1>2. /\ pc = "zero" /\ command' = command /\ command # NULL
      /\ UNCHANGED <<fat, cache, rest, tries, dir, alloc>>
      /\ disk \in Disks /\ disk' \in Disks /\ alloc.new \in Cluster /\ alloc.purpose \in Purposes
      /\ file \in [first : Cluster \cup {NONE}, size : Nat, position : Nat]
      /\ fat' = fat /\ Seen' = Seen
  BY ZeroIs
<1>4. faults' \in Nat /\ faults \in Nat /\ (faults' = 0 => faults = 0)
  BY ZeroIs
<1>6. PICK c \in Cluster : c = alloc.new
  BY <1>2
<1>7. /\ going = {} /\ dir \in w.dirs /\ dir \in Cluster /\ w.own[dir] = dir /\ w \in Witness
      /\ Chains(fat, w) /\ Sane(fat, Seen, disk, w, NONE, {}, faults) /\ dir # NONE
  BY <1>2, GoodIs DEF Good, Control, Frees
<1>8. /\ Allocating /\ (alloc.purpose = "mkdir" => command.kind = "mkdir")
      /\ alloc.purpose \in {"first", "extend"} => command.kind = "write"
      /\ alloc.purpose # "add"
  BY <1>2 DEF Good, Control, Kinds, Allocating, Adding
<1>9. Differs(disk, disk', c)
  <2>1. CASE disk' = disk
    BY <1>2, <2>1 DEF Differs
  <2>2. CASE disk' = [disk EXCEPT ![c] = Zeros]
    <3>1. disk \in [Cluster -> [Slot -> Units]]
      BY <1>2 DEF Disks
    <3> QED
      BY <1>2, <2>2, <3>1 DEF Differs
  <2> QED
    BY <1>6, <2>1, <2>2, ZeroIs DEF Zeroed
<1>10. /\ alloc.purpose \in {"mkdir", "first"} => Unlisted(disk, w, c)
       /\ alloc.purpose = "mkdir" => Alone(w, c)
       /\ alloc.purpose = "first" => file.first = NONE
       /\ alloc.purpose = "extend" => file.first # NONE /\ w.own[c] = file.first
       /\ alloc.purpose \in {"first", "extend"} =>
            /\ MayLead(disk, w, dir, Name, file.first)
            /\ file.first # NONE => Held(disk, w, dir, Name, file.first)
  BY <1>2, <1>6, <1>8 DEF Good, Control, Writes, Writing
<1>12. Vacant(disk, w, c) /\ Vacant(disk', w, c)
  <2>1. alloc.purpose \in {"mkdir", "first", "extend"}
    BY <1>2, <1>8 DEF Purposes
  <2>2. w.own[c] \notin w.dirs
    BY <1>10, <2>1 DEF Unlisted, Held
  <2> QED
    BY <2>2 DEF Vacant
<1>13. Sane(fat, Seen, disk', w, NONE, {}, faults)
  BY <1>2, <1>4, <1>7, <1>9, <1>12, SaneVacant
<1>14. \A k, f : /\ NoFirst(disk, w, dir, k) => NoFirst(disk', w, dir, k)
                 /\ MayLead(disk, w, dir, k, f) => MayLead(disk', w, dir, k, f)
                 /\ Held(disk, w, dir, k, f) => Held(disk', w, dir, k, f)
                 /\ Unlisted(disk, w, f) => Unlisted(disk', w, f)
  BY <1>2, <1>4, <1>7, <1>9, <1>12, HeldVacant
<1>15. Sane(fat', Seen', disk', w, NONE, {}, faults')
  BY <1>2, <1>4, <1>13, SaneFaults
<1>16. Name' = Name
  BY ZeroIs
<1>17. CASE alloc.purpose = "mkdir"
  <2>1. pc' = "dots" /\ file' = [file EXCEPT !.first = alloc.new] /\ cur' = cur
    BY <1>17 DEF Zero, Goto
  <2>2. file'.first = c /\ alloc'.new = c
    BY <1>2, <1>6, <2>1
  <2>3. faults = 0 => NoFirst(disk, w, dir, Name)
    BY <1>8, <1>17 DEF Good, Control, Creates, Creating
  <2>4. Creates(disk, w)'
    BY <1>2, <1>4, <1>8, <1>10, <1>14, <1>16, <1>17, <2>1, <2>2, <2>3 DEF Creates, Creating, Adding, Allocating
  <2>5. Structure(w, {})'
    BY <1>15, <2>1 DEF Structure, Moving
  <2>6. Control(w, {}, loc, m)'
    BY <1>2, <1>7, <1>8, <1>17, <2>1, <2>4 DEF Control, Kinds, Searching, Looking, Marking, Adds, Writes,
       Commits, Frees, Adding, Allocating, Writing
  <2>7. Good(w, {}, loc, m)'
    BY <2>5, <2>6 DEF Good
  <2> QED
    BY <2>7
<1>19. CASE alloc.purpose = "extend"
  <2>1. pc' = "data" /\ file' = file /\ cur' = c
    BY <1>6, <1>19 DEF Zero, Goto
  <2>2. Writes(w)'
    BY <1>2, <1>8, <1>10, <1>14, <1>16, <1>19, <2>1 DEF Writes, Writing, Allocating
  <2>3. Structure(w, {})'
    BY <1>15, <2>1 DEF Structure, Moving
  <2>4. Control(w, {}, loc, m)'
    BY <1>2, <1>7, <1>8, <1>19, <2>1, <2>2 DEF Control, Kinds, Searching, Looking, Marking, Creates, Adds,
       Commits, Frees, Adding, Allocating, Creating
  <2>5. Good(w, {}, loc, m)'
    BY <2>3, <2>4 DEF Good
  <2> QED
    BY <2>5
<1>20. CASE alloc.purpose = "first"
  <2>1. pc' = "link" /\ file' = [file EXCEPT !.first = alloc.new] /\ cur' = dir
    BY <1>20 DEF Zero, Goto
  <2>2. file'.first = c /\ c # NONE
    BY <1>2, <1>6, <2>1, Constants
  <2>3. MayLead(disk', w, dir, Name, c) /\ Held(disk', w, dir, Name, c)
    <3>1. MayLead(disk', w, dir, Name, NONE)
      BY <1>10, <1>14, <1>20
    <3>2. Unlisted(disk', w, c)
      BY <1>10, <1>14, <1>20
    <3> QED
      BY <3>1, <3>2 DEF MayLead, Held, Unlisted
  <2>4. \A n : Passed(disk', w, dir, dir, n)
    BY <1>7, PassedAtHead
  <2>5. Writes(w)'
    BY <1>2, <1>8, <1>16, <1>20, <2>1, <2>2, <2>3, <2>4 DEF Writes, Writing, Allocating, Covered
  <2>6. Structure(w, {})'
    BY <1>15, <2>1 DEF Structure, Moving
  <2>7. Control(w, {}, loc, m)'
    BY <1>2, <1>7, <1>8, <1>20, <2>1, <2>5 DEF Control, Kinds, Searching, Looking, Marking, Creates, Adds,
       Commits, Frees, Adding, Allocating, Creating
  <2>8. Good(w, {}, loc, m)'
    BY <2>6, <2>7 DEF Good
  <2> QED
    BY <2>8
<1> QED
  BY <1>2, <1>8, <1>17, <1>19, <1>20 DEF Purposes

\* A cluster that a directory grows by is zeroed, or was without entries already.
LEMMA ZeroAwaiting ==
  ASSUME Typed, Typed', ~ Damaged', Zero, NEW w, Awaiting(w), NEW loc, NEW m
  PROVE  Good(w, {}, loc, m)'
<1>1. /\ pc = "zero" /\ command' = command /\ command # NULL
      /\ UNCHANGED <<fat, cache, rest, tries, dir, alloc>>
      /\ disk \in Disks /\ disk' \in Disks /\ fat' = fat /\ Seen' = Seen
      /\ file.first \in Cluster \cup {NONE}
  BY ZeroIs, TypesAre
<1>2. faults' \in Nat /\ faults \in Nat /\ (faults' = 0 => faults = 0) /\ Name' = Name
  BY ZeroIs
<1>3. PICK c \in Cluster : c = alloc.new
  BY ZeroIs
<1>4. PICK z \in Disks : z = Zeroed
  BY AwaitingIs
<1>5. /\ Differs(disk, z, c) /\ Differs(z, disk, c) /\ Vacant(z, w, c)
      /\ w \in Witness /\ Chains(fat, w) /\ dir \in Cluster /\ dir \in w.dirs /\ w.own[dir] = dir
      /\ c # dir
  BY <1>3, <1>4, AwaitingIs
<1>6. /\ alloc.purpose = "add" /\ alloc.prev # NONE /\ command.kind \in {"touch", "mkdir", "write"}
      /\ Sane(fat, Seen, z, w, NONE, {}, faults) /\ Creates(z, w)
      /\ w.own[c] = dir /\ (faults = 0 => NoEnd(z, w, dir, c))
  BY <1>3, <1>4 DEF Awaiting
<1>7. /\ Sane(fat, Seen, disk', w, NONE, {}, faults)
      /\ \A b \in Cluster : b # c => disk'[b] = z[b]
      /\ \A k, f : /\ NoFirst(z, w, dir, k) => NoFirst(disk', w, dir, k)
                   /\ Unlisted(z, w, f) => Unlisted(disk', w, f)
  <2>1. CASE disk' = z
    BY <1>6, <2>1
  <2>2. CASE disk' = disk /\ ~ Unzeroed
    <3>1. Vacant(disk, w, c) /\ Sane(fat, Seen, disk, w, NONE, {}, faults)
      BY <1>3, <2>2, AwaitingIs
    <3>2. \A k, f : /\ NoFirst(z, w, dir, k) => NoFirst(disk, w, dir, k)
                    /\ Unlisted(z, w, f) => Unlisted(disk, w, f)
      BY <1>2, <1>5, <1>6, <3>1, HeldVacant
    <3> QED
      BY <1>5, <2>2, <3>1, <3>2 DEF Differs
  <2> QED
    BY <1>4, <2>1, <2>2, ZeroIs
<1>8. Sane(fat', Seen', disk', w, NONE, {}, faults')
  BY <1>1, <1>2, <1>7, SaneFaults
<1>9. pc' = "add" /\ file' = file /\ cur' = c
  BY <1>3, <1>6 DEF Zero, Goto
<1>10. Creating /\ Adding /\ pc # "dots"
  BY <1>1, <1>6 DEF Creating, Adding, Allocating
<1>11. /\ command.kind = "write" \/ faults = 0 => NoFirst(z, w, dir, Name)
       /\ command.kind = "write" => file.first = NONE
       /\ command.kind = "mkdir" => /\ Unlisted(z, w, file.first) /\ Blank(z, w, file.first)
                                    /\ faults = 0 => DotsOf(z, file.first, dir)
  BY <1>6, <1>10 DEF Creates
<1>12. ASSUME command.kind = "mkdir"
       PROVE  Blank(disk', w, file.first) /\ (faults = 0 => DotsOf(disk', file.first, dir))
  <2>1. w.own[file.first] = file.first /\ file.first # dir
    BY <1>5, <1>11, <1>12 DEF Unlisted
  <2>2. file.first \in Cluster
    BY <1>1, <1>12, <1>6 DEF Typed, ControlTyped, FileTyped
  <2>3. \A b \in Cluster : w.own[b] = file.first => disk'[b] = z[b]
    BY <1>6, <1>7, <2>1
  <2> QED
    BY <1>11, <1>12, <2>1, <2>2, <2>3 DEF Blank, DotsOf
<1>13. Creates(disk, w)'
  BY <1>1, <1>2, <1>7, <1>9, <1>11, <1>12 DEF Creates, Creating, Adding, Allocating
<1>14. faults = 0 => NoEnd(disk', w, dir, c)
  <2>1. w.rank[c] \in Nat
    BY <1>5, WitnessIs
  <2>2. \A b \in Cluster : w.rank[b] < w.rank[c] => b # c
    BY <2>1
  <2> QED
    BY <1>6, <1>7, <2>2 DEF NoEnd
<1>15. Adds(w)'
  BY <1>1, <1>2, <1>9, <1>14 DEF Adds
<1>16. Structure(w, {})'
  BY <1>8, <1>9 DEF Structure, Moving
<1>17. Control(w, {}, loc, m)'
  BY <1>1, <1>5, <1>6, <1>9, <1>13, <1>15 DEF Control, Kinds, Searching, Looking, Marking, Writes,
     Commits, Frees, Adding, Allocating, Writing
<1> QED
  BY <1>16, <1>17 DEF Good

LEMMA ZeroPromise ==
  ASSUME Typed, Typed', Promise, Zero
  PROVE  Promise'
<1>1. SUFFICES ASSUME ~ Damaged' PROVE \E w, going, loc, m : Good(w, going, loc, m)'
  BY DEF Promise
<1>2. ~ Damaged
  BY <1>1, ZeroIs
<1>3. ASSUME NEW w, NEW going, NEW loc, NEW m, Good(w, going, loc, m)
      PROVE  Good(w, {}, loc, m)'
  BY <1>1, <1>3, ZeroFile
<1>4. ASSUME NEW w, NEW loc, NEW m, Awaiting(w)
      PROVE  Good(w, {}, loc, m)'
  BY <1>1, <1>4, ZeroAwaiting
<1> QED
  BY <1>2, <1>3, <1>4 DEF Promise

LEMMA DotsPromise ==
  ASSUME Typed, Typed', Promise, Dots
  PROVE  Promise'
<1>1. SUFFICES ASSUME ~ Damaged' PROVE \E w, going, loc, m : Good(w, going, loc, m)'
  BY DEF Promise
<1>2. /\ pc = "dots" /\ command' = command /\ command # NULL
      /\ UNCHANGED <<fat, cache, rest, tries, dir, file, alloc>>
      /\ disk \in Disks /\ disk' \in Disks /\ alloc.new \in Cluster /\ file.first \in Cluster
  BY TypesAre DEF Typed, DiskTyped, Disks, ControlTyped, AllocTyped, FileTyped, Dots, Goto
<1>3. Reads(F, F') /\ Grows(F, F') /\ fat' = fat /\ Seen' = Seen
  BY <1>2, AloneGrows DEF Dots, Succeeds, Fails, WriteFails
<1>4. ~ Damaged /\ faults' \in Nat /\ faults \in Nat /\ (faults' = 0 => faults = 0)
  BY <1>1, <1>3, NotMended
<1>5. PICK w, going, loc, m : Good(w, going, loc, m)
  BY <1>2, <1>4, PromiseIs
<1>6. PICK c \in Cluster : c = file.first
  BY <1>2
<1>7. /\ going = {} /\ dir \in w.dirs /\ dir \in Cluster /\ w.own[dir] = dir /\ w \in Witness
      /\ Chains(fat, w) /\ Sane(fat, Seen, disk, w, NONE, {}, faults) /\ dir # NONE
      /\ command.kind = "mkdir"
  BY <1>2, <1>5, GoodIs DEF Good, Control, Frees, Kinds
<1>8. Unlisted(disk, w, c) /\ alloc.new = c /\ Alone(w, c) /\ (faults = 0 => NoFirst(disk, w, dir, Name))
  BY <1>2, <1>5, <1>6, <1>7 DEF Good, Control, Creates, Creating
<1>9. Name' = Name
  BY <1>2 DEF Name
<1>10. PICK dots : dots = [i \in Slot |-> CASE i = 1 -> Dot(c) [] i = 2 -> Dot(dir) [] OTHER -> END]
  OBVIOUS
<1>11. ASSUME Write(c, dots)
       PROVE  /\ Sane(fat', Seen', disk', w, NONE, {}, faults')
              /\ DotsOf(disk', c, dir) /\ Blank(disk', w, c)
              /\ \A k, f : /\ NoFirst(disk, w, dir, k) => NoFirst(disk', w, dir, k)
                           /\ Unlisted(disk, w, f) => Unlisted(disk', w, f)
  <2>1. disk' = [disk EXCEPT ![c] = dots]
    BY <1>11 DEF Write
  <2>2. disk \in [Cluster -> [Slot -> Units]]
    BY <1>2 DEF Disks
  <2>3. Differs(disk, disk', c)
    BY <1>2, <2>1, <2>2 DEF Differs
  <2>4. disk'[c] = dots
    BY <2>1, <2>2
  <2>5. DotsOf(disk', c, dir) /\ \A i \in Slot : ~ Live(disk'[c][i])
    BY <1>10, <2>4, Constants, UnitsAre DEF DotsOf
  <2>6. Vacant(disk, w, c) /\ Vacant(disk', w, c)
    BY <1>8 DEF Unlisted, Vacant
  <2>7. Sane(fat, Seen, disk', w, NONE, {}, faults)
    BY <1>2, <1>4, <1>7, <2>3, <2>6, SaneVacant
  <2>8. Sane(fat', Seen', disk', w, NONE, {}, faults')
    BY <1>3, <1>4, <2>7, SaneFaults
  <2>9. \A k, f : /\ NoFirst(disk, w, dir, k) => NoFirst(disk', w, dir, k)
                  /\ Unlisted(disk, w, f) => Unlisted(disk', w, f)
    BY <1>2, <1>4, <1>7, <2>3, <2>6, HeldVacant
  <2>10. Blank(disk', w, c)
    BY <1>8, <2>5 DEF Alone, Blank
  <2> QED
    BY <2>5, <2>8, <2>9, <2>10
<1>12. CASE WriteFails(c, dots) /\ UNCHANGED cur /\ Goto("undo")
  <2>1. pc' = "undo" /\ (disk' = disk \/ Write(c, dots))
    BY <1>12 DEF Goto, WriteFails
  <2>2. Sane(fat', Seen', disk', w, NONE, {}, faults') /\ Unlisted(disk', w, c)
    <3>1. CASE disk' = disk
      BY <1>1, <1>2, <1>3, <1>5, <1>7, <1>8, <3>1, Quiet
    <3>2. CASE Write(c, dots)
      BY <1>8, <1>11, <3>2
    <3> QED
      BY <2>1, <3>1, <3>2
  <2>3. Structure(w, {})'
    BY <2>1, <2>2 DEF Structure, Moving
  <2>4. Creates(disk, w)'
    BY <1>2, <1>6, <1>7, <2>1, <2>2 DEF Creates, Creating, Adding, Allocating
  <2>5. Control(w, {}, loc, m)'
    BY <1>2, <1>7, <2>1, <2>4 DEF Control, Kinds, Searching, Looking, Marking, Adds, Writes,
       Commits, Frees, Adding, Allocating, Writing
  <2>6. Good(w, {}, loc, m)'
    BY <2>3, <2>5 DEF Good
  <2> QED
    BY <2>6
<1>13. CASE Write(c, dots) /\ Succeeds /\ cur' = dir /\ Goto("add")
  <2>1. faults' = faults /\ cur' = dir /\ pc' = "add"
    BY <1>13 DEF Succeeds, Goto
  <2>2. Sane(fat', Seen', disk', w, NONE, {}, faults') /\ DotsOf(disk', c, dir) /\ Blank(disk', w, c)
    BY <1>11, <1>13
  <2>3. Unlisted(disk', w, c) /\ (faults = 0 => NoFirst(disk', w, dir, Name))
    BY <1>8, <1>11, <1>13
  <2>4. NoEnd(disk', w, dir, dir)
    BY <1>7, PassedAtHead
  <2>5. Structure(w, {})'
    BY <2>1, <2>2 DEF Structure, Moving
  <2>6. Creates(disk, w)'
    BY <1>2, <1>4, <1>6, <1>7, <1>9, <2>1, <2>2, <2>3 DEF Creates, Creating, Adding, Allocating
  <2>7. Adds(w)'
    BY <1>2, <2>1, <2>4 DEF Adds
  <2>8. Control(w, {}, loc, m)'
    BY <1>2, <1>7, <2>1, <2>6, <2>7 DEF Control, Kinds, Searching, Looking, Marking, Writes,
       Commits, Frees, Adding, Allocating, Writing
  <2>9. Good(w, {}, loc, m)'
    BY <2>5, <2>8 DEF Good
  <2> QED
    BY <2>9
<1>14. dots = [i \in Slot |-> CASE i = 1 -> Dot(alloc.new) [] i = 2 -> Dot(dir) [] OTHER -> END]
  BY <1>8, <1>10
<1> QED
  BY <1>8, <1>12, <1>13, <1>14 DEF Dots

\* The entry could not be added: what was allocated for a directory is to be given back.
LEMMA NotAddedPromise ==
  ASSUME Typed, NEW w, NEW loc, NEW m, NotAdded, command # NULL,
         Sane(fat', Seen', disk', w, NONE, {}, faults'), faults' \in Nat,
         dir \in w.dirs, command.kind = "mkdir" => Unlisted(disk', w, file.first)
  PROVE  Good(w, {}, loc, m)'
<1>1. CASE command.kind = "mkdir"
  <2>1. pc' = "undo" /\ command' = command /\ UNCHANGED <<rest, tries, dir, cur, file, alloc>>
    BY <1>1 DEF NotAdded, Goto, locals
  <2>2. Structure(w, {})'
    BY <2>1 DEF Structure, Moving
  <2>3. Creates(disk, w)'
    BY <1>1, <2>1 DEF Creates, Creating, Adding, Allocating
  <2>4. Control(w, {}, loc, m)'
    BY <1>1, <2>1, <2>3 DEF Control, Kinds, Searching, Looking, Marking, Adds, Writes,
       Commits, Frees, Adding, Allocating, Writing
  <2> QED
    BY <2>2, <2>4 DEF Good
<1>2. CASE command.kind # "mkdir"
  BY <1>2, Returned DEF NotAdded
<1> QED
  BY <1>1, <1>2

LEMMA AddPromise ==
  ASSUME NamesTold, Typed, Typed', Promise, AddDirEntry
  PROVE  Promise'
<1>1. SUFFICES ASSUME ~ Damaged' PROVE \E w, going, loc, m : Good(w, going, loc, m)'
  BY DEF Promise
<1>2. /\ FTyped /\ cur \in Cluster /\ disk \in Disks /\ disk' \in Disks /\ pc = "add"
      /\ command \in Command /\ command # NULL /\ file.first \in Cluster \cup {NONE}
  BY TypesAre DEF Typed, DiskTyped, Disks, AddDirEntry
<1>3. \/ \E i \in Slot :
           /\ disk[cur][i] \in {END, DELETED}
           /\ \A j \in 1 .. i - 1 : disk[cur][j] \notin {END, DELETED}
           /\ AddFound(i)
      \/ \E n \in Cluster \cup {NONE} :
           /\ Onward(n)
           /\ faults' = faults => \A j \in Slot : disk[cur][j] \notin {END, DELETED}
           /\ IF n = NONE THEN AddExtend ELSE GoOn(n)
  BY <1>2, AddCases
<1>4. Reads(F, F') /\ Grows(F, F')
  <2>1. ASSUME NEW i \in Slot, AddFound(i) PROVE Reads(F, F') /\ Grows(F, F')
    <3>1. (command.kind = "mkdir") \in BOOLEAN
      OBVIOUS
    <3> QED
      BY <2>1, <3>1, AloneGrows DEF AddFound, Succeeds, Fails
  <2>2. ASSUME NEW n, Onward(n) PROVE Reads(F, F') /\ Grows(F, F')
    BY <2>2, TypesAre, ReadsGrows DEF Onward
  <2> QED
    BY <1>3, <2>1, <2>2
<1>5. ~ Damaged /\ faults' \in Nat /\ faults \in Nat /\ (faults' = 0 => faults = 0)
  BY <1>1, <1>4, NotMended
<1>6. PICK w, going, loc, m : Good(w, going, loc, m)
  BY <1>2, <1>5, PromiseIs
<1>7. command.kind \in {"touch", "mkdir", "write"} /\ going = {} /\ w.own[cur] = dir /\ dir \in w.dirs
      /\ w \in Witness /\ Chains(fat, w) /\ dir # NONE
      /\ dir \in Cluster /\ Sane(fat, Seen, disk, w, NONE, {}, faults)
  BY <1>2, <1>6, GoodIs DEF Good, Control, Kinds, Frees, Searching, Adding
<1>8. /\ command.kind = "write" \/ faults = 0 => NoFirst(disk, w, dir, Name)
      /\ command.kind = "write" => file.first = NONE
      /\ command.kind = "mkdir" => /\ Unlisted(disk, w, file.first) /\ file.first \in Cluster
                                   /\ Blank(disk, w, file.first)
                                   /\ faults = 0 => DotsOf(disk, file.first, dir)
      /\ faults = 0 => NoEnd(disk, w, dir, cur)
  <2>1. Creating /\ Adding
    BY <1>2 DEF Creating, Adding
  <2> QED
    BY <1>2, <1>6, <2>1 DEF Good, Control, Creates, Adds, Typed, ControlTyped, FileTyped
<1>9. disk' = disk => Sane(fat', Seen', disk', w, NONE, {}, faults')
  BY <1>1, <1>2, <1>4, <1>6, <1>7, Quiet
<1>10. CASE NotAdded /\ disk' = disk
  <2>1. Good(w, {}, loc, m)'
    BY <1>2, <1>5, <1>7, <1>8, <1>9, <1>10, NotAddedPromise
  <2> QED
    BY <2>1
<1>11. ASSUME NEW n \in Cluster, Onward(n), GoOn(n),
              faults' = faults => \A j \in Slot : disk[cur][j] \notin {END, DELETED}
       PROVE  Good(w, {}, loc, m)'
  <2>1. /\ cur' = n /\ pc' = "add" /\ command' = command
        /\ UNCHANGED <<disk, rest, tries, dir, count, file, done, alloc>>
    BY <1>2, <1>11 DEF GoOn, Goto
  <2>2. n # NONE /\ pc # "commit"
    BY <1>2, Constants
  <2>3. w.own[n] = dir /\ n = fat[cur]
    BY <1>6, <1>7, <1>11, <2>2, SearchOn
  <2>4. Name' = Name
    BY <2>1 DEF Name
  <2>5. faults' = 0 => NoEnd(disk, w, dir, n)
    BY <1>2, <1>5, <1>7, <1>8, <1>11, <2>3, PassedOn
  <2>6. Structure(w, {})'
    BY <1>9, <2>1 DEF Structure, Moving
  <2>7. Creates(disk, w)'
    BY <1>2, <1>5, <1>8, <2>1, <2>4 DEF Creates, Creating, Adding, Allocating
  <2>8. Adds(w)'
    BY <2>1, <2>5 DEF Adds
  <2>9. Control(w, {}, loc, m)'
    BY <1>2, <1>7, <2>1, <2>3, <2>7, <2>8 DEF Control, Kinds, Searching, Looking, Marking, Writes,
       Commits, Frees, Adding, Allocating, Writing
  <2> QED
    BY <2>6, <2>9 DEF Good
<1>12. ASSUME Onward(NONE), AddExtend,
              faults' = faults => \A j \in Slot : disk[cur][j] \notin {END, DELETED}
       PROVE  Good(w, {}, loc, m)'
  <2>1. /\ pc' = "scan" /\ command' = command /\ alloc'.prev = cur /\ alloc'.purpose = "add"
        /\ UNCHANGED <<disk, rest, tries, dir, cur, count, file, done>>
    BY <1>12 DEF AddExtend, Allocate, Goto
  <2>2. cur # NONE /\ pc # "commit"
    BY <1>2, Constants
  <2>3. faults' = faults => fat[cur] \notin Cluster
    BY <1>6, <1>7, <1>12, <2>2, SearchOn
  <2>4. Name' = Name
    BY <2>1 DEF Name
  <2>5. faults' = 0 => \A b \in Cluster, j \in Slot : w.own[b] = dir => disk[b][j] # END
    <3>1. SUFFICES ASSUME faults' = 0 PROVE \A b \in Cluster, j \in Slot : w.own[b] = dir => disk[b][j] # END
      OBVIOUS
    <3>2. fat[cur] \notin Cluster /\ NoEnd(disk, w, dir, cur) /\ \A j \in Slot : disk[cur][j] # END
      BY <1>5, <1>8, <1>12, <2>3, <3>1
    <3> QED
      BY <1>2, <1>7, <3>2, NoEndAtAll
  <2>6. Structure(w, {})'
    BY <1>9, <2>1 DEF Structure, Moving
  <2>7. Creates(disk, w)'
    BY <1>2, <1>5, <1>8, <2>1, <2>4 DEF Creates, Creating, Adding, Allocating
  <2>8. Adds(w)'
    BY <1>7, <2>1, <2>5 DEF Adds
  <2>9. Control(w, {}, loc, m)'
    BY <1>2, <1>7, <2>1, <2>2, <2>7, <2>8 DEF Control, Kinds, Searching, Looking, Marking, Writes,
       Commits, Frees, Adding, Allocating, Writing
  <2> QED
    BY <2>6, <2>9 DEF Good
<1>13. ASSUME NEW i \in Slot, disk[cur][i] \in {END, DELETED},
              \A j \in 1 .. i - 1 : disk[cur][j] \notin {END, DELETED},
              UNCHANGED <<fat, cache>>, Write(cur, EntryAdded(i)), fat' = fat, Seen' = Seen,
              \/ /\ command.kind = "write" /\ Goto("next") /\ UNCHANGED locals
              \/ \E ok : Return(ok, << >>)
       PROVE  \E v : Good(v, {}, loc, m)'
  <2>1. PICK e : e = (IF command.kind = "mkdir" THEN Unit("dir", Name, file.first, 0)
                      ELSE Unit("file", Name, NONE, 0))
    OBVIOUS
  <2>2. disk' = [disk EXCEPT ![cur] = [j \in Slot |-> IF j = i THEN e
                      ELSE IF j = i + 1 /\ disk[cur][i] = END THEN END ELSE disk[cur][j]]]
    BY <1>13, <2>1 DEF Write, EntryAdded
  <2>3. disk \in [Cluster -> [Slot -> Units]]
    BY <1>2 DEF Disks
  <2>4. Differs(disk, disk', cur)
    BY <1>2, <2>2, <2>3 DEF Differs
  <2>5. \A j \in Slot : disk'[cur][j] = IF j = i THEN e
                      ELSE IF j = i + 1 /\ disk[cur][i] = END THEN END ELSE disk[cur][j]
    BY <1>2, <2>2, <2>3
  <2>6. Name \in Names
    BY <1>2, CommandIs DEF Name
  <2>7. e \in Units /\ Live(e)
    BY <1>2, <1>8, <2>1, <2>6, UnitsAre
  <2>8. /\ e.name = Name
        /\ e.kind = (IF command.kind = "mkdir" THEN "dir" ELSE "file")
        /\ e.first = (IF command.kind = "mkdir" THEN file.first ELSE NONE)
    BY <2>1 DEF Unit
  <2>9. e.kind = "dir" => /\ e.first \in Cluster /\ Unlisted(disk, w, e.first)
                          /\ Blank(disk, w, e.first) /\ e.name \notin Written
    BY <1>2, <1>8, <2>8 DEF NamesTold, Name
  <2>10. e.kind = "dir" /\ faults' = 0 => DotsOf(disk, e.first, dir)
    BY <1>5, <1>8, <2>8
  <2>11. faults' = 0 => NoFirst(disk, w, dir, e.name) /\ NoEnd(disk, w, dir, cur)
    BY <1>5, <1>8, <2>8
  <2>12. e.kind = "file" => e.first = NONE
    BY <2>8
  <2> DEFINE v == Listing(w, e)
  <2>13. /\ Sane(fat, Seen, disk', v, NONE, {}, faults')
         /\ NoFirst(disk, w, dir, e.name) => \A b, j : First(disk', v, dir, e.name, b, j) => b = cur /\ j = i
    <3>1. i \in Slot /\ e \in Units
      BY <1>13, <2>7
    <3>7. PICK q : q = faults'
      OBVIOUS
    <3>2. Fits(disk, w, q, cur, dir, i, e)
      BY <1>7, <1>13, <2>7, <2>9, <2>10, <2>11, <2>12, <3>7 DEF Fits
    <3>3. Puts(disk, disk', cur, i, e)
      BY <2>4, <2>5 DEF Puts
    <3>4. disk \in Disks /\ cur \in Cluster /\ q \in Nat /\ Sane(fat, Seen, disk, w, NONE, {}, q)
      BY <1>2, <1>5, <1>7, <3>7, SaneFaults
    <3> HIDE DEF v
    <3>5. Sane(fat, Seen, disk', Listing(w, e), NONE, {}, q)
      BY ONLY <3>1, <3>2, <3>3, <3>4, SaneAdd
    <3>6. NoFirst(disk, w, dir, e.name) => OnlyFirst(disk', Listing(w, e), dir, e.name, cur, i)
      BY ONLY <3>1, <3>2, <3>3, <3>4, SaneAdd
    <3> QED
      BY <3>5, <3>6, <3>7 DEF v, OnlyFirst
  <2>14. dir \in v.dirs /\ v.own = w.own
    BY <1>7 DEF Listing
  <2> HIDE DEF v
  <2>16. Sane(fat', Seen', disk', v, NONE, {}, faults')
    BY <1>13, <2>13
  <2>17. CASE command.kind = "write" /\ Goto("next") /\ UNCHANGED locals
    <3>1. pc' = "next" /\ command' = command /\ UNCHANGED <<rest, tries, dir, cur, file, done, alloc>>
      BY <2>17 DEF Goto, locals
    <3>2. MayLead(disk', v, dir, Name, NONE)
      BY <1>2, <1>8, <2>5, <2>8, <2>13, <2>17 DEF MayLead
    <3>3. Name' = Name
      BY <3>1 DEF Name
    <3>4. Writes(v)'
      BY <1>8, <2>17, <3>1, <3>2, <3>3 DEF Writes, Writing, Allocating
    <3>5. Structure(v, {})'
      BY <2>16, <3>1 DEF Structure, Moving
    <3>6. Control(v, {}, loc, m)'
      BY <1>2, <2>14, <2>17, <3>1, <3>4 DEF Control, Kinds, Searching, Looking, Marking, Creates, Adds,
         Commits, Frees, Adding, Allocating, Creating
    <3>7. Good(v, {}, loc, m)'
      BY <3>5, <3>6 DEF Good
    <3> QED
      BY <3>7
  <2>18. CASE \E ok : Return(ok, << >>)
    <3>1. Good(v, {}, loc, m)'
      BY <1>5, <2>16, <2>18, Returned
    <3> QED
      BY <3>1
  <2> QED
    BY <1>13, <2>17, <2>18
<1>14. ASSUME NEW i \in Slot, disk[cur][i] \in {END, DELETED},
              \A j \in 1 .. i - 1 : disk[cur][j] \notin {END, DELETED}, AddFound(i)
       PROVE  \E v : Good(v, {}, loc, m)'
  <2>1. CASE NotAdded /\ disk' = disk
    BY <1>2, <1>5, <1>7, <1>8, <1>9, <2>1, NotAddedPromise
  <2>2. CASE Write(cur, EntryAdded(i)) /\ Succeeds
             /\ IF command.kind = "write" THEN Goto("next") /\ UNCHANGED locals ELSE Return(TRUE, << >>)
    <3>1. UNCHANGED <<fat, cache>> /\ fat' = fat /\ Seen' = Seen
      BY <1>14, <2>2, AloneGrows DEF AddFound, Succeeds
    <3> QED
      BY <1>13, <1>14, <2>2, <3>1
  <2>3. CASE Write(cur, EntryAdded(i)) /\ FailsWith("write", command.kind = "mkdir") /\ NotAdded
    <3>1. (command.kind = "mkdir") \in BOOLEAN
      OBVIOUS
    <3>2. UNCHANGED <<fat, cache>> /\ fat' = fat /\ Seen' = Seen
      BY <1>14, <2>3, <3>1, AloneGrows DEF AddFound
    <3>3. command.kind # "mkdir"
      BY <1>1, <2>3 DEF FailsWith, Damaged
    <3>4. Return(FALSE, << >>)
      BY <2>3, <3>3 DEF NotAdded
    <3> QED
      BY <1>13, <1>14, <2>3, <3>2, <3>4
  <2> QED
    BY <1>14, <2>1, <2>2, <2>3 DEF AddFound
<1> QED
  BY <1>3, <1>11, <1>12, <1>14

\* Nothing could be allocated.
LEMMA NoClusterPromise ==
  ASSUME Typed, NEW w, NEW loc, NEW m, Good(w, {}, loc, m), pc = "scan", NoCluster, command # NULL,
         Sane(fat', Seen', disk', w, NONE, {}, faults'), faults' \in Nat, disk' = disk
  PROVE  Good(w, {}, loc, m)'
<1>1. dir \in w.dirs /\ alloc.purpose \in Purposes
  BY GoodIs DEF Typed, ControlTyped, AllocTyped
<1>2. CASE alloc.purpose = "mkdir"
  BY <1>2, Returned DEF NoCluster
<1>3. CASE alloc.purpose = "add"
  <2>1. command.kind = "mkdir" => Unlisted(disk, w, file.first)
    BY <1>3 DEF Good, Control, Creates, Adding, Allocating
  <2>2. NotAdded
    BY <1>3 DEF NoCluster
  <2> QED
    BY <1>1, <2>1, <2>2, NotAddedPromise
<1>4. CASE alloc.purpose \in {"first", "extend"}
  <2>1. Goto("wrote") /\ UNCHANGED locals
    BY <1>4 DEF NoCluster
  <2>2. pc' = "wrote" /\ command' = command /\ UNCHANGED <<rest, tries, dir, cur, file, alloc>>
    BY <2>1 DEF Goto, locals
  <2>3. command.kind = "write" /\ Writing
    BY <1>4 DEF Good, Control, Kinds, Allocating, Writing
  <2>4. MayLead(disk, w, dir, Name, file.first)
        /\ (file.first # NONE => Held(disk, w, dir, Name, file.first))
    BY <2>3 DEF Good, Control, Writes
  <2>5. Name' = Name
    BY <2>2 DEF Name
  <2>6. Writes(w)'
    BY <2>2, <2>4, <2>5 DEF Writes, Writing, Allocating
  <2>7. Structure(w, {})'
    BY <2>2 DEF Structure, Moving
  <2>8. Control(w, {}, loc, m)'
    BY <1>1, <2>2, <2>3, <2>6 DEF Control, Kinds, Searching, Looking, Marking, Creates, Adds, Commits,
       Frees, Adding, Allocating, Creating
  <2> QED
    BY <2>7, <2>8 DEF Good
<1> QED
  BY <1>1, <1>2, <1>3, <1>4 DEF Purposes

LEMMA ScanPromise ==
  ASSUME Typed, Typed', Promise, Scan
  PROVE  Promise'
<1>1. SUFFICES ASSUME ~ Damaged' PROVE \E w, going, loc, m : Good(w, going, loc, m)'
  BY DEF Promise
<1>2. /\ FTyped /\ F \in FatState /\ crashes \in Nat /\ pc = "scan" /\ disk' = disk /\ command # NULL
      /\ alloc.sector \in FatSector /\ alloc.prev \in Cluster \cup {NONE}
      /\ alloc \in [sector : FatSector, prev : Cluster \cup {NONE}, new : Cluster \cup {NONE},
                    purpose : Purposes \cup {"none"}]
      /\ alloc.purpose \in Purposes
  BY TypesAre DEF Typed, ControlTyped, AllocTyped, Scan
<1>3. \/ Reads(F, F') /\ ScanOn
      \/ \E f \in FatState, c \in Cluster : \E k \in Claim(f, c) :
           /\ Reads(F, f) /\ f.cache.sector = Sector(c) /\ SeenIn(f)[c] = FREE
           /\ Becomes(k.f)
           /\ IF k.ok THEN Take(c) ELSE NoCluster
  BY <1>2, ScanCases
<1>4. CASE Reads(F, F') /\ ScanOn
  <2>1. Grows(F, F')
    BY <1>2, <1>4, ReadsGrows
  <2>2. ~ Damaged /\ faults' \in Nat /\ (faults' = 0 => faults = 0)
    BY <1>1, <2>1, NotMended
  <2>3. PICK w, going, loc, m : Good(w, going, loc, m)
    BY <1>2, <2>2, PromiseIs
  <2>4. going = {} /\ dir \in w.dirs
    BY <1>2, <2>3, GoodIs DEF Good, Control, Frees
  <2>5. Sane(fat', Seen', disk', w, NONE, {}, faults')
    BY <1>1, <1>2, <1>4, <2>3, <2>4, Quiet
  <2>6. CASE NoCluster
    <3>1. Good(w, {}, loc, m)'
      BY <1>2, <2>2, <2>3, <2>4, <2>5, <2>6, NoClusterPromise
    <3> QED
      BY <3>1
  <2>7. CASE ~ NoCluster
    <3>1. /\ alloc' = [alloc EXCEPT !.sector = @ + 1] /\ pc' = "scan" /\ command' = command
          /\ UNCHANGED <<rest, tries, dir, cur, count, file, done>>
      BY <1>4, <2>7 DEF ScanOn, Goto
    <3>2. alloc'.prev = alloc.prev /\ alloc'.purpose = alloc.purpose /\ alloc'.new = alloc.new
      BY <1>2, <3>1
    <3>3. Name' = Name
      BY <3>1 DEF Name
    <3>4. /\ Kinds' /\ Creates(disk, w)' /\ Adds(w)' /\ Writes(w)'
      <4>1. Kinds /\ Creates(disk, w) /\ Adds(w) /\ Writes(w)
        BY <2>3 DEF Good, Control
      <4>2. Kinds'
        BY <1>2, <3>1, <3>2, <4>1 DEF Kinds, Adding, Allocating
      <4>3. Creates(disk, w)'
        BY <1>2, <2>2, <3>1, <3>2, <3>3, <4>1 DEF Creates, Creating, Adding, Allocating
      <4>4. Adds(w)'
        BY <1>2, <2>2, <3>1, <3>2, <4>1 DEF Adds
      <4>5. Writes(w)'
        BY <1>2, <3>1, <3>2, <3>3, <4>1 DEF Writes, Writing, Allocating
      <4> QED
        BY <4>2, <4>3, <4>4, <4>5
    <3>5. Structure(w, {})'
      BY <2>5, <3>1 DEF Structure, Moving
    <3>6. Control(w, {}, loc, m)'
      BY <1>2, <2>4, <3>1, <3>4 DEF Control, Searching, Looking, Marking, Commits, Frees
    <3>7. Good(w, {}, loc, m)'
      BY <3>5, <3>6 DEF Good
    <3> QED
      BY <3>7
  <2> QED
    BY <2>6, <2>7
<1>5. ASSUME NEW f \in FatState, NEW c \in Cluster, NEW k \in Claim(f, c),
             Reads(F, f), f.cache.sector = Sector(c), SeenIn(f)[c] = FREE, Becomes(k.f),
             IF k.ok THEN Take(c) ELSE NoCluster
      PROVE  \E w, going, loc, m : Good(w, going, loc, m)'
  <2>1. Grows(f, k.f) /\ k.f \in FatState
    BY <1>2, <1>5, ClaimGrows DEF Grows
  <2>2. Grows(F, F') /\ F' = k.f
    BY <1>2, <1>5, <2>1, ReadsGrows, GrowsTransitive, BecomesIs
  <2>3. ~ Damaged /\ ~ lost' /\ faults' \in Nat /\ faults \in Nat /\ (faults' = 0 => faults = 0)
    BY <1>1, <2>2, NotMended
  <2>4. PICK w, going, loc, m : Good(w, going, loc, m)
    BY <1>2, <2>3, PromiseIs
  <2>5. /\ going = {} /\ dir \in w.dirs /\ dir # NONE /\ w \in Witness
        /\ Sane(fat, Seen, disk, w, NONE, {}, faults) /\ Chains(fat, w)
        /\ \A d \in Cluster : w.own[d] # NONE => Seen[d] = fat[d]
    BY <1>2, <2>4, GoodIs DEF Good, Control, Frees
  <2>6. /\ \A d \in Cluster : {f.fat[d], SeenIn(f)[d]} \subseteq {fat[d], Seen[d]}
        /\ FREE \in {fat[c], Seen[c]}
    BY <1>5 DEF Reads, Seen, F
  <2>7. w.own[c] = NONE
    BY <2>5, <2>6 DEF Chains
  <2>8. PICK p \in Cluster \cup {NONE} : p = alloc.prev
    BY <1>2
  <2>9. p # NONE => w.own[p] # NONE
    <3>1. Allocating /\ (p = NONE <=> alloc.purpose \in {"mkdir", "first"})
      BY <1>2, <2>4, <2>8 DEF Good, Control, Kinds, Allocating
    <3>2. /\ alloc.purpose = "add" => w.own[p] = dir
          /\ alloc.purpose = "extend" => w.own[p] = file.first /\ file.first # NONE
      BY <1>2, <2>4, <2>8 DEF Good, Control, Adds, Writes
    <3> QED
      BY <1>2, <2>5, <3>1, <3>2 DEF Purposes
  <2>10. /\ k.ok \in BOOLEAN
         /\ k.ok => Claims(f, c, p, k.f)
         /\ ~ k.ok => Unclaims(f, c, k.f)
    <3>1. alloc.prev # c
      BY <2>7, <2>8, <2>9, Constants
    <3> QED
      BY <1>2, <1>5, <2>8, <3>1, ClaimIs
  <2>11. fat' = k.f.fat /\ cache' = k.f.cache /\ lost' = k.f.lost /\ Seen' = SeenIn(k.f)
    BY <1>5, <2>2 DEF Becomes, Seen
  <2>12. CASE ~ k.ok
    <3>1. \A d \in Cluster :
            /\ {fat'[d], Seen'[d]} \subseteq {fat[d], Seen[d], FREE, EOF}
            /\ d # c => {fat'[d], Seen'[d]} \subseteq {fat[d], Seen[d]}
      BY <2>6, <2>10, <2>11, <2>12 DEF Unclaims
    <3>2. Sane(fat', Seen', disk, w, NONE, {}, faults')
      <4>1. \A d \in Cluster : {fat'[d], Seen'[d]} \subseteq {fat[d], Seen[d], FREE, EOF}
        BY <3>1
      <4>2. \A d \in Cluster : w.own[d] # NONE => {fat'[d], Seen'[d]} \subseteq {fat[d], Seen[d]}
        BY <2>7, <3>1
      <4> QED
        BY <2>3, <2>5, <4>1, <4>2, SaneTable
    <3>3. Good(w, {}, loc, m)'
      BY <1>2, <1>5, <2>3, <2>4, <2>5, <2>12, <3>2, NoClusterPromise
    <3> QED
      BY <3>3
  <2>13. CASE k.ok
    <3>1. /\ alloc' = [alloc EXCEPT !.new = c] /\ pc' = "commit" /\ command' = command
          /\ UNCHANGED <<rest, tries, dir, cur, count, file, done>>
      BY <1>5, <2>13 DEF Take, Goto
    <3>2. alloc'.prev = p /\ alloc'.purpose = alloc.purpose /\ alloc'.new = c
      BY <1>2, <2>8, <3>1
    <3>3. Claims(f, c, p, k.f)
      BY <2>10, <2>13
    <3>4. Seen'[c] = EOF /\ cache'.dirty /\ fat'[c] \in {fat[c], Seen[c], EOF} /\ (p # NONE => Seen'[p] = c)
      BY <2>3, <2>6, <2>11, <3>3 DEF Claims
    <3>5. /\ \A d \in Cluster : d # c => fat'[d] \in {fat[d], Seen[d]}
          /\ \A d \in Cluster : d \notin {c, p} => Seen'[d] \in {fat[d], Seen[d]}
      BY <2>6, <2>11, <3>3 DEF Claims
    <3>6. Sane(fat', Seen', disk, w, p, {}, faults')
      BY <2>3, <2>5, <2>6, <3>4, <3>5, SaneTake
    <3>7. Name' = Name
      BY <3>1 DEF Name
    <3>8. Kinds /\ Creates(disk, w) /\ Adds(w) /\ Writes(w)
      BY <2>4 DEF Good, Control
    <3>9. Kinds'
      BY <1>2, <2>8, <3>1, <3>2, <3>8 DEF Kinds, Adding, Allocating
    <3>10. Creates(disk, w)'
      BY <1>2, <2>3, <3>1, <3>2, <3>7, <3>8 DEF Creates, Creating, Adding, Allocating
    <3>11. Adds(w)'
      BY <1>2, <2>3, <2>8, <3>1, <3>2, <3>8 DEF Adds
    <3>12. Writes(w)'
      BY <1>2, <2>8, <3>1, <3>2, <3>7, <3>8 DEF Writes, Writing, Allocating
    <3>13. Commits(w)'
      BY <1>2, <2>7, <3>2, <3>4 DEF Commits
    <3>14. Structure(w, {})'
      BY <1>2, <3>1, <3>2, <3>6 DEF Structure, Moving
    <3>15. Control(w, {}, loc, m)'
      BY <2>5, <3>1, <3>9, <3>10, <3>11, <3>12, <3>13 DEF Control, Searching, Looking, Marking, Frees
    <3>16. Good(w, {}, loc, m)'
      BY <3>14, <3>15 DEF Good
    <3> QED
      BY <3>16
  <2> QED
    BY <2>12, <2>13
<1> QED
  BY <1>3, <1>4, <1>5

\* What is known of a directory and a file stays so when a cluster joins a chain.
LEMMA GrownKeeps ==
  ASSUME NEW t, NEW dk, NEW w \in Witness, Chains(t, w), NEW c \in Cluster, w.own[c] = NONE,
         NEW p \in Cluster \cup {NONE}, p # NONE => w.own[p] # NONE,
         Clean(dk, w, p, c), \A d \in w.dirs : w.own[d] = d, NEW d \in w.dirs, NEW k, NEW f \in Cluster \cup {NONE},
         NEW v, v = Grown(w, p, c)
  PROVE  /\ NoFirst(dk, w, d, k) => NoFirst(dk, v, d, k)
         /\ MayLead(dk, w, d, k, f) => MayLead(dk, v, d, k, f)
         /\ f # NONE /\ Held(dk, w, d, k, f) => Held(dk, v, d, k, f)
         /\ f # NONE /\ Unlisted(dk, w, f) => Unlisted(dk, v, f)
         /\ \A b \in Cluster, i \in Slot : Entry(dk, v, b, i) => Entry(dk, w, b, i)
<1>1. /\ v.dirs = w.dirs
      /\ \A e \in Cluster : e # c => v.own[e] = w.own[e] \/ v.own[e] = NONE
      /\ \A h \in Cluster : w.own[h] = h => v.own[h] = h
  BY GrownIs
<1>2. \A b, i : First(dk, v, d, k, b, i) <=> First(dk, w, d, k, b, i) /\ v.own[b] = d
  BY WitnessIs, GrownFirst
<1>3. ASSUME NEW b \in Cluster, NEW i \in Slot, Entry(dk, v, b, i)
      PROVE  Entry(dk, w, b, i) /\ v.own[b] = w.own[b]
  <2>1. v.own[b] \in w.dirs /\ Live(dk[b][i])
    BY <1>1, <1>3 DEF Entry
  <2>2. NONE \notin w.dirs
    BY WitnessIs, Constants
  <2>3. b # c
    BY <1>1, <2>1, <2>2, GrownIs DEF Clean
  <2> QED
    BY <1>1, <2>1, <2>2, <2>3 DEF Entry
<1>4. NoFirst(dk, w, d, k) => NoFirst(dk, v, d, k)
  BY <1>2 DEF NoFirst
<1>5. MayLead(dk, w, d, k, f) => MayLead(dk, v, d, k, f)
  BY <1>2 DEF MayLead
<1>6. ASSUME f # NONE, Held(dk, w, d, k, f) PROVE Held(dk, v, d, k, f)
  <2>1. v.own[f] = f /\ f \notin v.dirs
    BY <1>1, <1>6 DEF Held
  <2>2. ASSUME NEW b \in Cluster, NEW i \in Slot, Entry(dk, v, b, i), dk[b][i].first = f
        PROVE  First(dk, v, d, k, b, i)
    <3>1. First(dk, w, d, k, b, i) /\ v.own[b] = w.own[b]
      BY <1>3, <1>6, <2>2 DEF Held
    <3> QED
      BY <1>2, <3>1 DEF First
  <2> QED
    BY <2>1, <2>2 DEF Held
<1>7. f # NONE /\ Unlisted(dk, w, f) => Unlisted(dk, v, f)
  BY <1>1, <1>3 DEF Unlisted
<1> QED
  BY <1>3, <1>4, <1>5, <1>6, <1>7

LEMMA CommitIs ==
  ASSUME Typed, ~ Damaged', Commit
  PROVE  /\ pc = "commit" /\ disk' = disk /\ command # NULL
         /\ disk \in Disks /\ Seen \in Table /\ alloc.purpose \in Purposes /\ alloc.new \in Cluster
         /\ alloc.prev \in Cluster \cup {NONE} /\ pc' = "zero" /\ command' = command
         /\ UNCHANGED <<rest, tries, dir, cur, count, file, done, alloc>>
         /\ file.first \in Cluster \cup {NONE} /\ Name' = Name /\ ~ Damaged
         /\ cache.dirty => fat' = Seen /\ Seen' = Seen
         /\ faults \in Nat /\ faults' \in Nat /\ (faults' = 0 => faults = 0)
<1>1. /\ F \in FatState /\ crashes \in Nat /\ pc = "commit" /\ disk' = disk /\ command # NULL
      /\ disk \in Disks /\ Seen \in Table /\ alloc.purpose \in Purposes /\ alloc.new \in Cluster
      /\ alloc.prev \in Cluster \cup {NONE} /\ pc' = "zero" /\ command' = command
      /\ UNCHANGED <<rest, tries, dir, cur, count, file, done, alloc>>
      /\ file.first \in Cluster \cup {NONE}
  BY TypesAre DEF Typed, ControlTyped, AllocTyped, Commit, Goto, locals
<1>2. PICK f \in flushFatCache(F) : Becomes(f)
  BY DEF Commit
<1>3. Reads(F, f) /\ f \in FatState
  BY <1>1, <1>2, FlushReads DEF Reads
<1>4. F' = f /\ Grows(F, F') /\ fat' = f.fat /\ lost' = f.lost
  BY <1>1, <1>2, <1>3, BecomesIs, ReadsGrows DEF Becomes
<1>5. ~ Damaged /\ ~ lost' /\ faults \in Nat /\ faults' \in Nat /\ (faults' = 0 => faults = 0)
  BY <1>4, NotMended
<1>6. cache.dirty => fat' = Seen /\ Seen' = Seen
  <2>1. SUFFICES ASSUME cache.dirty PROVE fat' = Seen /\ Seen' = Seen
    OBVIOUS
  <2>2. f.fat = SeenIn(F) /\ f.cache.sector = F.cache.sector /\ f.cache.buf = F.cache.buf
    BY <1>1, <1>2, <1>4, <1>5, <2>1, FlushIs, FIs
  <2>3. SeenIn(f) = SeenIn(F)
    BY <2>2 DEF SeenIn
  <2> QED
    BY <1>4, <2>2, <2>3 DEF Seen
<1> QED
  BY <1>1, <1>5, <1>6 DEF Name

\* What the chains are like once c is linked behind p.
LEMMA CommitJoins ==
  ASSUME Typed, ~ Damaged', Commit, NEW w, NEW going, NEW loc, NEW m, Good(w, going, loc, m),
         NEW c \in Cluster, c = alloc.new, NEW p \in Cluster \cup {NONE}, p = alloc.prev,
         NEW v, v = Grown(w, p, c)
  PROVE  /\ w \in Witness /\ Chains(fat, w) /\ Recorded(disk, w) /\ dir \in w.dirs /\ dir \in Cluster
         /\ w.own[dir] = dir /\ dir # NONE /\ going = {}
         /\ \A d \in w.dirs : w.own[d] = d /\ d # NONE
         /\ Sane(fat, Seen, disk, w, p, {}, faults')
         /\ w.own[c] = NONE /\ Seen[c] = EOF /\ fat' = Seen /\ Seen' = Seen
         /\ p # NONE => Seen[p] = c /\ w.own[p] # NONE
         /\ (p = NONE <=> alloc.purpose \in {"mkdir", "first"})
         /\ alloc.purpose = "add" =>
              /\ w.own[p] = dir /\ command.kind \in {"touch", "mkdir", "write"}
              /\ faults = 0 => \A b \in Cluster, j \in Slot : w.own[b] = dir => disk[b][j] # END
         /\ alloc.purpose = "extend" => w.own[p] = file.first /\ file.first # NONE /\ file.first \notin w.dirs
         /\ v.dirs = w.dirs
         /\ v.own[c] = (IF p = NONE THEN c ELSE w.own[p])
         /\ v.rank[c] = (IF p = NONE THEN 0 ELSE w.rank[p] + 1)
         /\ \A d \in Cluster : d # c =>
              /\ v.own[d] = w.own[d] \/ v.own[d] = NONE
              /\ v.rank[d] = w.rank[d]
              /\ v.own[d] # NONE /\ v.own[d] = v.own[c] => p # NONE /\ w.rank[d] <= w.rank[p]
<1>1. /\ pc = "commit" /\ disk' = disk /\ command # NULL /\ alloc.purpose \in Purposes
      /\ cache.dirty => fat' = Seen /\ Seen' = Seen
      /\ faults \in Nat /\ faults' \in Nat /\ (faults' = 0 => faults = 0)
  BY CommitIs
<1>2. /\ cache.dirty /\ w.own[c] = NONE /\ Seen[c] = EOF
      /\ p # NONE => Seen[p] = c
  BY <1>1 DEF Good, Control, Commits
<1>3. /\ w \in Witness /\ Chains(fat, w) /\ Recorded(disk, w) /\ dir \in w.dirs /\ dir \in Cluster
      /\ w.own[dir] = dir /\ dir # NONE /\ going = {}
      /\ \A d \in w.dirs : w.own[d] = d /\ d # NONE
      /\ Sane(fat, Seen, disk, w, p, {}, faults)
  BY <1>1, GoodIs DEF Good, Control, Frees, Structure, Moving
<1>4. Sane(fat, Seen, disk, w, p, {}, faults')
  BY <1>1, <1>3, SaneFaults
<1>5. /\ p = NONE <=> alloc.purpose \in {"mkdir", "first"}
      /\ alloc.purpose = "add" => command.kind \in {"touch", "mkdir", "write"}
      /\ alloc.purpose = "extend" => command.kind = "write"
  BY <1>1 DEF Good, Control, Kinds, Allocating, Adding
<1>6. /\ alloc.purpose = "add" =>
           /\ w.own[p] = dir
           /\ faults = 0 => \A b \in Cluster, j \in Slot : w.own[b] = dir => disk[b][j] # END
      /\ alloc.purpose = "extend" => w.own[p] = file.first /\ file.first # NONE /\ file.first \notin w.dirs
  BY <1>1 DEF Good, Control, Adds, Writes, Writing, Allocating, Held
<1>7. p # NONE => w.own[p] # NONE
  BY <1>1, <1>3, <1>5, <1>6 DEF Purposes
<1>8. /\ v.dirs = w.dirs
      /\ v.own[c] = (IF p = NONE THEN c ELSE w.own[p])
      /\ v.rank[c] = (IF p = NONE THEN 0 ELSE w.rank[p] + 1)
      /\ \A d \in Cluster : d # c =>
           /\ v.own[d] = w.own[d] \/ v.own[d] = NONE
           /\ v.rank[d] = w.rank[d]
           /\ v.own[d] # NONE /\ v.own[d] = v.own[c] => p # NONE /\ w.rank[d] <= w.rank[p]
  BY <1>2, <1>3, <1>7, GrownIs
<1> QED
  BY <1>1, <1>2, <1>3, <1>4, <1>5, <1>6, <1>7, <1>8

\* A cluster of a file, or the first of a new directory, is linked.
LEMMA CommitFile ==
  ASSUME Typed, ~ Damaged', Commit, NEW w, NEW going, NEW loc, NEW m, Good(w, going, loc, m),
         alloc.purpose # "add"
  PROVE  \E v : Good(v, {}, loc, m)'
<1>1. /\ pc = "commit" /\ disk' = disk /\ command # NULL
      /\ disk \in Disks /\ Seen \in Table /\ alloc.purpose \in Purposes /\ alloc.new \in Cluster
      /\ alloc.prev \in Cluster \cup {NONE} /\ pc' = "zero" /\ command' = command
      /\ UNCHANGED <<rest, tries, dir, cur, count, file, done, alloc>>
      /\ file.first \in Cluster \cup {NONE} /\ Name' = Name
      /\ faults \in Nat /\ faults' \in Nat /\ (faults' = 0 => faults = 0)
  BY CommitIs
<1>2. PICK c \in Cluster : c = alloc.new
  BY <1>1
<1>3. PICK p \in Cluster \cup {NONE} : p = alloc.prev
  BY <1>1
<1>4. PICK v : v = Grown(w, p, c)
  OBVIOUS
<1>5. /\ w \in Witness /\ Chains(fat, w) /\ Recorded(disk, w) /\ dir \in w.dirs /\ dir \in Cluster
      /\ going = {} /\ \A d \in w.dirs : w.own[d] = d /\ d # NONE
      /\ Sane(fat, Seen, disk, w, p, {}, faults')
      /\ w.own[c] = NONE /\ Seen[c] = EOF /\ fat' = Seen /\ Seen' = Seen
      /\ p # NONE => Seen[p] = c /\ w.own[p] # NONE
      /\ (p = NONE <=> alloc.purpose \in {"mkdir", "first"})
      /\ alloc.purpose = "extend" => w.own[p] = file.first /\ file.first # NONE /\ file.first \notin w.dirs
      /\ v.dirs = w.dirs
      /\ v.own[c] = (IF p = NONE THEN c ELSE w.own[p])
      /\ \A d \in Cluster : d # c =>
           /\ v.own[d] = w.own[d] \/ v.own[d] = NONE
           /\ v.own[d] # NONE /\ v.own[d] = v.own[c] => p # NONE
  BY <1>2, <1>3, <1>4, CommitJoins
<1>6. Clean(disk, w, p, c)
  BY <1>1, <1>5 DEF Clean, Purposes
<1>7. Sane(fat', Seen', disk', v, NONE, {}, faults')
  <2>1. PICK q \in Nat : q = faults'
    BY <1>1
  <2>2. Sane(Seen, Seen, disk, v, NONE, {}, q)
    BY <1>1, <1>4, <1>5, <1>6, <2>1, SaneCommit
  <2> QED
    BY <1>1, <1>5, <2>1, <2>2
<1>8. /\ \A f \in Cluster \cup {NONE} : f # NONE /\ Unlisted(disk, w, f) => Unlisted(disk, v, f)
      /\ \A k : NoFirst(disk, w, dir, k) => NoFirst(disk, v, dir, k)
      /\ \A k : \A f \in Cluster \cup {NONE} :
           /\ MayLead(disk, w, dir, k, f) => MayLead(disk, v, dir, k, f)
           /\ f # NONE /\ Held(disk, w, dir, k, f) => Held(disk, v, dir, k, f)
      /\ \A b \in Cluster, i \in Slot : Entry(disk, v, b, i) => Entry(disk, w, b, i)
  BY <1>4, <1>5, <1>6, GrownKeeps
<1>9. Kinds'
  BY <1>1 DEF Good, Control, Kinds, Adding, Allocating
<1>10. Creates(disk, v)'
  <2>1. Creates(disk, w)
    BY DEF Good, Control
  <2> QED
    BY <1>1, <1>8, <2>1 DEF Creates, Creating, Adding, Allocating
<1>11. alloc.purpose \in {"mkdir", "first"} => Unlisted(disk, v, c) /\ Alone(v, c)
  <2>1. SUFFICES ASSUME p = NONE PROVE Unlisted(disk, v, c) /\ Alone(v, c)
    BY <1>5
  <2>2. v.own[c] = c /\ c \notin v.dirs /\ c # NONE
    BY <1>5, <2>1, Constants
  <2>3. ASSUME NEW b \in Cluster, NEW i \in Slot, Entry(disk, v, b, i), disk[b][i].first = c PROVE FALSE
    <3>1. Entry(disk, w, b, i)
      BY <1>8, <2>3
    <3> QED
      BY <1>5, <2>2, <2>3, <3>1 DEF Recorded
  <2>4. Alone(v, c)
    BY <1>5, <2>1, <2>2 DEF Alone
  <2> QED
    BY <2>2, <2>3, <2>4 DEF Unlisted
<1>12. Writes(v)'
  <2>1. Writes(w)
    BY DEF Good, Control
  <2>2. alloc.purpose = "extend" => v.own[c] = file.first /\ file.first # NONE
    BY <1>5
  <2> QED
    BY <1>1, <1>2, <1>8, <1>11, <2>1, <2>2 DEF Writes, Writing, Allocating
<1>13. Structure(v, {})'
  BY <1>1, <1>7 DEF Structure, Moving
<1>14. Control(v, {}, loc, m)'
  BY <1>1, <1>5, <1>9, <1>10, <1>12 DEF Control, Searching, Looking, Marking, Adds, Commits, Frees
<1> QED
  BY <1>13, <1>14 DEF Good

\* A directory is linked to a cluster with whatever contents it has.
LEMMA CommitDirectory ==
  ASSUME Typed, ~ Damaged', Commit, NEW w, NEW going, NEW loc, NEW m, Good(w, going, loc, m),
         alloc.purpose = "add"
  PROVE  \E v : Awaiting(v)'
<1>1. /\ pc = "commit" /\ disk' = disk /\ command # NULL
      /\ disk \in Disks /\ Seen \in Table /\ alloc.new \in Cluster
      /\ alloc.prev \in Cluster \cup {NONE} /\ pc' = "zero" /\ command' = command
      /\ UNCHANGED <<rest, tries, dir, cur, count, file, done, alloc>>
      /\ file.first \in Cluster \cup {NONE} /\ Name' = Name
      /\ faults \in Nat /\ faults' \in Nat /\ (faults' = 0 => faults = 0)
  BY CommitIs
<1>2. PICK c \in Cluster : c = alloc.new
  BY <1>1
<1>3. PICK p \in Cluster \cup {NONE} : p = alloc.prev
  BY <1>1
<1>4. PICK v : v = Grown(w, p, c)
  OBVIOUS
<1>5. /\ w \in Witness /\ Chains(fat, w) /\ dir \in w.dirs /\ dir \in Cluster
      /\ dir # NONE /\ \A d \in w.dirs : w.own[d] = d /\ d # NONE
      /\ Sane(fat, Seen, disk, w, p, {}, faults')
      /\ w.own[c] = NONE /\ Seen[c] = EOF /\ fat' = Seen /\ Seen' = Seen
      /\ p # NONE => Seen[p] = c /\ w.own[p] # NONE
      /\ p # NONE /\ w.own[p] = dir /\ command.kind \in {"touch", "mkdir", "write"}
      /\ faults = 0 => \A b \in Cluster, j \in Slot : w.own[b] = dir => disk[b][j] # END
      /\ v.dirs = w.dirs
      /\ v.own[c] = (IF p = NONE THEN c ELSE w.own[p])
      /\ v.rank[c] = (IF p = NONE THEN 0 ELSE w.rank[p] + 1)
      /\ \A d \in Cluster : d # c =>
           /\ v.own[d] = w.own[d] \/ v.own[d] = NONE
           /\ v.rank[d] = w.rank[d]
           /\ v.own[d] # NONE /\ v.own[d] = v.own[c] => p # NONE /\ w.rank[d] <= w.rank[p]
  BY <1>2, <1>3, <1>4, CommitJoins
<1>6. PICK z \in Disks : z = Zeroed /\ Differs(disk, z, c) /\ z[c] = Zeros
  <2>1. disk \in [Cluster -> [Slot -> Units]] /\ Zeros \in [Slot -> Units]
    BY <1>1, UnitsAre DEF Disks
  <2>2. Zeroed \in Disks /\ Differs(disk, Zeroed, c) /\ Zeroed[c] = Zeros
    BY <1>2, <2>1 DEF Zeroed, Disks, Differs
  <2> QED
    BY <2>2
<1>7. Vacant(disk, w, c) /\ Vacant(z, w, c)
  BY <1>5 DEF Vacant
<1>8. Clean(z, w, p, c)
  BY <1>6, UnitsAre DEF Clean, Zeros
<1>9. PICK q \in Nat : q = faults'
  BY <1>1
<1>10. Sane(fat, Seen, z, w, p, {}, q)
  BY <1>1, <1>5, <1>6, <1>7, <1>9, SaneVacant
<1>11. Sane(Seen, Seen, z, v, NONE, {}, q)
  BY <1>1, <1>4, <1>5, <1>8, <1>10, SaneCommit
<1>12. \A k, f : /\ NoFirst(disk, w, dir, k) => NoFirst(z, w, dir, k)
                 /\ Unlisted(disk, w, f) => Unlisted(z, w, f)
  BY <1>1, <1>5, <1>6, <1>7, <1>9, HeldVacant
<1>13. /\ \A f \in Cluster \cup {NONE} : f # NONE /\ Unlisted(z, w, f) => Unlisted(z, v, f)
       /\ \A k : NoFirst(z, w, dir, k) => NoFirst(z, v, dir, k)
  <2>1. ASSUME NEW k, NEW f \in Cluster \cup {NONE}
        PROVE  /\ NoFirst(z, w, dir, k) => NoFirst(z, v, dir, k)
               /\ f # NONE /\ Unlisted(z, w, f) => Unlisted(z, v, f)
    <3>1. /\ w \in Witness /\ Chains(fat, w) /\ dir \in w.dirs /\ (\A d \in w.dirs : w.own[d] = d)
          /\ w.own[c] = NONE /\ (p # NONE => w.own[p] # NONE) /\ c \in Cluster
          /\ p \in Cluster \cup {NONE} /\ f \in Cluster \cup {NONE}
      BY <1>5
    <3> QED
      BY ONLY <1>4, <1>8, <3>1, GrownKeeps
  <2> QED
    BY <2>1
<1>14. Adding /\ Creating /\ pc # "dots"
  BY <1>1 DEF Adding, Creating, Allocating
<1>15. /\ command.kind = "write" \/ faults = 0 => NoFirst(disk, w, dir, Name)
       /\ command.kind = "write" => file.first = NONE
       /\ command.kind = "mkdir" => /\ Unlisted(disk, w, file.first) /\ Blank(disk, w, file.first)
                                    /\ faults = 0 => DotsOf(disk, file.first, dir)
  BY <1>14 DEF Good, Control, Creates
<1>16. ASSUME command.kind = "mkdir"
       PROVE  /\ Unlisted(z, v, file.first) /\ Blank(z, v, file.first)
              /\ faults = 0 => DotsOf(z, file.first, dir)
  <2>1. file.first \in Cluster /\ file.first # NONE
    BY <1>1, <1>14, <1>16, Constants DEF Typed, ControlTyped, FileTyped, Adding, Allocating
  <2>2. w.own[file.first] = file.first /\ file.first # dir /\ file.first # c
    BY <1>5, <1>15, <1>16, <2>1 DEF Unlisted
  <2>3. \A b \in Cluster : v.own[b] = file.first => b # c /\ w.own[b] = file.first /\ z[b] = disk[b]
    BY <1>5, <1>6, <2>1, <2>2 DEF Differs
  <2>4. Blank(z, v, file.first)
    BY <1>15, <1>16, <2>3 DEF Blank
  <2>5. z[file.first] = disk[file.first]
    BY <1>6, <2>1, <2>2 DEF Differs
  <2> QED
    BY <1>12, <1>13, <1>15, <1>16, <2>1, <2>4, <2>5 DEF DotsOf
<1>17. PICK u : u = z
  OBVIOUS
<1>18. Creates(u, v)'
  BY <1>1, <1>12, <1>13, <1>15, <1>16, <1>17 DEF Creates, Creating, Adding, Allocating
<1>19. p \in Cluster /\ v.own[c] = dir /\ v.rank[c] = w.rank[p] + 1 /\ w.rank[p] \in Nat
  BY <1>5, WitnessIs
<1>20. v.rank[c] > 0
  BY <1>19
<1>21. \A b \in Cluster : v.own[b] = dir => v.rank[b] <= v.rank[c]
  <2>1. ASSUME NEW b \in Cluster, v.own[b] = dir, b # c PROVE v.rank[b] <= v.rank[c]
    <3>1. v.rank[b] = w.rank[b] /\ w.rank[b] <= w.rank[p] /\ w.rank[b] \in Nat
      BY <1>5, <1>19, <2>1, WitnessIs
    <3> QED
      BY <1>19, <3>1
  <2> QED
    BY <1>19, <2>1
<1>22. faults = 0 => NoEnd(z, v, dir, c)
  <2>1. SUFFICES ASSUME faults = 0, NEW b \in Cluster, NEW j \in Slot, v.own[b] = dir, v.rank[b] < v.rank[c]
                 PROVE  z[b][j] # END
    BY DEF NoEnd
  <2>2. b # c
    BY <1>19, <2>1
  <2>3. w.own[b] = dir /\ z[b] = disk[b]
    BY <1>5, <1>6, <2>1, <2>2 DEF Differs
  <2> QED
    BY <1>5, <2>1, <2>3
<1>23. Zeroed' = u
  BY <1>1, <1>6, <1>17 DEF Zeroed
<1>24. Sane(fat', Seen', u, v, NONE, {}, faults')
  BY <1>5, <1>9, <1>11, <1>17
<1>25. Creates(Zeroed, v)'
  BY <1>18, <1>23 DEF Creates
<1>26. Awaiting(v)'
  BY <1>1, <1>2, <1>3, <1>5, <1>17, <1>19, <1>20, <1>21, <1>22, <1>23, <1>24, <1>25 DEF Awaiting
<1> QED
  BY <1>26

LEMMA CommitPromise ==
  ASSUME Typed, Typed', Promise, Commit
  PROVE  Promise'
<1>1. SUFFICES ASSUME ~ Damaged'
               PROVE  (\E w, going, loc, m : Good(w, going, loc, m)') \/ (\E w : Awaiting(w)')
  BY DEF Promise
<1>2. ~ Damaged /\ pc = "commit"
  BY <1>1, CommitIs
<1>3. PICK w, going, loc, m : Good(w, going, loc, m)
  BY <1>2, PromiseIs
<1>4. CASE alloc.purpose = "add"
  BY <1>1, <1>3, <1>4, CommitDirectory
<1>5. CASE alloc.purpose # "add"
  <2>1. \E v : Good(v, {}, loc, m)'
    BY <1>1, <1>3, <1>5, CommitFile
  <2> QED
    BY <2>1
<1> QED
  BY <1>4, <1>5

\* A path is looked up.
LEMMA LooksOn ==
  ASSUME NEW w, NEW loc, NEW m, pc' = "look", Looking(w, loc, m)',
         Sane(fat', Seen', disk', w, NONE, {}, faults'), dir' \in w.dirs, w.own[cur'] = dir',
         command'.kind = "rm" => tries' \in {0, 1}
  PROVE  Good(w, {}, loc, m)'
<1>1. Structure(w, {})'
  BY DEF Structure, Moving
<1>2. Control(w, {}, loc, m)'
  BY DEF Control, Kinds, Searching, Marking, Creates, Adds, Writes, Commits, Frees, Adding,
     Allocating, Creating, Writing
<1> QED
  BY <1>1, <1>2 DEF Good

LEMMA CallPromise ==
  ASSUME Typed, Promise, NEW c \in Command, Call(c)
  PROVE  Promise'
<1>1. SUFFICES ASSUME ~ Damaged' PROVE \E w, going, loc, m : Good(w, going, loc, m)'
  BY DEF Promise
<1>2. /\ pc = "idle" /\ command' = c /\ pc' = "look" /\ rest' = c.path /\ dir' = root /\ cur' = root
      /\ UNCHANGED <<disk, fatVars, tries, count, file, done, alloc>>
  BY DEF Call, LookUp
<1>3. Reads(F, F') /\ Grows(F, F')
  BY <1>2, AloneGrows DEF fatVars
<1>4. ~ Damaged /\ faults' \in Nat
  BY <1>1, <1>3, NotMended
<1>5. PICK w, going, l, k : Good(w, going, l, k)
  BY <1>2, <1>4, PromiseIs
<1>6. going = {} /\ tries = 0 /\ file.first = NONE /\ root \in w.dirs /\ w.own[root] = root
      /\ w \in Witness /\ Chains(fat, w)
  BY <1>2, <1>5, GoodIs DEF Good, Control, Frees, Kinds
<1>7. Sane(fat', Seen', disk', w, NONE, {}, faults')
  BY <1>1, <1>2, <1>3, <1>5, <1>6, Quiet
<1>8. PICK loc : loc = [n \in Nat |-> root]
  OBVIOUS
<1>9. c.path \in Seq(Names) /\ Len(c.path) \in Nat /\ Len(c.path) >= 1 /\ SubSeq(c.path, 1, Len(c.path)) = c.path
  <2>1. c.path \in Seq(Names) /\ c.path # << >>
    BY CommandIs
  <2> QED
    BY <2>1
<1>10. Upto' = Len(c.path)
  BY <1>2, <1>6 DEF Upto
<1>11. Led(disk, w, c.path, loc, 1)
  BY <1>6, <1>8, <1>9, Constants DEF Led
<1>12. AtComponent(loc, 1)'
  BY <1>2, <1>8, <1>9, <1>10 DEF AtComponent
<1>13. \A n : Passed(disk, w, root, root, n)
  BY <1>6, PassedAtHead, Constants
<1>14. Looking(w, loc, 1)'
  BY <1>2, <1>6, <1>11, <1>12, <1>13 DEF Looking, Covered
<1>15. Good(w, {}, loc, 1)'
  BY <1>2, <1>6, <1>7, <1>14, LooksOn
<1> QED
  BY <1>15

\* Which component of the path is looked up.
LEMMA RestIs ==
  ASSUME Typed, pc = "look", NEW w, NEW loc, NEW m, Led(disk, w, command.path, loc, m),
         AtComponent(loc, m)
  PROVE  \E k \in 1 .. m :
           /\ dir = loc[k] /\ Head(rest) = command.path[k] /\ Len(rest) = Upto - k + 1 /\ k <= Upto
           /\ rest = SubSeq(command.path, k, Upto)
           /\ k < Upto => Tail(rest) = SubSeq(command.path, k + 1, Upto)
           /\ Upto \in Nat /\ m \in Nat /\ m <= Len(command.path) /\ Upto <= Len(command.path)
           /\ Len(command.path) \in Nat /\ m >= 1
           /\ Upto = Len(command.path) => command.path[Upto] = Name
<1>1. command \in Command
  BY TypesAre
<1>2. command.path \in Seq(Names) /\ command.path # << >>
  BY <1>1, CommandIs
<1>3. Len(command.path) \in Nat /\ Len(command.path) >= 1
  BY <1>2
<1>4. Upto \in Nat /\ Upto <= Len(command.path)
  BY <1>3 DEF Upto
<1>5. m \in 1 .. Len(command.path)
  BY DEF Led
<1>6. PICK k \in 1 .. m : k <= Upto /\ rest = SubSeq(command.path, k, Upto) /\ dir = loc[k]
  BY DEF AtComponent
<1>7. k \in Nat /\ k >= 1 /\ m \in Nat /\ m <= Len(command.path) /\ m >= 1
  BY <1>3, <1>5
<1>8. Len(rest) = Upto - k + 1 /\ Head(rest) = command.path[k]
      /\ (k < Upto => Tail(rest) = SubSeq(command.path, k + 1, Upto))
  BY <1>2, <1>3, <1>4, <1>6, <1>7
<1>9. Upto = Len(command.path) => command.path[Upto] = Name
  BY DEF Name
<1> QED
  BY <1>3, <1>4, <1>6, <1>7, <1>8, <1>9

\* The component looked up is not there: a write tries again, or the file or directory is created.
LEMMA NotFoundPromise ==
  ASSUME Typed, Typed', pc = "look", ~ Damaged', Reads(F, F'), NotFound,
         NEW w, NEW loc, NEW m, Good(w, {}, loc, m), w.own[cur] = dir,
         NEW k \in 1 .. m, dir = loc[k], Len(rest) = Upto - k + 1, k <= Upto,
         faults' = faults /\ Passed(disk, w, dir, cur, Head(rest)) =>
           Stuck(disk, w, command.path, loc, k)
  PROVE  \E n \in Nat : Good(w, {}, loc, n)'
<1>1. /\ F \in FatState /\ crashes \in Nat /\ command \in Command /\ command # NULL /\ disk' = disk
      /\ tries \in 0 .. 2 /\ tries' \in 0 .. 2
  BY TypesAre DEF NotFound, Typed, ControlTyped, LoopTyped
<1>2. Grows(F, F')
  BY <1>1, ReadsGrows
<1>3. /\ faults \in Nat /\ faults' \in Nat /\ (faults' = 0 => faults = 0) /\ (faults > 0 => faults' = faults)
      /\ faults <= faults'
  BY <1>2, NotMended
<1>4. /\ dir \in w.dirs /\ dir \in Cluster /\ w.own[dir] = dir /\ w \in Witness /\ Chains(fat, w)
      /\ root \in w.dirs /\ w.own[root] = root
  BY GoodIs
<1>5. Sane(fat', Seen', disk', w, NONE, {}, faults')
  BY <1>1, Quiet
<1>6. /\ Covered(w, Head(rest)) /\ Led(disk, w, command.path, loc, m)
      /\ command.kind = "write" =>
           /\ file.first = NONE
           /\ tries = 1 => \/ Stuck(disk, w, command.path, loc, m)
                           \/ faults > 0 /\ Passed(disk, w, dir, cur, Head(rest))
           /\ tries = 2 => Stuck(disk, w, command.path, loc, m)
  BY DEF Good, Control, Looking
<1>7. m \in 1 .. Len(command.path) /\ Len(command.path) \in Nat /\ Len(command.path) >= 1
  <2>1. command.path \in Seq(Names) /\ command.path # << >>
    BY <1>1, CommandIs
  <2> QED
    BY <1>6, <2>1 DEF Led
<1>8. m \in Nat /\ k \in Nat /\ 1 <= k /\ k <= m /\ m <= Len(command.path)
  BY <1>7
<1>9. faults' = 0 => Stuck(disk, w, command.path, loc, k)
  BY <1>3, <1>6 DEF Covered
<1>10. \A n \in 1 .. m : Led(disk, w, command.path, loc, n)
  BY <1>6, <1>8 DEF Led
<1>11. CASE command.kind = "write" /\ tries < 2
  <2>1. /\ rest' = command.path /\ dir' = root /\ cur' = root /\ tries' = tries + 1 /\ pc' = "look"
        /\ command' = command /\ file' = file
    BY <1>11 DEF NotFound, LookUp, Goto
  <2>2. \A n : Passed(disk, w, root, root, n)
    BY <1>4, PassedAtHead, Constants
  <2>3. PICK n \in 1 .. m : /\ tries' = 1 => Stuck(disk, w, command.path, loc, n) \/ faults' > 0
                            /\ tries' = 2 => Stuck(disk, w, command.path, loc, n)
    <3>1. CASE tries = 0
      <4>1. Stuck(disk, w, command.path, loc, k) \/ faults' > 0
        BY <1>3, <1>9
      <4> QED
        BY <2>1, <3>1, <4>1
    <3>2. CASE tries = 1
      <4>1. Stuck(disk, w, command.path, loc, m) \/ Stuck(disk, w, command.path, loc, k)
        BY <1>3, <1>6, <1>11, <3>2
      <4>2. m \in 1 .. m
        BY <1>8
      <4> QED
        BY <2>1, <3>2, <4>1, <4>2
    <3> QED
      BY <1>1, <1>11, <3>1, <3>2
  <2>4. AtComponent(loc, n)'
    <3>1. Upto' = Len(command.path)
      BY <1>11, <2>1 DEF Upto
    <3>2. SubSeq(command.path, 1, Len(command.path)) = command.path
      <4>1. command.path \in Seq(Names)
        BY <1>1, CommandIs
      <4> QED
        BY <4>1
    <3>3. loc[1] = root /\ 1 \in 1 .. n
      BY <1>6, <1>8 DEF Led
    <3> QED
      BY <1>7, <2>1, <3>1, <3>2, <3>3 DEF AtComponent
  <2>5. Covered(w, Head(rest))'
    BY <1>1, <2>1, <2>2 DEF Covered
  <2>6. Looking(w, loc, n)'
    BY <1>1, <1>6, <1>10, <1>11, <2>1, <2>2, <2>3, <2>4, <2>5 DEF Looking
  <2>7. Good(w, {}, loc, n)'
    BY <1>4, <1>5, <1>11, <2>1, <2>6, LooksOn
  <2>8. n \in Nat
    BY <1>8
  <2> QED
    BY <2>7, <2>8
<1>12. CASE ~ (command.kind = "write" /\ tries < 2)
            /\ (command.kind \in {"cat", "rm"} \/ Len(rest) > 1)
  <2>1. Return(FALSE, << >>)
    BY <1>12 DEF NotFound
  <2>2. Good(w, {}, loc, m)'
    BY <1>3, <1>5, <2>1, Returned
  <2> QED
    BY <1>8, <2>2
<1>13. CASE ~ (command.kind = "write" /\ tries < 2)
            /\ ~ (command.kind \in {"cat", "rm"} \/ Len(rest) > 1)
  <2>1. command.kind \in {"touch", "write", "mkdir"} /\ (command.kind = "write" => tries = 2)
    BY <1>1, <1>13, CommandIs
  <2>2. Upto = Len(command.path) /\ k = m /\ k = Len(command.path)
    <3>1. Upto = Len(command.path)
      BY <2>1 DEF Upto
    <3> QED
      BY <1>7, <1>8, <1>13, <3>1
  <2>3. command.kind = "write" \/ faults' = 0 => NoFirst(disk, w, dir, Name)
    <3>1. command.kind = "write" \/ faults' = 0 => Stuck(disk, w, command.path, loc, k)
      BY <1>6, <1>9, <2>1, <2>2
    <3> QED
      BY <1>8, <2>2, <3>1 DEF Stuck, NoFirst, Name, First
  <2>4. CASE command.kind = "mkdir"
    <3>1. /\ pc' = "scan" /\ command' = command /\ alloc'.prev = NONE /\ alloc'.purpose = "mkdir"
          /\ UNCHANGED <<rest, tries, dir, cur, count, file, done>>
      BY <1>13, <2>4 DEF NotFound, Allocate, Goto
    <3>2. Name' = Name
      BY <3>1 DEF Name
    <3>3. Creates(disk, w)'
      BY <1>1, <2>3, <2>4, <3>1, <3>2 DEF Creates, Creating, Adding, Allocating
    <3>4. Structure(w, {})'
      BY <1>5, <3>1 DEF Structure, Moving
    <3>5. Control(w, {}, loc, m)'
      BY <1>4, <2>4, <3>1, <3>3 DEF Control, Kinds, Searching, Looking, Marking, Adds, Writes, Commits,
         Frees, Adding, Allocating, Writing
    <3>6. Good(w, {}, loc, m)'
      BY <3>4, <3>5 DEF Good
    <3> QED
      BY <1>8, <3>6
  <2>5. CASE command.kind # "mkdir"
    <3>1. /\ pc' = "add" /\ command' = command /\ cur' = dir
          /\ UNCHANGED <<rest, tries, dir, count, file, done, alloc>>
      BY <1>13, <2>5 DEF NotFound, Goto
    <3>2. Name' = Name
      BY <3>1 DEF Name
    <3>3. NoEnd(disk, w, dir, dir)
      BY <1>4, PassedAtHead
    <3>4. Creates(disk, w)'
      BY <1>1, <1>6, <2>3, <2>5, <3>1, <3>2 DEF Creates, Creating, Adding, Allocating
    <3>5. Adds(w)'
      BY <1>1, <3>1, <3>3 DEF Adds
    <3>6. Structure(w, {})'
      BY <1>5, <3>1 DEF Structure, Moving
    <3>7. Control(w, {}, loc, m)'
      BY <1>4, <2>1, <2>5, <3>1, <3>4, <3>5 DEF Control, Kinds, Searching, Looking, Marking, Writes, Commits,
         Frees, Adding, Allocating, Writing
    <3>8. Good(w, {}, loc, m)'
      BY <3>6, <3>7 DEF Good
    <3> QED
      BY <1>8, <3>8
  <2> QED
    BY <2>4, <2>5
<1> QED
  BY <1>11, <1>12, <1>13

\* The last component is there.
LEMMA OpenedPromise ==
  ASSUME Typed, Typed', pc = "look", ~ Damaged', UNCHANGED fatVars,
         NEW w, NEW loc, NEW m, Good(w, {}, loc, m),
         NEW k \in 1 .. m, dir = loc[k], k = Upto, m <= Len(command.path),
         Len(command.path) \in Nat, m \in Nat, Upto <= Len(command.path),
         NEW i \in Slot, First(disk, w, dir, command.path[k], cur, i),
         Opened(disk[cur][i])
  PROVE  \E n \in Nat : Good(w, {}, loc, n)'
<1>1. /\ command \in Command /\ command # NULL /\ disk' = disk /\ disk \in Disks
      /\ tries \in 0 .. 2 /\ faults \in Nat /\ cur \in Cluster
      /\ file \in [first : Cluster \cup {NONE}, size : Nat, position : Nat]
  BY TypesAre DEF Opened
<1>2. faults' = faults /\ Reads(F, F') /\ faults' \in Nat
  BY <1>1, AloneGrows DEF fatVars
<1>3. /\ dir \in w.dirs /\ dir \in Cluster /\ w.own[dir] = dir /\ w \in Witness /\ Chains(fat, w)
      /\ root \in w.dirs /\ w.own[root] = root /\ Recorded(disk, w)
      /\ \A d \in w.dirs : w.own[d] = d /\ d # NONE /\ d \in Cluster
  BY GoodIs
<1>4. Sane(fat', Seen', disk', w, NONE, {}, faults')
  BY <1>1, <1>2, Quiet
<1>5. /\ Led(disk, w, command.path, loc, m)
      /\ command.kind = "rm" /\ tries = 1 =>
           m = Len(command.path) /\ Leads(disk, w, loc[m], Name, file.first)
      /\ command.kind = "rm" => tries \in {0, 1}
  BY DEF Good, Control, Looking, Kinds
<1>6. Upto = Len(command.path) => command.path[k] = Name /\ k = m
  BY DEF Name
<1>7. PICK e : e = disk[cur][i]
  OBVIOUS
<1>8. Entry(disk, w, cur, i) /\ Live(e) /\ e.name = command.path[k] /\ e.kind \in {"file", "dir"}
      /\ e.first \in Cluster \cup {NONE}
  <2>1. w.own[cur] = dir /\ Is(e, command.path[k])
    BY <1>7 DEF First
  <2>2. Live(e) /\ e.name = command.path[k] /\ Entry(disk, w, cur, i)
    BY <1>3, <1>7, <2>1 DEF Is, Entry
  <2> QED
    BY <1>1, <1>7, <2>2, LiveIs
<1>9. \A b, j : First(disk, w, dir, command.path[k], b, j) => b = cur /\ j = i
  BY <1>3, FirstUnique
<1>10. \A n : \A d \in w.dirs : Passed(disk, w, d, d, n)
  BY <1>3, PassedAtHead
<1>11. CASE \E ok : Return(ok, << >>)
  <2>1. Good(w, {}, loc, m)'
    BY <1>2, <1>4, <1>11, Returned
  <2> QED
    BY <2>1
<1>12. CASE /\ command.kind = "rm" /\ tries = 1 /\ e.kind = "dir"
            /\ dir' = e.first /\ cur' = e.first
            /\ Goto("mark")
            /\ UNCHANGED <<rest, tries, count, file, done, alloc>>
  <2>1. m = Len(command.path) /\ k = m - 1 /\ Leads(disk, w, loc[m], Name, file.first)
    BY <1>5, <1>12 DEF Upto
  <2>2. PICK c \in Cluster, j \in Slot : /\ First(disk, w, loc[k], command.path[k], c, j)
                                         /\ disk[c][j].kind = "dir" /\ disk[c][j].first = loc[k + 1]
    BY <1>5, <2>1 DEF Led
  <2>3. e.first = loc[m] /\ loc[m] \in w.dirs
    <3>1. c = cur /\ j = i
      BY <1>9, <2>2
    <3>2. k + 1 = m /\ m \in 1 .. m
      BY <2>1
    <3>3. loc[m] \in w.dirs
      BY <1>5, <3>2 DEF Led
    <3> QED
      BY <1>7, <2>2, <3>1, <3>2, <3>3
  <2>4. pc' = "mark" /\ command' = command
    BY <1>12 DEF Goto
  <2>5. Name' = Name
    BY <2>4 DEF Name
  <2>6. Marking(w)'
    BY <1>1, <1>10, <1>12, <2>1, <2>3, <2>4, <2>5 DEF Marking, Covered
  <2>7. Structure(w, {})'
    BY <1>4, <2>4 DEF Structure, Moving
  <2>8. Control(w, {}, loc, m)'
    BY <1>3, <1>12, <2>3, <2>4, <2>6 DEF Control, Kinds, Searching, Looking, Creates, Adds, Writes, Commits,
       Frees, Adding, Allocating, Creating, Writing
  <2>9. Good(w, {}, loc, m)'
    BY <2>7, <2>8 DEF Good
  <2> QED
    BY <2>9
<1>13. CASE /\ command.kind \in {"cat", "write"} /\ (e.kind = "dir" => command.kind = "write")
            /\ file' = [first |-> e.first, size |-> e.size, position |-> 0]
            /\ Goto("next") /\ UNCHANGED <<rest, dir, cur, tries, count, done, alloc>>
  <2>1. pc' = "next" /\ command' = command /\ file'.first = e.first
    BY <1>13 DEF Goto
  <2>2. Name' = Name
    BY <2>1 DEF Name
  <2>3. Upto = Len(command.path)
    BY <1>13 DEF Upto
  <2>4. command.kind = "write" => e.kind = "file"
    <3>1. command.kind = "write" => e.name \in Written
      BY <1>1, <1>6, <1>8, <2>3 DEF Written, Name
    <3> QED
      BY <1>1, <1>3, <1>7, <1>8, <3>1 DEF Recorded
  <2>5. command.kind = "write" => MayLead(disk, w, dir, Name, e.first)
    BY <1>6, <1>7, <1>9, <2>3, <2>4 DEF MayLead
  <2>6. command.kind = "write" /\ e.first # NONE => Held(disk, w, dir, Name, e.first)
    <3>1. SUFFICES ASSUME command.kind = "write", e.first # NONE PROVE Held(disk, w, dir, Name, e.first)
      OBVIOUS
    <3>2. w.own[e.first] = e.first /\ e.first \notin w.dirs
      BY <1>1, <1>3, <1>7, <1>8, <2>4, <3>1 DEF Recorded
    <3>3. ASSUME NEW b \in Cluster, NEW j \in Slot, Entry(disk, w, b, j), disk[b][j].first = e.first
          PROVE  First(disk, w, dir, Name, b, j)
      <4>1. b = cur /\ j = i
        BY <1>1, <1>3, <1>7, <1>8, <3>1, <3>3 DEF Recorded
      <4> QED
        BY <1>6, <2>3, <4>1
    <3> QED
      BY <3>2, <3>3 DEF Held
  <2>7. Writes(w)'
    BY <1>1, <1>13, <2>1, <2>2, <2>5, <2>6 DEF Writes, Writing, Allocating
  <2>8. Structure(w, {})'
    BY <1>4, <2>1 DEF Structure, Moving
  <2>9. Control(w, {}, loc, m)'
    BY <1>3, <1>13, <2>1, <2>7 DEF Control, Kinds, Searching, Looking, Marking, Creates, Adds, Commits,
       Frees, Adding, Allocating, Creating
  <2>10. Good(w, {}, loc, m)'
    BY <2>8, <2>9 DEF Good
  <2> QED
    BY <2>10
<1>14. CASE /\ command.kind = "rm" /\ tries # 1 /\ e.kind # "dir"
            /\ file' = [first |-> e.first, size |-> e.size, position |-> 0]
            /\ IF Parent = << >>
               THEN LookUp(<< >>) /\ Goto("mark") /\ UNCHANGED tries
               ELSE LookUp(Parent) /\ tries' = 1 /\ Goto("look")
            /\ UNCHANGED <<count, done, alloc>>
  <2>1. command' = command /\ file'.first = e.first /\ dir' = root /\ cur' = root /\ tries = 0
    BY <1>5, <1>14 DEF Goto, LookUp
  <2>2. Name' = Name
    BY <2>1 DEF Name
  <2>3. Upto = Len(command.path) /\ k = m /\ m = Len(command.path) /\ command.path[k] = Name
    BY <1>6, <2>1 DEF Upto
  <2>4. Leads(disk, w, dir, Name, e.first)
    BY <1>7, <1>8, <1>9, <1>14, <2>3 DEF Leads
  <2>5. command.path \in Seq(Names)
    BY <1>1, CommandIs
  <2>15. Len(command.path) >= 1 /\ (Parent = << >> <=> Len(command.path) = 1)
    <3>1. command.path # << >>
      BY <1>1, CommandIs
    <3>2. PICK n \in Nat : n = Len(command.path) - 1
      BY <2>5, <3>1
    <3>3. PICK q : q = SubSeq(command.path, 1, n)
      OBVIOUS
    <3>4. q \in Seq(Names) /\ Len(q) = n
      BY <2>5, <3>2, <3>3
    <3>5. q = << >> <=> n = 0
      BY <3>4
    <3> QED
      BY <3>2, <3>3, <3>5 DEF Parent
  <2>6. CASE Parent = << >>
    <3>1. pc' = "mark"
      BY <1>14, <2>6 DEF Goto
    <3>2. dir = root
      <4>1. Len(command.path) = 1
        BY <2>15, <2>6
      <4> QED
        BY <1>5, <2>3, <4>1 DEF Led
    <3>3. Marking(w)'
      BY <1>1, <1>3, <1>10, <2>1, <2>2, <2>4, <3>2 DEF Marking, Covered
    <3>4. Structure(w, {})'
      BY <1>4, <3>1 DEF Structure, Moving
    <3>5. Control(w, {}, loc, m)'
      BY <1>3, <1>14, <2>1, <3>1, <3>3 DEF Control, Kinds, Searching, Looking, Creates, Adds, Writes, Commits,
         Frees, Adding, Allocating, Creating, Writing
    <3>6. Good(w, {}, loc, m)'
      BY <3>4, <3>5 DEF Good
    <3> QED
      BY <3>6
  <2>7. CASE Parent # << >>
    <3>1. pc' = "look" /\ rest' = Parent /\ tries' = 1
      BY <1>14, <2>7 DEF LookUp, Goto
    <3>2. Upto' = Len(command.path) - 1 /\ Len(command.path) - 1 >= 1
      <4>1. Len(command.path) # 1 /\ Len(command.path) >= 1
        BY <2>7, <2>15
      <4>2. Upto' = Len(command.path) - 1
        BY <1>14, <2>1, <3>1 DEF Upto
      <4>3. PICK n \in Nat : n = Len(command.path)
        OBVIOUS
      <4>4. n \in Nat /\ n # 1 /\ n >= 1
        BY <4>1, <4>3
      <4>5. n - 1 >= 1
        BY ONLY <4>4
      <4> QED
        BY <4>2, <4>3, <4>5
    <3>3. AtComponent(loc, m)'
      <4>1. loc[1] = root /\ 1 \in 1 .. m
        BY <1>5, <2>3 DEF Led
      <4> QED
        BY <2>1, <3>1, <3>2, <4>1 DEF AtComponent, Parent
    <3>4. Leads(disk, w, loc[m], Name, e.first)
      BY <2>3, <2>4
    <3>5. Covered(w, Head(rest))'
      BY <1>1, <1>3, <1>10, <2>1 DEF Covered
    <3>6. Looking(w, loc, m)'
      BY <1>1, <1>5, <1>14, <2>1, <2>2, <2>3, <3>1, <3>3, <3>4, <3>5 DEF Looking
    <3>7. Good(w, {}, loc, m)'
      BY <1>3, <1>4, <2>1, <3>1, <3>6, LooksOn
    <3> QED
      BY <3>7
  <2> QED
    BY <2>6, <2>7
<1> QED
  BY <1>1, <1>7, <1>11, <1>12, <1>13, <1>14, CommandIs DEF Opened

\* A component of the path is a directory, in which the next one is looked up.
LEMMA DescendPromise ==
  ASSUME Typed, Typed', pc = "look", ~ Damaged', UNCHANGED fatVars,
         NEW w, NEW loc, NEW m, Good(w, {}, loc, m),
         NEW k \in 1 .. m, dir = loc[k], k < Upto, Tail(rest) = SubSeq(command.path, k + 1, Upto),
         Upto <= Len(command.path), Len(command.path) \in Nat, m \in Nat, Upto \in Nat,
         NEW i \in Slot, First(disk, w, dir, command.path[k], cur, i),
         NEW e, e = disk[cur][i], e.kind = "dir",
         dir' = e.first, cur' = e.first, rest' = Tail(rest), Goto("look"),
         UNCHANGED <<disk, tries, count, file, done, alloc>>
  PROVE  \E l, n : Good(w, {}, l, n)'
<1>1. /\ disk \in Disks /\ faults \in Nat /\ cur \in Cluster /\ command' = command /\ pc' = "look"
      /\ tries \in 0 .. 2
  BY TypesAre DEF Goto
<1>2. Reads(F, F') /\ faults' = faults
  BY AloneGrows DEF fatVars
<1>3. /\ dir \in w.dirs /\ dir \in Cluster /\ w.own[dir] = dir /\ w \in Witness /\ Chains(fat, w)
      /\ Recorded(disk, w) /\ \A d \in w.dirs : w.own[d] = d /\ d # NONE /\ d \in Cluster
  BY GoodIs
<1>4. Sane(fat', Seen', disk', w, NONE, {}, faults')
  BY <1>2, Quiet
<1>5. /\ Led(disk, w, command.path, loc, m)
      /\ command.kind = "write" =>
           /\ file.first = NONE
           /\ tries = 1 => Stuck(disk, w, command.path, loc, m) \/ faults > 0
           /\ tries = 2 => Stuck(disk, w, command.path, loc, m)
      /\ command.kind = "rm" /\ tries = 1 =>
           m = Len(command.path) /\ Leads(disk, w, loc[m], Name, file.first)
      /\ command.kind = "rm" => tries \in {0, 1}
  BY DEF Good, Control, Looking, Kinds
<1>6. Entry(disk, w, cur, i) /\ e.first \in w.dirs
  <2>1. w.own[cur] = dir /\ Live(disk[cur][i])
    BY DEF First, Is
  <2>2. Entry(disk, w, cur, i)
    BY <1>3, <2>1 DEF Entry
  <2> QED
    BY <1>1, <1>3, <2>2 DEF Recorded
<1>7. \A b, j : First(disk, w, dir, command.path[k], b, j) => b = cur /\ j = i
  BY <1>3, FirstUnique
<1>8. \A n : \A d \in w.dirs : Passed(disk, w, d, d, n)
  BY <1>3, PassedAtHead
<1>9. Upto' = Upto /\ Name' = Name /\ k \in Nat /\ k >= 1 /\ k <= m
  BY <1>1 DEF Upto, Name
<1>10. command.kind = "rm" /\ tries = 1 => Upto = Len(command.path) - 1
  BY DEF Upto
<1>11. ASSUME NEW l, NEW n \in Nat, k + 1 <= n, l[k + 1] = e.first,
              Led(disk, w, command.path, l, n),
              command.kind = "write" =>
                /\ tries = 1 => Stuck(disk, w, command.path, l, n) \/ faults > 0
                /\ tries = 2 => Stuck(disk, w, command.path, l, n),
              command.kind = "rm" /\ tries = 1 =>
                n = Len(command.path) /\ Leads(disk, w, l[n], Name, file.first)
       PROVE  Good(w, {}, l, n)'
  <2>1. AtComponent(l, n)'
    <3>1. k + 1 \in 1 .. n /\ k + 1 <= Upto
      BY <1>9, <1>11
    <3> QED
      BY <1>1, <1>9, <1>11, <3>1 DEF AtComponent
  <2>2. Covered(w, Head(rest))'
    BY <1>1, <1>6, <1>8 DEF Covered
  <2>3. Looking(w, l, n)'
    BY <1>1, <1>2, <1>5, <1>6, <1>8, <1>9, <1>11, <2>1, <2>2 DEF Looking
  <2> QED
    BY <1>1, <1>3, <1>4, <1>5, <1>6, <2>3, LooksOn
<1>12. CASE k < m
  <2>1. k \in 1 .. m - 1 /\ k + 1 <= m
    BY <1>9, <1>12
  <2>2. PICK c \in Cluster, j \in Slot : /\ First(disk, w, loc[k], command.path[k], c, j)
                                         /\ disk[c][j].kind = "dir" /\ disk[c][j].first = loc[k + 1]
    BY <1>5, <2>1 DEF Led
  <2>3. loc[k + 1] = e.first
    BY <1>7, <2>2
  <2>4. Good(w, {}, loc, m)'
    BY <1>5, <1>11, <2>1, <2>3
  <2> QED
    BY <2>4
<1>13. CASE k = m
  <2>1. PICK f : f = e.first
    OBVIOUS
  <2>2. PICK l : l = [loc EXCEPT ![m + 1] = f]
    OBVIOUS
  <2>3. loc \in [Nat -> Cluster] /\ f \in Cluster
    BY <1>3, <1>5, <1>6, <2>1 DEF Led
  <2>4. l \in [Nat -> Cluster] /\ l[m + 1] = f /\ \A x \in 1 .. m : l[x] = loc[x]
    <3>1. \A x \in 1 .. m : x \in Nat /\ x # m + 1
      OBVIOUS
    <3> QED
      BY <2>2, <2>3, <3>1
  <2>5. PICK n \in Nat : n = m + 1
    OBVIOUS
  <2>6. n - 1 = m /\ m \in 1 .. m /\ 1 \in 1 .. m /\ n \in 1 .. Len(command.path)
        /\ (\A x \in 1 .. n : x \in 1 .. m \/ x = n)
        /\ (\A x \in 1 .. m : x = m \/ (x \in 1 .. m - 1 /\ x + 1 \in 1 .. m))
    BY <1>9, <1>13, <2>5
  <2>7. Led(disk, w, command.path, l, n)
    <3>1. l[1] = root
      BY <1>5, <2>4, <2>6 DEF Led
    <3>2. \A x \in 1 .. n : l[x] \in w.dirs
      BY <1>5, <1>6, <2>1, <2>4, <2>5, <2>6 DEF Led
    <3>3. ASSUME NEW x \in 1 .. n - 1
          PROVE  \E c \in Cluster, j \in Slot :
                   /\ First(disk, w, l[x], command.path[x], c, j)
                   /\ disk[c][j].kind = "dir" /\ disk[c][j].first = l[x + 1]
      <4>1. x \in 1 .. m /\ l[x] = loc[x]
        BY <2>4, <2>6, <3>3
      <4>2. CASE x = m
        <5>1. l[x + 1] = e.first /\ l[x] = dir /\ x = k
          BY <1>13, <2>1, <2>4, <4>1, <4>2
        <5> QED
          BY <1>1, <5>1
      <4>3. CASE x # m
        <5>1. x \in 1 .. m - 1 /\ x + 1 \in 1 .. m
          BY <2>6, <4>1, <4>3
        <5>2. l[x + 1] = loc[x + 1]
          BY <2>4, <5>1
        <5> QED
          BY <1>5, <4>1, <5>1, <5>2 DEF Led
      <4> QED
        BY <4>2, <4>3
    <3> QED
      BY <2>4, <2>6, <3>1, <3>2, <3>3 DEF Led
  <2>8. ~ Stuck(disk, w, command.path, loc, m)
    BY <1>1, <1>13 DEF Stuck
  <2>9. ~ (command.kind = "rm" /\ tries = 1)
    <3>1. SUFFICES ASSUME command.kind = "rm", tries = 1 PROVE FALSE
      OBVIOUS
    <3>2. m = Len(command.path) /\ Upto = Len(command.path) - 1 /\ m < Upto
      BY <1>5, <1>10, <1>13, <3>1
    <3> QED
      BY <3>2
  <2>10. Good(w, {}, l, n)'
    <3>1. l[k + 1] = e.first /\ k + 1 <= n
      BY <1>13, <2>1, <2>4, <2>5
    <3> QED
      BY <1>5, <1>11, <2>7, <2>8, <2>9, <3>1
  <2> QED
    BY <2>10
<1> QED
  BY <1>9, <1>12, <1>13

LEMMA LookPromise ==
  ASSUME Typed, Typed', Promise, Look
  PROVE  Promise'
<1>1. SUFFICES ASSUME ~ Damaged' PROVE \E w, going, loc, m : Good(w, going, loc, m)'
  BY DEF Promise
<1>2. /\ FTyped /\ cur \in Cluster /\ disk \in Disks
      /\ command \in Command /\ command # NULL /\ pc = "look"
  BY TypesAre DEF Look
<1>3. /\ \/ \E i \in Slot :
              /\ Is(disk[cur][i], Head(rest))
              /\ \A j \in 1 .. i - 1 : ~ Is(disk[cur][j], Head(rest)) /\ disk[cur][j] # END
              /\ UNCHANGED fatVars
              /\ LookFound(disk[cur][i])
         \/ \E i \in Slot :
              /\ disk[cur][i] = END
              /\ \A j \in 1 .. i - 1 : ~ Is(disk[cur][j], Head(rest)) /\ disk[cur][j] # END
              /\ UNCHANGED fatVars
              /\ NotFound
         \/ \E n \in Cluster \cup {NONE} :
              /\ Onward(n)
              /\ faults' = faults =>
                   \A j \in Slot : ~ Is(disk[cur][j], Head(rest)) /\ disk[cur][j] # END
              /\ IF n = NONE THEN NotFound ELSE GoOn(n)
  BY <1>2, LookCases
<1>4. UNCHANGED fatVars => Reads(F, F') /\ Grows(F, F')
  BY AloneGrows DEF fatVars
<1>5. ASSUME NEW n, Onward(n) PROVE Reads(F, F') /\ Grows(F, F')
  BY <1>5, TypesAre, ReadsGrows DEF Onward
<1>6. Grows(F, F')
  BY <1>3, <1>4, <1>5
<1>7. ~ Damaged /\ faults' \in Nat /\ faults \in Nat /\ (faults' = 0 => faults = 0)
  BY <1>1, <1>6, NotMended
<1>8. PICK w, g, loc, m : Good(w, g, loc, m)
  BY <1>2, <1>7, PromiseIs
<1>9. g = {}
  BY <1>2, <1>8 DEF Good, Control, Frees
<1>10. Good(w, {}, loc, m)
  BY <1>8, <1>9
<1>11. /\ w.own[cur] = dir /\ dir \in w.dirs /\ dir \in Cluster /\ w \in Witness /\ Chains(fat, w)
       /\ Recorded(disk, w) /\ \A d \in w.dirs : w.own[d] = d /\ d # NONE /\ d \in Cluster
  BY <1>2, <1>10, GoodIs DEF Good, Control, Searching
<1>12. /\ Covered(w, Head(rest)) /\ Led(disk, w, command.path, loc, m) /\ AtComponent(loc, m)
  BY <1>2, <1>10 DEF Good, Control, Looking
<1>13. PICK k \in 1 .. m :
         /\ dir = loc[k] /\ Head(rest) = command.path[k] /\ Len(rest) = Upto - k + 1 /\ k <= Upto
         /\ rest = SubSeq(command.path, k, Upto)
         /\ k < Upto => Tail(rest) = SubSeq(command.path, k + 1, Upto)
         /\ Upto \in Nat /\ m \in Nat /\ m <= Len(command.path) /\ Upto <= Len(command.path)
         /\ Len(command.path) \in Nat /\ m >= 1
         /\ Upto = Len(command.path) => command.path[Upto] = Name
  BY <1>2, <1>12, RestIs
<1>14. k \in Nat /\ (Len(rest) = 1 <=> k = Upto) /\ (Len(rest) # 1 => k < Upto)
  BY <1>13
<1>15. NoFirst(disk, w, dir, Head(rest)) => Stuck(disk, w, command.path, loc, k)
  BY <1>13 DEF NoFirst, Stuck, First
<1>16. ASSUME NEW i \in Slot, Is(disk[cur][i], Head(rest)),
              \A j \in 1 .. i - 1 : ~ Is(disk[cur][j], Head(rest)) /\ disk[cur][j] # END,
              UNCHANGED fatVars, LookFound(disk[cur][i])
       PROVE  \E l, n : Good(w, {}, l, n)'
  <2>1. First(disk, w, dir, command.path[k], cur, i)
    <3>1. PICK name : name = Head(rest)
      OBVIOUS
    <3>2. First(disk, w, dir, name, cur, i)
      BY <1>10, <1>11, <1>12, <1>16, <3>1, Covers
    <3> QED
      BY <1>13, <3>1, <3>2
  <2>2. CASE Len(rest) = 1
    <3>1. Opened(disk[cur][i]) /\ k = Upto
      BY <1>14, <1>16, <2>2 DEF LookFound
    <3>2. \E n \in Nat : Good(w, {}, loc, n)'
      BY <1>1, <1>2, <1>10, <1>13, <1>16, <2>1, <3>1, OpenedPromise
    <3> QED
      BY <3>2
  <2>3. CASE Len(rest) # 1 /\ disk[cur][i].kind # "dir"
    <3>1. NotFound
      BY <1>16, <2>3 DEF LookFound
    <3>2. Stuck(disk, w, command.path, loc, k)
      <4>1. k < Len(command.path)
        BY <1>13, <1>14, <2>3
      <4>2. \A b, j : First(disk, w, dir, command.path[k], b, j) => b = cur /\ j = i
        BY <1>11, <2>1, FirstUnique
      <4> QED
        BY <1>13, <2>3, <4>1, <4>2 DEF Stuck
    <3>3. \E n \in Nat : Good(w, {}, loc, n)'
      BY <1>1, <1>2, <1>4, <1>10, <1>11, <1>13, <1>16, <3>1, <3>2, NotFoundPromise
    <3> QED
      BY <3>3
  <2>4. CASE Len(rest) # 1 /\ disk[cur][i].kind = "dir"
    <3>1. PICK e : e = disk[cur][i]
      OBVIOUS
    <3>2. e.first # NONE
      <4>1. Entry(disk, w, cur, i)
        BY <1>11, <1>16 DEF Entry, Is
      <4> QED
        BY <1>2, <1>11, <2>4, <3>1, <4>1 DEF Recorded
    <3>3. /\ dir' = e.first /\ cur' = e.first /\ rest' = Tail(rest) /\ Goto("look")
          /\ UNCHANGED <<disk, tries, count, file, done, alloc>>
      BY <1>16, <2>4, <3>1, <3>2 DEF LookFound
    <3>4. k < Upto /\ Tail(rest) = SubSeq(command.path, k + 1, Upto)
      BY <1>13, <1>14, <2>4
    <3> QED
      BY <1>1, <1>2, <1>10, <1>13, <1>16, <2>1, <2>4, <3>1, <3>3, <3>4, DescendPromise
  <2> QED
    BY <2>2, <2>3, <2>4
<1>17. ASSUME NEW i \in Slot, disk[cur][i] = END,
              \A j \in 1 .. i - 1 : ~ Is(disk[cur][j], Head(rest)) /\ disk[cur][j] # END,
              UNCHANGED fatVars, NotFound
       PROVE  \E l, n : Good(w, {}, l, n)'
  <2>1. PICK name : name = Head(rest)
    OBVIOUS
  <2>2. Passed(disk, w, dir, cur, name) => NoFirst(disk, w, dir, name)
    BY <1>2, <1>11, <1>17, <2>1, NoneFound
  <2>3. Passed(disk, w, dir, cur, Head(rest)) => Stuck(disk, w, command.path, loc, k)
    BY <1>15, <2>1, <2>2
  <2>4. \E n \in Nat : Good(w, {}, loc, n)'
    BY <1>1, <1>2, <1>4, <1>10, <1>11, <1>13, <1>17, <2>3, NotFoundPromise
  <2> QED
    BY <2>4
<1>18. ASSUME Onward(NONE), NotFound,
              faults' = faults =>
                \A j \in Slot : ~ Is(disk[cur][j], Head(rest)) /\ disk[cur][j] # END
       PROVE  \E l, n : Good(w, {}, l, n)'
  <2>1. PICK name : name = Head(rest)
    OBVIOUS
  <2>2. faults' = faults => fat[cur] \notin Cluster
    BY <1>2, <1>10, <1>11, <1>18, SearchOn
  <2>3. faults' = faults /\ Passed(disk, w, dir, cur, name) => NoFirst(disk, w, dir, name)
    BY <1>2, <1>11, <1>18, <2>1, <2>2, NoneFound
  <2>4. faults' = faults /\ Passed(disk, w, dir, cur, Head(rest)) =>
          Stuck(disk, w, command.path, loc, k)
    BY <1>15, <2>1, <2>3
  <2>5. \E n \in Nat : Good(w, {}, loc, n)'
    BY <1>1, <1>2, <1>5, <1>10, <1>11, <1>13, <1>18, <2>4, NotFoundPromise
  <2> QED
    BY <2>5
<1>19. ASSUME NEW n \in Cluster, Onward(n), GoOn(n),
              faults' = faults =>
                \A j \in Slot : ~ Is(disk[cur][j], Head(rest)) /\ disk[cur][j] # END
       PROVE  Good(w, {}, loc, m)'
  <2>1. /\ cur' = n /\ pc' = "look" /\ command' = command
        /\ UNCHANGED <<disk, rest, tries, dir, count, file, done, alloc>>
    BY <1>2, <1>19 DEF GoOn, Goto
  <2>2. n # NONE /\ Reads(F, F')
    BY <1>5, <1>19, Constants
  <2>3. w.own[n] = dir
    BY <1>2, <1>10, <1>11, <1>19, <2>2, SearchOn
  <2>4. PICK name : name = Head(rest)
    OBVIOUS
  <2>5. /\ Covered(w, name)'
        /\ faults > 0 /\ Passed(disk, w, dir, cur, name) => faults' > 0 /\ Passed(disk', w, dir', cur', name)
    BY <1>1, <1>2, <1>10, <1>11, <1>12, <1>19, <2>1, <2>2, <2>4, CoveredOn
  <2>6. Sane(fat', Seen', disk', w, NONE, {}, faults')
    BY <1>1, <1>2, <1>10, <2>1, <2>2, Quiet
  <2>7. Head(rest)' = name /\ Name' = Name
    BY <2>1, <2>4 DEF Name
  <2>8. Covered(w, Head(rest))'
    BY <2>5, <2>7 DEF Covered
  <2>9. Upto' = Upto
    BY <2>1 DEF Upto
  <2>10. AtComponent(loc, m)'
    BY <1>12, <2>1, <2>9 DEF AtComponent
  <2>11. Looking(w, loc, m) /\ (command.kind = "rm" => tries \in {0, 1})
    BY <1>2, <1>10 DEF Good, Control, Kinds
  <2>12. Looking(w, loc, m)'
    BY <1>2, <1>12, <2>1, <2>4, <2>5, <2>7, <2>8, <2>10, <2>11 DEF Looking
  <2> QED
    BY <1>11, <2>1, <2>3, <2>6, <2>11, <2>12, LooksOn
<1> QED
  BY <1>3, <1>16, <1>17, <1>18, <1>19

LEMMA StutterPromise ==
  ASSUME Promise, UNCHANGED vars
  PROVE  Promise'
<1>1. UNCHANGED <<fat, disk, cache, faults, lost, pc, command, rest, tries, dir, cur, count, file,
                  done, alloc>>
  BY DEF vars
<1>2. Seen' = Seen /\ Moving' = Moving /\ Name' = Name /\ Upto' = Upto /\ Zeroed' = Zeroed
  BY <1>1 DEF Seen, SeenIn, F, Moving, Name, Upto, Zeroed
<1>3. ASSUME NEW w, NEW going, NEW loc, NEW m, Good(w, going, loc, m)
      PROVE  Good(w, going, loc, m)'
  <2>1. Structure(w, going)'
    BY <1>1, <1>2, <1>3 DEF Good, Structure
  <2>2. Control(w, going, loc, m)
    BY <1>3 DEF Good
  <2>3. Looking(w, loc, m)'
    BY <1>1, <1>2, <2>2 DEF Control, Looking, Covered, AtComponent
  <2>4. Control(w, going, loc, m)'
    BY <1>1, <1>2, <2>2, <2>3 DEF Control, Kinds, Searching, Marking, Creates, Adds, Writes, Commits,
       Frees, Adding, Allocating, Creating, Writing, Covered
  <2> QED
    BY <2>1, <2>4 DEF Good
<1>4. ASSUME NEW w, Awaiting(w)
      PROVE  Awaiting(w)'
  <2>1. Creates(Zeroed, w)'
    BY <1>1, <1>2, <1>4 DEF Awaiting, Creates, Creating, Adding, Allocating
  <2> QED
    BY <1>1, <1>2, <1>4, <2>1 DEF Awaiting
<1> QED
  BY <1>1, <1>3, <1>4 DEF Promise, Damaged

\* Every step keeps the chains, as long as no more than one request has failed.
LEMMA StepPromise ==
  ASSUME NamesTold, Typed, Typed', Promise, [Next]_vars
  PROVE  Promise'
  BY StutterPromise, CallPromise, LookPromise, ScanPromise, CommitPromise, ZeroPromise, DotsPromise,
     AddPromise, UndoPromise, NextUnitsPromise, WalkPromise, LastClusterPromise, WriteDataPromise,
     ReadDataPromise, ReadPromise, WrotePromise, LinkPromise, MarkPromise, FreeClusterPromise,
     FreedPromise, CrashPromise
     DEF Next, Step

------------------------------------------------------------------------------
(* What is read from the disk, by the chains of the witness. *)

LEMMA NthIs ==
  ASSUME fat \in Table, NEW h \in Cluster
  PROVE  /\ Nth(h) \in [Nat -> Cluster \cup {NONE}] /\ Nth(h)[0] = h
         /\ \A n \in Nat :
              Nth(h)[n + 1] = IF Nth(h)[n] # NONE /\ fat[Nth(h)[n]] \in Cluster
                              THEN fat[Nth(h)[n]] ELSE NONE
<1>1. Link \in [Cluster \cup {NONE} -> Cluster \cup {NONE}]
  BY DEF Link
<1>2. Nth(h) = Iterate(h, Link)
  BY DEF Nth, Iterate
<1>3. /\ Nth(h) \in [Nat -> Cluster \cup {NONE}] /\ Nth(h)[0] = h
      /\ \A n \in Nat : Nth(h)[n + 1] = Link[Nth(h)[n]]
  BY <1>1, <1>2, IterateIsRecursive
<1> QED
  BY <1>3 DEF Link

\* The n-th cluster behind the first of a chain is the n-th of the chain.
LEMMA NthInChain ==
  ASSUME fat \in Table, NEW w \in Witness, Chains(fat, w), NEW h \in Cluster, w.own[h] = h,
         NEW n \in Nat, Nth(h)[n] # NONE
  PROVE  /\ Nth(h)[n] \in Cluster /\ w.own[Nth(h)[n]] = h /\ w.rank[Nth(h)[n]] = n
         /\ \A k \in 0 .. n : Nth(h)[k] # NONE
<1>1. PICK at : at = Nth(h)
  OBVIOUS
<1>2. /\ at \in [Nat -> Cluster \cup {NONE}] /\ at[0] = h
      /\ \A k \in Nat : at[k + 1] = IF at[k] # NONE /\ fat[at[k]] \in Cluster THEN fat[at[k]] ELSE NONE
  BY <1>1, NthIs
<1> DEFINE S == {k \in Nat : at[k] # NONE =>
                   w.own[at[k]] = h /\ w.rank[at[k]] = k /\ \A i \in 0 .. k : at[i] # NONE}
<1>3. h # NONE
  BY Constants
<1>4. 0 \in S
  BY <1>2, <1>3 DEF Chains
<1>5. ASSUME NEW k \in S PROVE k + 1 \in S
  <2>1. SUFFICES ASSUME at[k + 1] # NONE
                 PROVE  /\ w.own[at[k + 1]] = h /\ w.rank[at[k + 1]] = k + 1
                        /\ \A i \in 0 .. k + 1 : at[i] # NONE
    OBVIOUS
  <2>2. k \in Nat /\ at[k] # NONE /\ fat[at[k]] \in Cluster /\ at[k + 1] = fat[at[k]] /\ at[k] \in Cluster
    BY <1>2, <2>1
  <2>3. w.own[at[k]] = h /\ w.rank[at[k]] = k /\ \A i \in 0 .. k : at[i] # NONE
    BY <2>2
  <2>4. w.own[at[k + 1]] = h /\ w.rank[at[k + 1]] = k + 1
    BY <1>3, <2>2, <2>3 DEF Chains
  <2>5. \A i \in 0 .. k + 1 : i \in 0 .. k \/ i = k + 1
    BY <2>2
  <2> QED
    BY <2>1, <2>3, <2>4, <2>5
<1>6. S = Nat
  <2>1. S \in SUBSET Nat
    OBVIOUS
  <2> HIDE DEF S
  <2> QED
    BY <1>4, <1>5, <2>1, SetInduction
<1>7. at[n] \in Cluster
  BY <1>1, <1>2
<1> QED
  BY <1>1, <1>6, <1>7

\* The length that Chain chooses is there to be chosen.
LEMMA LengthExists ==
  ASSUME NEW at, NEW N \in Nat, N >= 1, NEW h, at[0] = h, h # NONE
  PROVE  \E n \in 1 .. N : at[n - 1] # NONE /\ (at[n] = NONE \/ n = N)
<1> DEFINE S == {k \in Nat : k >= N \/ (\A i \in 0 .. k : at[i] # NONE)}
<1>1. SUFFICES ASSUME \A n \in 1 .. N : at[n - 1] = NONE \/ (at[n] # NONE /\ n # N) PROVE FALSE
  OBVIOUS
<1>2. 0 \in S
  OBVIOUS
<1>3. ASSUME NEW k \in S PROVE k + 1 \in S
  <2>1. CASE k + 1 >= N
    BY <2>1
  <2>2. CASE k + 1 < N
    <3>1. \A i \in 0 .. k : at[i] # NONE
      BY <2>2
    <3>2. k + 1 \in 1 .. N /\ (k + 1) - 1 = k /\ k \in 0 .. k
      BY <2>2
    <3>3. at[k + 1] # NONE
      BY <1>1, <3>1, <3>2
    <3>4. \A i \in 0 .. k + 1 : i \in 0 .. k \/ i = k + 1
      OBVIOUS
    <3>5. \A i \in 0 .. k + 1 : at[i] # NONE
      BY <3>1, <3>3, <3>4
    <3> QED
      BY <3>5
  <2>3. k \in Nat
    OBVIOUS
  <2> QED
    BY <2>1, <2>2, <2>3
<1>4. S = Nat
  <2>1. S \in SUBSET Nat
    OBVIOUS
  <2> HIDE DEF S
  <2> QED
    BY <1>2, <1>3, <2>1, SetInduction
<1>5. N - 1 \in S /\ N - 1 \in 0 .. N - 1 /\ N \in 1 .. N /\ ~ (N - 1 >= N)
  BY <1>4
<1>6. at[N - 1] # NONE
  BY <1>5
<1> QED
  BY <1>1, <1>5, <1>6

\* The clusters from the first of a chain on are those of the chain, in their order.
LEMMA ChainIs ==
  ASSUME fat \in Table, NEW w \in Witness, Chains(fat, w), NEW h \in Cluster, w.own[h] = h
  PROVE  \E len \in Nat :
           /\ len >= 1 /\ Chain(h) \in [1 .. len -> Cluster] /\ Len(Chain(h)) = len
           /\ DOMAIN Chain(h) = 1 .. len
           /\ \A i \in 1 .. len : /\ Chain(h)[i] = Nth(h)[i - 1]
                                  /\ w.own[Chain(h)[i]] = h /\ w.rank[Chain(h)[i]] = i - 1
           /\ len <= total_data_clusters + 1
           /\ Nth(h)[len] = NONE \/ len = total_data_clusters + 1
<1>1. PICK at : at = Nth(h)
  OBVIOUS
<1>2. PICK N \in Nat : N = total_data_clusters + 1 /\ N >= 1
  BY GeometryAssumption
<1> DEFINE P(n) == at[n - 1] # NONE /\ (at[n] = NONE \/ n = N)
           len == CHOOSE n \in 1 .. N : P(n)
<1>3. Chain(h) = [n \in 1 .. len |-> at[n - 1]]
  BY <1>1, <1>2 DEF Chain
<1>4. \E n \in 1 .. N : P(n)
  <2>1. at[0] = h /\ h # NONE
    BY <1>1, NthIs, Constants
  <2> QED
    BY <1>2, <2>1, LengthExists
<1>5. len \in 1 .. N /\ P(len)
  <2> HIDE DEF P
  <2> QED
    BY <1>4
<1> HIDE DEF len
<1>6. len \in Nat /\ len >= 1 /\ len <= N /\ len - 1 \in Nat /\ at[len - 1] # NONE
      /\ (at[len] = NONE \/ len = N)
  BY <1>5
<1>7. ASSUME NEW i \in 1 .. len
      PROVE  at[i - 1] \in Cluster /\ w.own[at[i - 1]] = h /\ w.rank[at[i - 1]] = i - 1
  <2>1. i - 1 \in 0 .. len - 1 /\ i - 1 \in Nat
    BY <1>6
  <2>2. at[i - 1] # NONE
    BY <1>1, <1>6, <2>1, NthInChain
  <2> QED
    BY <1>1, <2>1, <2>2, NthInChain
<1>8. Chain(h) \in [1 .. len -> Cluster] /\ \A i \in 1 .. len : Chain(h)[i] = at[i - 1]
  BY <1>3, <1>7
<1>9. Chain(h) \in Seq(Cluster) /\ Len(Chain(h)) = len
  BY <1>6, <1>8
<1>10. DOMAIN Chain(h) = 1 .. len
  BY <1>8
<1> QED
  BY <1>1, <1>2, <1>6, <1>7, <1>8, <1>9, <1>10

\* The k-th unit of what begins at h is unit i of a cluster c of its chain.
IsUnit(w, h, k, c, i) ==
  c \in Cluster /\ i \in Slot /\ w.own[c] = h /\ k = w.rank[c] * UNITS + i
  /\ UnitsOf(h)[k] = disk[c][i]

LEMMA UnitsOfIs ==
  ASSUME fat \in Table, NEW w \in Witness, Chains(fat, w), NEW h \in Cluster, w.own[h] = h
  PROVE  /\ \E n \in Nat : DOMAIN UnitsOf(h) = 1 .. n
         /\ \A k \in DOMAIN UnitsOf(h) : k \in Nat /\ \E c, i : IsUnit(w, h, k, c, i)
<1>1. PICK len \in Nat :
           /\ len >= 1 /\ Chain(h) \in [1 .. len -> Cluster] /\ Len(Chain(h)) = len
           /\ DOMAIN Chain(h) = 1 .. len
           /\ \A i \in 1 .. len : /\ Chain(h)[i] = Nth(h)[i - 1]
                                  /\ w.own[Chain(h)[i]] = h /\ w.rank[Chain(h)[i]] = i - 1
           /\ len <= total_data_clusters + 1
           /\ Nth(h)[len] = NONE \/ len = total_data_clusters + 1
  BY ChainIs
<1>2. UNITS \in Nat /\ UNITS > 1
  BY GeometryAssumption
<1>3. PICK n : n = len * UNITS
  OBVIOUS
<1>4. n \in Nat
  BY <1>2, <1>3
<1>5. UnitsOf(h) = [k \in 1 .. n |->
         disk[Chain(h)[((k - 1) \div UNITS) + 1]][((k - 1) % UNITS) + 1]]
  BY <1>1, <1>3 DEF UnitsOf
<1>6. ASSUME NEW k \in 1 .. n PROVE \E c, i : IsUnit(w, h, k, c, i)
  <2>1. PICK q : q = (k - 1) \div UNITS
    OBVIOUS
  <2>2. PICK r : r = (k - 1) % UNITS
    OBVIOUS
  <2>3. q \in Nat /\ r \in 0 .. UNITS - 1 /\ k - 1 = q * UNITS + r /\ k - 1 < len * UNITS
    BY <1>2, <1>3, <1>4, <2>1, <2>2
  <2>4. q < len
    BY <1>2, <2>3
  <2>5. q + 1 \in 1 .. len /\ (q + 1) - 1 = q
    BY <2>3, <2>4
  <2>6. PICK c \in Cluster : c = Chain(h)[q + 1]
    BY <1>1, <2>5
  <2>7. w.own[c] = h /\ w.rank[c] = q
    BY <1>1, <2>5, <2>6
  <2>8. PICK i : i = r + 1
    OBVIOUS
  <2>9. i \in Slot /\ k = q * UNITS + i
    <3>1. i \in Slot
      BY <1>2, <2>3, <2>8 DEF Slot
    <3>2. q * UNITS \in Nat /\ k \in Nat /\ r \in Nat
      BY <1>2, <1>4, <2>3
    <3> QED
      BY <2>3, <2>8, <3>1, <3>2
  <2>10. UnitsOf(h)[k] = disk[c][i]
    BY <1>5, <2>1, <2>2, <2>6, <2>8
  <2> QED
    BY <2>6, <2>7, <2>9, <2>10 DEF IsUnit
<1>7. DOMAIN UnitsOf(h) = 1 .. n
  BY <1>5
<1> QED
  BY <1>4, <1>6, <1>7

\* Units come in the order of the clusters, and in a cluster in that of its slots.
LEMMA UnitsInOrder ==
  ASSUME NEW w \in Witness, Chains(fat, w), NEW h \in Cluster, NEW k, NEW c, NEW i,
         NEW l, NEW b, NEW j, IsUnit(w, h, k, c, i), IsUnit(w, h, l, b, j)
  PROVE  /\ l < k => Before(w, b, j, c, i)
         /\ c = b /\ i = j => k = l
<1>1. PICK u \in Nat : u = UNITS /\ u > 1
  BY GeometryAssumption
<1>2. PICK p \in Nat : p = w.rank[c]
  BY WitnessIs DEF IsUnit
<1>3. PICK q \in Nat : q = w.rank[b]
  BY WitnessIs DEF IsUnit
<1>4. i \in 1 .. u /\ j \in 1 .. u /\ k = p * u + i /\ l = q * u + j
  BY <1>1, <1>2, <1>3 DEF IsUnit, Slot
<1>5. ASSUME l < k PROVE q < p \/ (q = p /\ j < i)
  <2>1. CASE q > p
    <3>1. q * u >= (p + 1) * u
      BY <1>1, <2>1
    <3>2. (p + 1) * u = p * u + u
      BY <1>1
    <3>3. p * u \in Nat /\ q * u \in Nat
      BY <1>1
    <3> QED
      BY <1>1, <1>4, <1>5, <3>1, <3>2, <3>3
  <2>2. CASE q = p
    <3>1. p * u \in Nat
      BY <1>1
    <3> QED
      BY <1>4, <1>5, <2>2, <3>1
  <2> QED
    BY <2>1, <2>2
<1>6. q = p => c = b
  <2>1. c \in Cluster /\ b \in Cluster /\ w.own[c] = h /\ w.own[b] = h /\ h # NONE
    BY Constants DEF IsUnit
  <2>2. \A d \in Cluster : w.own[d] = w.own[c] /\ w.rank[d] = w.rank[c] => d = c
    BY <2>1 DEF Chains
  <2> QED
    BY <1>2, <1>3, <2>1, <2>2
<1> QED
  BY <1>2, <1>3, <1>4, <1>5, <1>6 DEF Before

\* What a witness that explains the disk says.
LEMMA ExplainsIs ==
  ASSUME Typed, NEW w, Explains(w)
  PROVE  /\ w \in Witness /\ Chains(fat, w) /\ Recorded(disk, w)
         /\ root \in w.dirs /\ w.dirs \subseteq Cluster /\ \A d \in w.dirs : w.own[d] = d
         /\ faults = 0 => Sound(disk, w) /\ Dotted(disk, w)
<1>1. /\ w \in Witness /\ Chains(fat, w) /\ Recorded(disk, w)
      /\ faults = 0 => Sound(disk, w) /\ Dotted(disk, w)
  BY DEF Explains, Sane
<1> QED
  BY <1>1, WitnessIs DEF Recorded

\* Where the entries of a directory are.
LEMMA InUseIs ==
  ASSUME Typed, NEW w, Explains(w), NEW d \in w.dirs,
         NEW k \in InUse(UnitsOf(d))
  PROVE  \E c \in Cluster, i \in Slot :
           IsUnit(w, d, k, c, i) /\ Entry(disk, w, c, i) /\ UnitsOf(d)[k] = disk[c][i]
<1>1. fat \in Table /\ w \in Witness /\ Chains(fat, w) /\ d \in Cluster /\ w.own[d] = d
  BY TypesAre, ExplainsIs
<1>2. k \in DOMAIN UnitsOf(d) /\ Live(UnitsOf(d)[k])
  BY DEF InUse
<1>3. PICK c, i : IsUnit(w, d, k, c, i)
  BY <1>1, <1>2, UnitsOfIs
<1>4. c \in Cluster /\ i \in Slot /\ UnitsOf(d)[k] = disk[c][i] /\ w.own[c] = d
  BY <1>3 DEF IsUnit
<1>5. Entry(disk, w, c, i)
  BY <1>2, <1>4 DEF Entry
<1> QED
  BY <1>3, <1>4, <1>5

LEMMA ListedIs ==
  ASSUME Typed, NEW w, Explains(w), NEW d \in w.dirs,
         NEW e \in Listed(d)
  PROVE  \E c \in Cluster, i \in Slot :
           w.own[c] = d /\ Entry(disk, w, c, i) /\ e = disk[c][i]
<1>1. PICK k \in InUse(UnitsOf(d)) : e = UnitsOf(d)[k]
  BY DEF Listed
<1>2. PICK c \in Cluster, i \in Slot :
        IsUnit(w, d, k, c, i) /\ Entry(disk, w, c, i) /\ UnitsOf(d)[k] = disk[c][i]
  BY InUseIs
<1> QED
  BY <1>1, <1>2 DEF IsUnit

\* The chains of directories have all directories that can be reached.
LEMMA DirectoriesAre ==
  ASSUME Typed, NEW w, Explains(w)
  PROVE  Directories \subseteq w.dirs
<1> DEFINE lists == UNION {{<<d, e.first>> : e \in {x \in Listed(d) : x.kind = "dir"}} :
                             d \in Cluster}
           S == w.dirs
<1>1. root \in S /\ S \in SUBSET Cluster /\ Recorded(disk, w)
  BY ExplainsIs
<1>2. ASSUME NEW p \in lists, p[1] \in S PROVE p[2] \in S \cup {NONE}
  <2>1. PICK d \in Cluster : p \in {<<d, e.first>> : e \in {x \in Listed(d) : x.kind = "dir"}}
    BY <1>2
  <2>2. PICK e \in {x \in Listed(d) : x.kind = "dir"} : p = <<d, e.first>>
    BY <2>1
  <2>3. d \in w.dirs /\ p[2] = e.first /\ e \in Listed(d) /\ e.kind = "dir"
    BY <1>2, <2>2
  <2>4. PICK c \in Cluster, i \in Slot : Entry(disk, w, c, i) /\ e = disk[c][i]
    BY <2>3, ListedIs
  <2> QED
    BY <1>1, <2>3, <2>4 DEF Recorded
<1>3. ASSUME NEW c \in Directories PROVE c \in S
  <2>1. \A T \in SUBSET Cluster :
          root \in T /\ (\A p \in lists : p[1] \in T => p[2] \in T \cup {NONE}) => c \in T
    BY <1>3 DEF Directories
  <2> HIDE DEF lists, S
  <2> QED
    BY <1>1, <1>2, <2>1
<1> QED
  BY <1>3

\* An entry that owns clusters is one of a directory, and owns the chain it records.
LEMMA OwnersAre ==
  ASSUME Typed, NEW w, Explains(w), NEW o \in Owners
  PROVE  \E d \in w.dirs, k \in Nat, c \in Cluster, i \in Slot :
           /\ IsUnit(w, d, k, c, i) /\ Entry(disk, w, c, i) /\ disk[c][i].first # NONE
           /\ o = [at |-> <<d, k>>, clusters |-> Chain(disk[c][i].first)]
<1>1. PICK d \in Directories :
        o \in LET units == UnitsOf(d)
              IN  {[at |-> <<d, k>>, clusters |-> Chain(units[k].first)] :
                     k \in {i \in InUse(units) : units[i].first # NONE}}
  BY DEF Owners
<1>2. PICK k \in {i \in InUse(UnitsOf(d)) : UnitsOf(d)[i].first # NONE} :
        o = [at |-> <<d, k>>, clusters |-> Chain(UnitsOf(d)[k].first)]
  BY <1>1
<1>3. d \in w.dirs
  BY DirectoriesAre
<1>4. PICK c \in Cluster, i \in Slot :
        IsUnit(w, d, k, c, i) /\ Entry(disk, w, c, i) /\ UnitsOf(d)[k] = disk[c][i]
  BY <1>2, <1>3, InUseIs
<1>5. k \in Nat
  <2>1. w.rank[c] \in Nat /\ UNITS \in Nat /\ i \in Nat
    BY GeometryAssumption, Constants, ExplainsIs, WitnessIs
  <2>2. k = w.rank[c] * UNITS + i
    BY <1>4 DEF IsUnit
  <2> QED
    BY <2>1, <2>2
<1> QED
  BY <1>2, <1>3, <1>4, <1>5

\* The clusters of what begins at h: a chain of the witness.
LEMMA ClustersAre ==
  ASSUME Typed, NEW w, Explains(w),
         NEW h \in Cluster, w.own[h] = h
  PROVE  /\ \A i, j \in DOMAIN Chain(h) : Chain(h)[i] = Chain(h)[j] => i = j
         /\ \A c \in Elements(Chain(h)) : c \in Cluster /\ w.own[c] = h /\ fat[c] # FREE
<1>1. fat \in Table /\ w \in Witness /\ Chains(fat, w)
  BY TypesAre, ExplainsIs
<1>2. PICK len \in Nat :
           /\ len >= 1 /\ Chain(h) \in [1 .. len -> Cluster] /\ Len(Chain(h)) = len
           /\ DOMAIN Chain(h) = 1 .. len
           /\ \A i \in 1 .. len : /\ Chain(h)[i] = Nth(h)[i - 1]
                                  /\ w.own[Chain(h)[i]] = h /\ w.rank[Chain(h)[i]] = i - 1
           /\ len <= total_data_clusters + 1
           /\ Nth(h)[len] = NONE \/ len = total_data_clusters + 1
  BY <1>1, ChainIs
<1>3. ASSUME NEW i \in DOMAIN Chain(h), NEW j \in DOMAIN Chain(h), Chain(h)[i] = Chain(h)[j]
      PROVE  i = j
  <2>1. i \in 1 .. len /\ j \in 1 .. len /\ i - 1 = j - 1
    BY <1>2, <1>3
  <2> QED
    BY <2>1
<1>4. ASSUME NEW c \in Elements(Chain(h)) PROVE c \in Cluster /\ w.own[c] = h /\ fat[c] # FREE
  <2>1. PICK i \in DOMAIN Chain(h) : c = Chain(h)[i]
    BY DEF Elements
  <2>2. c \in Cluster /\ w.own[c] = h
    BY <1>2, <2>1
  <2> QED
    BY <1>1, <2>2, Constants DEF Chains
<1> QED
  BY <1>3, <1>4

\* One that owns clusters, an entry or the root.
Owns(w, o, h) == h \in Cluster /\ w.own[h] = h /\ o.clusters = Chain(h)

LEMMA GoodIsApart ==
  ASSUME Typed, Promise
  PROVE  FilesApart
<1> DEFINE theRoot == [at |-> <<root>>, clusters |-> Chain(root)]
           all == Owners \cup {theRoot}
<1>1. SUFFICES ASSUME ~ Damaged, ~ Unzeroed
               PROVE  \A o \in all :
          /\ \A i, j \in DOMAIN o.clusters : o.clusters[i] = o.clusters[j] => i = j
          /\ \A c \in Elements(o.clusters) : fat[c] # FREE
          /\ \A p \in all \ {o} : Elements(o.clusters) \cap Elements(p.clusters) = {}
  BY DEF FilesApart
<1>2. PICK w : Explains(w)
  BY <1>1, PromiseExplains
<1>3. w \in Witness /\ Chains(fat, w) /\ Recorded(disk, w) /\ root \in w.dirs /\ w.own[root] = root
      /\ disk \in Disks /\ root \in Cluster
  BY <1>2, ExplainsIs, TypesAre, Constants
<1>4. Owns(w, theRoot, root)
  BY <1>3 DEF Owns
<1>5. ASSUME NEW o \in Owners
      PROVE  \E h : Owns(w, o, h) /\ h # root
  <2>1. PICK d \in w.dirs, k \in Nat, c \in Cluster, i \in Slot :
           /\ IsUnit(w, d, k, c, i) /\ Entry(disk, w, c, i) /\ disk[c][i].first # NONE
           /\ o = [at |-> <<d, k>>, clusters |-> Chain(disk[c][i].first)]
    BY <1>2, OwnersAre
  <2>2. disk[c][i].first \in Cluster
    BY <1>3, <2>1, LiveIs DEF Entry
  <2>3. w.own[disk[c][i].first] = disk[c][i].first /\ disk[c][i].first # root
    BY <1>3, <2>1 DEF Recorded
  <2> QED
    BY <2>1, <2>2, <2>3 DEF Owns
<1>6. ASSUME NEW o \in Owners, NEW p \in Owners, NEW h, Owns(w, o, h), NEW g, Owns(w, p, g), o # p
      PROVE  \E x, y : Owns(w, o, x) /\ Owns(w, p, y) /\ x # y
  <2>1. PICK d \in w.dirs, k \in Nat, c \in Cluster, i \in Slot :
           /\ IsUnit(w, d, k, c, i) /\ Entry(disk, w, c, i) /\ disk[c][i].first # NONE
           /\ o = [at |-> <<d, k>>, clusters |-> Chain(disk[c][i].first)]
    BY <1>2, OwnersAre
  <2>2. PICK e \in w.dirs, l \in Nat, b \in Cluster, j \in Slot :
           /\ IsUnit(w, e, l, b, j) /\ Entry(disk, w, b, j) /\ disk[b][j].first # NONE
           /\ p = [at |-> <<e, l>>, clusters |-> Chain(disk[b][j].first)]
    BY <1>2, OwnersAre
  <2>3. disk[c][i].first \in Cluster /\ disk[b][j].first \in Cluster
    BY <1>3, <2>1, <2>2, LiveIs DEF Entry
  <2>4. Owns(w, o, disk[c][i].first) /\ Owns(w, p, disk[b][j].first)
    BY <1>3, <2>1, <2>2, <2>3 DEF Owns, Recorded
  <2>5. disk[c][i].first # disk[b][j].first
    <3>1. SUFFICES ASSUME disk[c][i].first = disk[b][j].first PROVE FALSE
      OBVIOUS
    <3>2. c = b /\ i = j
      BY <1>3, <2>1, <2>2, <3>1 DEF Recorded
    <3>3. d = e /\ d \in Cluster
      BY <1>3, <2>1, <2>2, <3>2, WitnessIs DEF IsUnit
    <3>4. k = l
      BY <1>3, <2>1, <2>2, <3>2, <3>3, UnitsInOrder
    <3> QED
      BY <1>6, <2>1, <2>2, <3>2, <3>3, <3>4
  <2> QED
    BY <2>4, <2>5
<1>7. ASSUME NEW o \in all PROVE \E h : Owns(w, o, h)
  BY <1>4, <1>5
<1>8. ASSUME NEW o \in all, NEW p \in all, o # p
      PROVE  \E x, y : Owns(w, o, x) /\ Owns(w, p, y) /\ x # y
  <2>1. CASE o \in Owners /\ p \in Owners
    BY <1>5, <1>6, <1>8, <2>1
  <2>2. CASE o \in Owners /\ p = theRoot
    BY <1>4, <1>5, <2>2
  <2>3. CASE o = theRoot /\ p \in Owners
    BY <1>4, <1>5, <2>3
  <2> QED
    BY <1>8, <2>1, <2>2, <2>3
<1> HIDE DEF all
<1>9. ASSUME NEW o \in all
      PROVE  /\ \A i, j \in DOMAIN o.clusters : o.clusters[i] = o.clusters[j] => i = j
             /\ \A c \in Elements(o.clusters) : fat[c] # FREE
  <2>1. PICK h : Owns(w, o, h)
    BY <1>7, <1>9
  <2> QED
    BY <1>2, <2>1, ClustersAre DEF Owns
<1>10. ASSUME NEW o \in all, NEW p \in all \ {o}
       PROVE  Elements(o.clusters) \cap Elements(p.clusters) = {}
  <2>1. PICK x, y : Owns(w, o, x) /\ Owns(w, p, y) /\ x # y
    BY <1>8, <1>10
  <2>2. \A c \in Elements(o.clusters) : w.own[c] = x
    BY <1>2, <2>1, ClustersAre DEF Owns
  <2>3. \A c \in Elements(p.clusters) : w.own[c] = y
    BY <1>2, <2>1, ClustersAre DEF Owns
  <2> QED
    BY <2>1, <2>2, <2>3
<1> QED
  BY <1>9, <1>10

LEMMA GoodIsSound ==
  ASSUME Typed, Promise
  PROVE  DirectoriesSound
<1>1. SUFFICES ASSUME faults = 0, ~ lost, ~ Unzeroed, NEW d \in Directories
               PROVE  LET units == UnitsOf(d)
                          live == {k \in DOMAIN units : Live(units[k])}
                      IN  /\ live = InUse(units)
                          /\ \A j, k \in live : units[j].name = units[k].name => j = k
                          /\ \A e \in Listed(d) :
                               e.kind = "dir" => disk[e.first][1] = Dot(e.first) /\ disk[e.first][2] = Dot(d)
  BY DEF DirectoriesSound
<1> DEFINE units == UnitsOf(d)
           live == {k \in DOMAIN units : Live(units[k])}
<1>2. ~ Damaged
  BY <1>1 DEF Damaged
<1>3. PICK w : Explains(w)
  BY <1>1, <1>2, PromiseExplains
<1>4. /\ w \in Witness /\ Chains(fat, w) /\ d \in w.dirs /\ d \in Cluster /\ w.own[d] = d
      /\ fat \in Table /\ Sound(disk, w) /\ Dotted(disk, w)
  BY <1>1, <1>3, ExplainsIs, TypesAre, DirectoriesAre
<1>5. PICK n \in Nat : DOMAIN UnitsOf(d) = 1 .. n
  BY <1>4, UnitsOfIs
<1>6. \A k \in DOMAIN UnitsOf(d) : k \in Nat /\ \E c, i : IsUnit(w, d, k, c, i)
  BY <1>4, UnitsOfIs
<1>7. ASSUME NEW k \in live PROVE \E c \in Cluster, i \in Slot :
        IsUnit(w, d, k, c, i) /\ Entry(disk, w, c, i) /\ UnitsOf(d)[k] = disk[c][i]
  <2>1. PICK c, i : IsUnit(w, d, k, c, i)
    BY <1>6
  <2>2. c \in Cluster /\ i \in Slot /\ UnitsOf(d)[k] = disk[c][i] /\ w.own[c] = d
    BY <2>1 DEF IsUnit
  <2>3. Entry(disk, w, c, i)
    BY <1>4, <2>2 DEF Entry
  <2> QED
    BY <2>1, <2>2, <2>3
<1>8. ASSUME NEW k \in live, NEW j \in 1 .. k - 1 PROVE units[j] # END
  <2>1. PICK c \in Cluster, i \in Slot :
          IsUnit(w, d, k, c, i) /\ Entry(disk, w, c, i) /\ UnitsOf(d)[k] = disk[c][i]
    BY <1>7
  <2>2. j \in DOMAIN UnitsOf(d) /\ j < k
    <3>1. k \in 1 .. n
      BY <1>5
    <3> QED
      BY <1>5, <3>1
  <2>3. PICK b, l : IsUnit(w, d, j, b, l)
    BY <1>6, <2>2
  <2>4. Before(w, b, l, c, i)
    BY <1>4, <2>1, <2>2, <2>3, UnitsInOrder
  <2>5. b \in Cluster /\ l \in Slot /\ w.own[b] = w.own[c] /\ units[j] = disk[b][l]
    BY <2>1, <2>3 DEF IsUnit
  <2> QED
    BY <1>4, <2>1, <2>4, <2>5 DEF Sound
<1>9. live = InUse(units)
  BY <1>8 DEF InUse
<1>10. ASSUME NEW j \in live, NEW k \in live, units[j].name = units[k].name PROVE j = k
  <2>1. PICK c \in Cluster, i \in Slot :
          IsUnit(w, d, k, c, i) /\ Entry(disk, w, c, i) /\ UnitsOf(d)[k] = disk[c][i]
    BY <1>7
  <2>2. PICK b \in Cluster, l \in Slot :
          IsUnit(w, d, j, b, l) /\ Entry(disk, w, b, l) /\ UnitsOf(d)[j] = disk[b][l]
    BY <1>7
  <2>3. w.own[b] = w.own[c] /\ disk[b][l].name = disk[c][i].name
    BY <1>10, <2>1, <2>2 DEF IsUnit
  <2>4. c = b /\ i = l
    BY <1>4, <2>1, <2>2, <2>3 DEF Sound
  <2> QED
    BY <1>4, <2>1, <2>2, <2>4, UnitsInOrder
<1>11. ASSUME NEW e \in Listed(d), e.kind = "dir"
       PROVE  disk[e.first][1] = Dot(e.first) /\ disk[e.first][2] = Dot(d)
  <2>1. PICK c \in Cluster, i \in Slot : w.own[c] = d /\ Entry(disk, w, c, i) /\ e = disk[c][i]
    BY <1>3, <1>4, ListedIs
  <2> QED
    BY <1>4, <1>11, <2>1 DEF Dotted, DotsOf
<1> QED
  BY <1>9, <1>10, <1>11

\* What is cached and clean is on the disk, but for clusters that nothing leads to.
LEMMA GoodAgrees ==
  ASSUME Typed, Promise
  PROVE  CacheAgrees
<1>1. pc = "idle" => ~ cache.dirty
  BY DEF Typed, CacheTyped
<1>2. ASSUME ~ Damaged, ~ Unzeroed, ~ cache.dirty, NEW c \in DOMAIN cache.buf, cache.buf[c] # fat[c]
      PROVE  /\ faults > 0 /\ cache.buf[c] = FREE /\ fat[c] = EOF
             /\ c \notin Elements(Chain(root))
             /\ \A o \in Owners : c \notin Elements(o.clusters)
  <2>1. faults > 0 /\ cache.buf[c] = FREE /\ fat[c] = EOF
    BY <1>2, FIs DEF Typed, CacheTyped, Nearly, Damaged
  <2>2. PICK w, going : Sane(fat, Seen, disk, w, NONE, going, faults)
    <3>1. ASSUME NEW w, NEW going, NEW loc, NEW m, Good(w, going, loc, m)
          PROVE  Sane(fat, Seen, disk, w, NONE, going, faults)
      <4>1. pc # "commit"
        BY <1>2, <3>1 DEF Good, Control, Commits
      <4> QED
        BY <3>1, <4>1, GoodIs
    <3>2. ASSUME NEW w, Awaiting(w) PROVE Sane(fat, Seen, disk, w, NONE, {}, faults)
      BY <1>2, <3>2, AwaitingIs
    <3> QED
      BY <1>2, <3>1, <3>2 DEF Promise
  <2>3. Explains(w)
    BY <2>2 DEF Explains
  <2>4. /\ w \in Witness /\ Chains(fat, w) /\ Recorded(disk, w) /\ root \in w.dirs /\ w.own[root] = root
        /\ disk \in Disks /\ root \in Cluster /\ F \in FatState
    BY <2>3, ExplainsIs, TypesAre, Constants
  <2>5. c \in Cluster /\ Seen[c] = cache.buf[c]
    <3>1. cache \in Cache
      BY <2>4, CacheIs, FIs
    <3>2. cache.sector # -1 => cache.buf \in [Entries(cache.sector) -> Value]
      BY <3>1 DEF Cache
    <3>3. cache.sector = -1 => DOMAIN cache.buf = {}
      BY <3>1 DEF Cache, NoCache
    <3>4. c \in Entries(cache.sector)
      BY <1>2, <3>2, <3>3
    <3> QED
      BY <3>4, FIs DEF Entries, Seen, SeenIn
  <2>6. w.own[c] = NONE
    BY <1>2, <2>2, <2>5, Constants DEF Sane, Known
  <2>7. ASSUME NEW h \in Cluster, w.own[h] = h PROVE c \notin Elements(Chain(h))
    <3>1. h # NONE
      BY Constants
    <3> QED
      BY <2>3, <2>6, <2>7, <3>1, ClustersAre
  <2>8. ASSUME NEW o \in Owners PROVE c \notin Elements(o.clusters)
    <3>1. PICK d \in w.dirs, k \in Nat, b \in Cluster, i \in Slot :
             /\ IsUnit(w, d, k, b, i) /\ Entry(disk, w, b, i) /\ disk[b][i].first # NONE
             /\ o = [at |-> <<d, k>>, clusters |-> Chain(disk[b][i].first)]
      BY <2>3, OwnersAre
    <3>2. disk[b][i].first \in Cluster
      BY <2>4, <3>1, LiveIs DEF Entry
    <3>3. w.own[disk[b][i].first] = disk[b][i].first
      BY <2>4, <3>1 DEF Recorded
    <3> QED
      BY <2>7, <3>1, <3>2, <3>3
  <2> QED
    BY <2>1, <2>4, <2>7, <2>8
<1> QED
  BY <1>1, <1>2 DEF CacheAgrees, Idle

------------------------------------------------------------------------------

\* Some ownership of the clusters always explains the FAT, the entries and what the command
\* holds, or will once the zeros are written, as long as the disk is not damaged.
LEMMA PromiseHolds ==
  NamesTold => (Spec => [](Typed /\ Promise))
<1>1. Init => Typed /\ Promise
  BY InitTyped, InitPromise
<1>2. SUFFICES ASSUME NamesTold PROVE Spec => [](Typed /\ Promise)
  OBVIOUS
<1>3. Typed /\ Promise /\ [Next]_vars => (Typed /\ Promise)'
  BY <1>2, StepTyped, StepPromise
<1> QED
  BY <1>1, <1>3, PTL DEF Spec

\* allocCluster, freeClusterChain and the entries never disagree in a way that gives a
\* cluster to two files, runs a chain in a circle or leads an entry to a free cluster,
\* whenever power goes and whichever one request fails, carried out or not: but for the
\* three kinds of damage that the comment of Damaged names, and the moment in which a
\* directory is linked to a cluster that is still to be zeroed.
THEOREM FilesApartCorrect == NamesTold => (Spec => []FilesApart)
<1>1. Typed /\ Promise => FilesApart
  BY GoodIsApart
<1> QED
  BY <1>1, PromiseHolds, PTL

\* While the disk works, every directory reads as the code left it: the entries in use come
\* before its end mark, no name is there twice, and a subdirectory begins with "." and ".."
\* that lead to itself and to its parent.  Power may go at any time but between the link of
\* a directory to a cluster whose old contents read as entries and the zeros.
THEOREM DirectoriesSoundCorrect == NamesTold => (Spec => []DirectoriesSound)
<1>1. Typed /\ Promise => DirectoriesSound
  BY GoodIsSound
<1> QED
  BY <1>1, PromiseHolds, PTL

\* Commands leave no sector of the FAT dirty, and a clean cached sector differs from the
\* disk, while that is not damaged, only where a request has failed after allocCluster had
\* written a cluster down as taken: it takes that back in memory alone.  No file or
\* directory leads to such a cluster.
THEOREM CacheKeptCorrect == NamesTold => (Spec => []CacheAgrees)
<1>1. Typed /\ Promise => CacheAgrees
  BY GoodAgrees
<1> QED
  BY <1>1, PromiseHolds, PTL

\* Every variable has its type, whatever the disk does.
THEOREM TypeCorrect == Spec => []TypeOK
<1>1. Spec => []Typed
  BY InitTyped, StepTyped, PTL DEF Spec
<1> QED
  BY <1>1, TypedIsTypeOK, PTL
==============================================================================
