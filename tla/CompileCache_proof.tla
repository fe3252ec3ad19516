------------------------- MODULE CompileCache_proof -------------------------
(***************************************************************************)
(* Proofs about CompileCache, for any number of threads, keys and tasks    *)
(* that persist, and any number of processes one after the other.          *)
(*                                                                         *)
(* In memory: as long as no second operation overlaps one on a key, each   *)
(* half of an operation finds what the other half needs, and where a half  *)
(* was dropped the next whole operation makes up for it (KeyInv).  On      *)
(* disk: as long as no two tasks persist at the same time, the task at     *)
(* work owns the inode behind .tmp, which is never the file's (FileInv).   *)
(***************************************************************************)
EXTENDS CompileCache, FiniteSetTheorems, TLAPS

Live == [compiled : 0..MaxTime, deadline : 0..MaxTime + TTL]
LiveMaps == PartialMaps(Live)

MemoryTypes ==
    /\ up \in BOOLEAN /\ clock \in 0..MaxTime
    /\ inner \in LiveMaps /\ entries \in Maps
    /\ work \in [Thread -> Operations \cup {None}]
    /\ forgotten \subseteq Key /\ raced \subseteq Key /\ halved \subseteq Key

Stages == {"idle", "snapshot", "writing", "written"}

DiskTypes ==
    /\ persist \in [Persister -> [at : Stages, map : Maps, fd : Inode \cup {None}]]
    /\ inode \in [Inode -> Maps \cup {Partial, None}]
    /\ tmpName \in Inode \cup {None} /\ fileName \in Inode \cup {None}
    /\ saved \in Maps

\* Without a process nothing is in memory and nothing is under way; an insert
\* is about one key.
WorkInv ==
    /\ ~up => /\ work = [t \in Thread |-> None]
              /\ forgotten = {} /\ raced = {} /\ halved = {}
    /\ \A t \in Thread : work[t] # None /\ work[t].op = "insert" =>
          \E k \in Key : work[t].keys = {k}

\* What the thread t, which is between the halves of its operation, has made
\* of k in `inner`, except for what moka evicts.
HalfDone(t, k) ==
    IF work[t].op = "insert"
    THEN k \notin forgotten /\ (k \in DOMAIN inner => inner[k].compiled = work[t].compiled)
    ELSE k \notin DOMAIN inner

\* What is in `inner` the operation on k, if there is one, or `entries`
\* accounts for.
KeyInv ==
    \A k \in Key \ raced :
        /\ \A t, u \in Touching(k) : t = u
        /\ \A t \in Touching(k) : HalfDone(t, k)
        /\ Touching(k) = {} /\ k \notin halved /\ k \in DOMAIN inner =>
              k \in DOMAIN entries /\ entries[k] = inner[k].compiled
        /\ k \in forgotten => k \notin DOMAIN inner
        /\ k \in forgotten \ halved /\ Touching(k) = {} => k \notin DOMAIN entries

MemoryInv == MemoryTypes /\ WorkInv /\ KeyInv

\* A name points to an inode in use, and .tmp never to the file's.
NamesInv ==
    /\ tmpName # None => tmpName # fileName /\ inode[tmpName] # None
    /\ fileName # None => inode[fileName] # None

\* Two tasks that persist do not overlap.
Alone ==
    \A p, q \in Persister : persist[p].at # "idle" /\ persist[q].at # "idle" => p = q

\* A task has a file open while it writes, the one behind .tmp, and leaves its
\* whole map there; the file itself is never open.
FileInv ==
    /\ FileIsWhole
    /\ \A p \in Persister :
          /\ persist[p].at = "writing" => persist[p].fd = tmpName /\ tmpName # None
          /\ persist[p].at # "writing" => persist[p].fd = None
          /\ persist[p].at = "written" => tmpName # None /\ inode[tmpName] = persist[p].map

DiskInv == DiskTypes /\ NamesInv /\ FileInv

-----------------------------------------------------------------------------
\* Partial functions on keys.
LEMMA PartialMap ==
    ASSUME NEW V, NEW f
    PROVE  f \in PartialMaps(V) <=>
             f = [k \in DOMAIN f |-> f[k]] /\ DOMAIN f \subseteq Key /\ \A k \in DOMAIN f : f[k] \in V
  <1>1. ASSUME f \in PartialMaps(V)
        PROVE  f = [k \in DOMAIN f |-> f[k]] /\ DOMAIN f \subseteq Key /\ \A k \in DOMAIN f : f[k] \in V
    <2>1. PICK K \in SUBSET Key : f \in [K -> V]
      BY <1>1 DEF PartialMaps
    <2> QED
      BY <2>1
  <1>2. ASSUME f = [k \in DOMAIN f |-> f[k]], DOMAIN f \subseteq Key, \A k \in DOMAIN f : f[k] \in V
        PROVE  f \in PartialMaps(V)
    <2>1. f \in [DOMAIN f -> V]
      BY <1>2
    <2> QED
      BY <1>2, <2>1 DEF PartialMaps
  <1> QED
    BY <1>1, <1>2

\* What insert does to a map ...
LEMMA WithKey ==
    ASSUME NEW V, NEW f \in PartialMaps(V), NEW k \in Key, NEW v \in V
    PROVE  /\ With(f, k, v) \in PartialMaps(V)
           /\ DOMAIN With(f, k, v) = DOMAIN f \cup {k}
           /\ With(f, k, v)[k] = v
           /\ \A x \in DOMAIN f : x # k => With(f, k, v)[x] = f[x]
  <1>1. DOMAIN f \subseteq Key /\ \A x \in DOMAIN f : f[x] \in V
    BY PartialMap
  <1>2. /\ DOMAIN With(f, k, v) = DOMAIN f \cup {k}
        /\ With(f, k, v)[k] = v
        /\ \A x \in DOMAIN f : x # k => With(f, k, v)[x] = f[x]
    BY DEF With
  <1>3. With(f, k, v) \in [DOMAIN f \cup {k} -> V]
    BY <1>1 DEF With
  <1> QED
    BY <1>1, <1>2, <1>3 DEF PartialMaps

\* ... and what the removal of keys does.
LEMMA WithoutKeys ==
    ASSUME NEW V, NEW f \in PartialMaps(V), NEW J
    PROVE  /\ Without(f, J) \in PartialMaps(V)
           /\ DOMAIN Without(f, J) = DOMAIN f \ J
           /\ \A x \in DOMAIN f \ J : Without(f, J)[x] = f[x]
  <1>1. DOMAIN f \subseteq Key /\ \A x \in DOMAIN f : f[x] \in V
    BY PartialMap
  <1>2. /\ DOMAIN Without(f, J) = DOMAIN f \ J
        /\ \A x \in DOMAIN f \ J : Without(f, J)[x] = f[x]
    BY DEF Without, Restrict
  <1>3. Without(f, J) \in [DOMAIN f \ J -> V]
    BY <1>1 DEF Without, Restrict
  <1> QED
    BY <1>1, <1>2, <1>3 DEF PartialMaps

\* The same of the live map and of the persistent one.
LEMMA WithoutLive ==
    ASSUME NEW f \in LiveMaps, NEW J
    PROVE  /\ Without(f, J) \in LiveMaps
           /\ DOMAIN Without(f, J) = DOMAIN f \ J
           /\ \A x \in DOMAIN f \ J : Without(f, J)[x] = f[x]
  <1>1. f \in PartialMaps(Live)
    BY DEF LiveMaps
  <1>2. /\ Without(f, J) \in PartialMaps(Live)
        /\ DOMAIN Without(f, J) = DOMAIN f \ J
        /\ \A x \in DOMAIN f \ J : Without(f, J)[x] = f[x]
    BY <1>1, WithoutKeys, ZenonT(40)
  <1>3. LiveMaps = PartialMaps(Live)
    BY DEF LiveMaps
  <1> QED
    BY <1>2, <1>3

LEMMA WithoutMaps ==
    ASSUME NEW f \in Maps, NEW J
    PROVE  /\ Without(f, J) \in Maps
           /\ DOMAIN Without(f, J) = DOMAIN f \ J
           /\ \A x \in DOMAIN f \ J : Without(f, J)[x] = f[x]
  <1> DEFINE T == 0..MaxTime
  <1>1. f \in PartialMaps(T) /\ Maps = PartialMaps(T)
    BY DEF Maps
  <1> HIDE DEF T
  <1>2. /\ Without(f, J) \in PartialMaps(T)
        /\ DOMAIN Without(f, J) = DOMAIN f \ J
        /\ \A x \in DOMAIN f \ J : Without(f, J)[x] = f[x]
    BY <1>1, WithoutKeys
  <1> QED
    BY <1>1, <1>2

LEMMA EmptyMap ==
    ASSUME NEW V
    PROVE  Empty \in PartialMaps(V) /\ DOMAIN Empty = {}
  <1>1. Empty \in [{} -> V]
    BY DEF Empty
  <1> QED
    BY <1>1 DEF Empty, PartialMaps

-----------------------------------------------------------------------------
(* On disk.                                                                *)

\* There is always an inode nobody uses: every task has one open at most.
LEMMA UnusedExists ==
    ASSUME DiskTypes, tmpName = None
    PROVE  \E j \in Inode : Unused(j)
  <1> DEFINE S == {persist[p].fd : p \in Persister}
             open == [p \in Persister |-> persist[p].fd]
  <1>1. IsFiniteSet(Persister) /\ Cardinality(Persister) \in Nat
    BY CacheAssumption, FS_CardinalityType
  <1>2. IsFiniteSet(S) /\ Cardinality(S) <= Cardinality(Persister)
    <2>1. open \in Surjection(Persister, S)
      BY DEF Surjection
    <2> HIDE DEF S, open
    <2> QED
      BY <1>1, <2>1, FS_Surjection
  <1>3. IsFiniteSet(S \cup {fileName}) /\ Cardinality(S \cup {fileName}) <= Cardinality(Persister) + 1
    <2> HIDE DEF S
    <2>1. Cardinality(S) \in Nat
      BY <1>2, FS_CardinalityType
    <2>2. /\ IsFiniteSet(S \cup {fileName})
          /\ Cardinality(S \cup {fileName}) = IF fileName \in S THEN Cardinality(S) ELSE Cardinality(S) + 1
      BY <1>2, FS_AddElement, Zenon
    <2> QED
      BY <1>1, <1>2, <2>1, <2>2
  <1>4. IsFiniteSet(Inode) /\ Cardinality(Inode) = Cardinality(Persister) + 2
    BY <1>1, FS_Interval DEF Inode
  <1>5. ~(Inode \subseteq S \cup {fileName})
    <2> HIDE DEF S
    <2>1. Cardinality(S \cup {fileName}) \in Nat
      BY <1>3, FS_CardinalityType
    <2> QED
      BY <1>1, <1>3, <1>4, <2>1, FS_Subset
  <1>6. PICK j \in Inode : j \notin S \cup {fileName}
    BY <1>5
  <1>7. j # None
    BY <1>6, CacheAssumption
  <1> QED
    BY <1>6, <1>7 DEF Unused

LEMMA InitDisk == Init => DiskInv
  <1>1. Empty \in Maps
    BY EmptyMap DEF Maps
  <1> QED
    BY <1>1 DEF Init, DiskInv, DiskTypes, NamesInv, FileInv, FileIsWhole, Idle, Stages

\* What every step keeps: types and names always, the file as long as tasks do
\* not overlap.
DiskStep == DiskTypes' /\ NamesInv' /\ (FileInv /\ Alone => FileInv')

LEMMA FrameDisk ==
    ASSUME DiskTypes, NamesInv, UNCHANGED <<persist, disk, saved>>
    PROVE  DiskStep
  BY DEF DiskStep, DiskTypes, NamesInv, FileInv, FileIsWhole, disk

\* A task gives up, is stopped with its process, or begins.
LEMMA SnapshotDisk ==
    ASSUME DiskTypes, NamesInv, MemoryTypes, NEW p \in Persister, Snapshot(p)
    PROVE  DiskStep
  <1>1. DiskTypes'
    BY DEF DiskTypes, MemoryTypes, Snapshot, disk, Stages
  <1>2. NamesInv'
    BY DEF NamesInv, Snapshot, disk
  <1>3. FileInv => FileInv'
    BY DEF DiskTypes, FileInv, FileIsWhole, Snapshot, disk
  <1> QED
    BY <1>1, <1>2, <1>3 DEF DiskStep

LEMMA GiveUpDisk ==
    ASSUME DiskTypes, NamesInv, Stop \/ \E p \in Persister : Fail(p)
    PROVE  DiskStep
  <1>1. Empty \in Maps
    BY EmptyMap DEF Maps
  <1>2. DiskTypes'
    BY <1>1 DEF DiskTypes, Stop, Fail, disk, Stages, Idle
  <1>3. NamesInv'
    BY DEF NamesInv, Stop, Fail, disk
  <1>4. FileInv => FileInv'
    BY DEF DiskTypes, FileInv, FileIsWhole, Stop, Fail, disk, Idle
  <1> QED
    BY <1>2, <1>3, <1>4 DEF DiskStep

LEMMA TruncateDisk ==
    ASSUME DiskTypes, NamesInv, NEW p \in Persister, Truncate(p)
    PROVE  DiskStep
  <1>1. PICK i \in Inode :
          /\ i = IF tmpName = None THEN CHOOSE j \in Inode : Unused(j) ELSE tmpName
          /\ tmpName' = i
          /\ inode' = [inode EXCEPT ![i] = Partial]
          /\ persist' = [persist EXCEPT ![p].at = "writing", ![p].fd = i]
    BY DEF Truncate
  <1>2. persist[p].at = "snapshot" /\ fileName' = fileName /\ saved' = saved
    BY DEF Truncate
  <1>3. i # fileName /\ i # None
    <2>1. CASE tmpName = None
      <3>1. Unused(i)
        BY <1>1, <2>1, UnusedExists
      <3> QED
        BY <3>1, CacheAssumption DEF Unused
    <2>2. CASE tmpName # None
      BY <1>1, <2>2 DEF NamesInv
    <2> QED
      BY <2>1, <2>2
  <1>4. DiskTypes'
    <2>1. inode' \in [Inode -> Maps \cup {Partial, None}]
      BY <1>1 DEF DiskTypes
    <2>2. persist' \in [Persister -> [at : Stages, map : Maps, fd : Inode \cup {None}]]
      <3>1. /\ persist'[p] = [at |-> "writing", map |-> persist[p].map, fd |-> i]
            /\ persist[p].map \in Maps
        BY <1>1 DEF DiskTypes
      <3>2. persist'[p] \in [at : Stages, map : Maps, fd : Inode \cup {None}]
        BY <3>1 DEF Stages
      <3>3. persist' = [persist EXCEPT ![p] = persist'[p]]
        BY <1>1, <3>1 DEF DiskTypes
      <3> QED
        BY <3>2, <3>3 DEF DiskTypes
    <2>3. /\ fileName' \in Inode \cup {None} /\ tmpName' \in Inode \cup {None}
          /\ saved' \in Maps
      BY <1>1, <1>2 DEF DiskTypes
    <2> QED
      BY <2>1, <2>2, <2>3 DEF DiskTypes
  <1>5. NamesInv'
    BY <1>1, <1>2, <1>3, CacheAssumption DEF NamesInv, DiskTypes
  <1>6. ASSUME FileInv, Alone PROVE FileInv'
    <2>1. FileIsWhole'
      BY <1>1, <1>2, <1>3, <1>6 DEF FileInv, FileIsWhole, DiskTypes
    <2>2. \A q \in Persister : q # p => persist[q].at = "idle" /\ persist'[q] = persist[q]
      BY <1>1, <1>2, <1>6 DEF Alone, DiskTypes
    <2>3. persist'[p].at = "writing" /\ persist'[p].fd = i
      BY <1>1 DEF DiskTypes
    <2> QED
      BY <1>1, <1>3, <1>6, <2>1, <2>2, <2>3 DEF FileInv
  <1> QED
    BY <1>4, <1>5, <1>6 DEF DiskStep

LEMMA WriteDisk ==
    ASSUME DiskTypes, NamesInv, NEW p \in Persister, Write(p)
    PROVE  DiskStep
  <1>1. /\ persist[p].at = "writing"
        /\ inode' = [inode EXCEPT ![persist[p].fd] = persist[p].map]
        /\ persist' = [persist EXCEPT ![p].at = "written", ![p].fd = None]
        /\ tmpName' = tmpName /\ fileName' = fileName /\ saved' = saved
    BY DEF Write
  <1>2. persist[p].map \in Maps /\ persist[p].map # None
    BY CacheAssumption DEF DiskTypes
  <1>3. DiskTypes'
    BY <1>1, <1>2 DEF DiskTypes, Stages
  <1>4. NamesInv'
    BY <1>1, <1>2, CacheAssumption DEF NamesInv, DiskTypes
  <1>5. ASSUME FileInv, Alone PROVE FileInv'
    <2>1. persist[p].fd = tmpName /\ tmpName # None /\ tmpName # fileName /\ tmpName \in Inode
      BY <1>1, <1>5 DEF FileInv, NamesInv, DiskTypes
    <2>2. inode'[tmpName] = persist[p].map /\ \A i \in Inode : i # tmpName => inode'[i] = inode[i]
      BY <1>1, <2>1 DEF DiskTypes
    <2>3. FileIsWhole'
      BY <1>1, <1>5, <2>1, <2>2 DEF FileInv, FileIsWhole, DiskTypes
    <2>4. \A q \in Persister : q # p => persist[q].at = "idle" /\ persist'[q] = persist[q]
      BY <1>1, <1>5 DEF Alone, DiskTypes
    <2>5. persist'[p].at = "written" /\ persist'[p].fd = None /\ persist'[p].map = persist[p].map
      BY <1>1 DEF DiskTypes
    <2>6. ASSUME NEW q \in Persister, q # p
          PROVE  persist'[q].at = "idle" /\ persist'[q].fd = None
      BY <1>5, <2>4, <2>6 DEF FileInv
    <2>7. tmpName' # None /\ inode'[tmpName'] = persist'[p].map
      BY <1>1, <2>1, <2>2, <2>5
    <2> QED
      BY <2>3, <2>5, <2>6, <2>7 DEF FileInv
  <1> QED
    BY <1>3, <1>4, <1>5 DEF DiskStep

LEMMA RenameDisk ==
    ASSUME DiskTypes, NamesInv, NEW p \in Persister, Rename(p)
    PROVE  DiskStep
  <1>1. Empty \in Maps
    BY EmptyMap DEF Maps
  <1>2. persist[p].at = "written" /\ persist' = [persist EXCEPT ![p] = Idle]
    BY DEF Rename
  <1>3. /\ persist'[p].at = "idle" /\ persist'[p].fd = None
        /\ \A q \in Persister : q # p => persist'[q] = persist[q]
    BY <1>2 DEF DiskTypes, Idle
  <1>4. persist' \in [Persister -> [at : Stages, map : Maps, fd : Inode \cup {None}]]
    BY <1>1, <1>2 DEF DiskTypes, Idle, Stages
  <1>5. CASE tmpName = None
    <2>1. inode' = inode /\ tmpName' = tmpName /\ fileName' = fileName /\ saved' = saved
      BY <1>5 DEF Rename, disk
    <2>2. DiskTypes' /\ NamesInv'
      BY <1>4, <2>1 DEF DiskTypes, NamesInv
    <2>3. FileInv => FileInv'
      BY <1>3, <2>1 DEF FileInv, FileIsWhole
    <2> QED
      BY <2>2, <2>3 DEF DiskStep
  <1>6. CASE tmpName # None
    <2>1. fileName' = tmpName /\ tmpName' = None /\ saved' = persist[p].map
          /\ (inode' = inode \/ inode' = [inode EXCEPT ![fileName] = None])
      BY <1>6 DEF Rename
    <2>2. tmpName # fileName /\ tmpName \in Inode /\ inode[tmpName] # None
      BY <1>6 DEF DiskTypes, NamesInv
    <2>3. inode' \in [Inode -> Maps \cup {Partial, None}] /\ inode'[tmpName] = inode[tmpName]
      BY <2>1, <2>2 DEF DiskTypes
    <2>4. DiskTypes' /\ NamesInv'
      BY <1>4, <1>6, <2>1, <2>2, <2>3 DEF DiskTypes, NamesInv
    <2>5. ASSUME FileInv, Alone PROVE FileInv'
      <3>1. inode[tmpName] = persist[p].map
        BY <1>2, <2>5 DEF FileInv
      <3>2. \A q \in Persister : q # p => persist[q].at = "idle"
        BY <1>2, <2>5 DEF Alone
      <3>3. FileIsWhole'
        BY <1>6, <2>1, <2>3, <3>1 DEF FileIsWhole
      <3> QED
        BY <1>3, <2>1, <2>5, <3>2, <3>3 DEF FileInv
    <2> QED
      BY <2>4, <2>5 DEF DiskStep
  <1> QED
    BY <1>5, <1>6

-----------------------------------------------------------------------------
(* In memory.                                                              *)

LEMMA InitMemory == Init => MemoryInv
  <1>1. Empty \in Maps /\ Empty \in LiveMaps /\ DOMAIN Empty = {}
    BY EmptyMap DEF Maps, LiveMaps
  <1>2. 0 \in 0..MaxTime
    BY CacheAssumption
  <1> QED
    BY <1>1, <1>2 DEF Init, MemoryInv, MemoryTypes, WorkInv, KeyInv, Touching

\* An operation that begins touches its keys, and no other changes; keys that
\* were touched already are raced from now on.
LEMMA BeginTouches ==
    ASSUME MemoryTypes, NEW t \in Thread, NEW op \in {"insert", "remove", "clear"},
           NEW keys \in SUBSET Key, Begin(t, op, keys)
    PROVE  /\ work' \in [Thread -> Operations \cup {None}]
           /\ work'[t] # None /\ work'[t].op = op /\ work'[t].keys = keys /\ work'[t].compiled = clock
           /\ \A u \in Thread : u # t => work'[u] = work[u]
           /\ \A k \in Key : Touching(k)' = IF k \in keys THEN Touching(k) \cup {t} ELSE Touching(k)
           /\ \A k \in Key \ raced' : k \in keys => Touching(k) = {}
           /\ raced \subseteq raced' /\ raced' \subseteq Key
  <1> DEFINE o == [op |-> op, keys |-> keys, compiled |-> clock]
  <1>1. o \in Operations /\ o # None
    BY CacheAssumption DEF MemoryTypes, Operations
  <1>2. work' = [work EXCEPT ![t] = o] /\ work[t] = None
    BY DEF Begin
  <1>3. work \in [Thread -> Operations \cup {None}] /\ raced \subseteq Key
    BY DEF MemoryTypes
  <1>4. \A k \in Key : Touching(k)' = IF k \in keys THEN Touching(k) \cup {t} ELSE Touching(k)
    BY <1>1, <1>2, <1>3 DEF Touching
  <1>5. raced' = raced \cup {k \in keys : Touching(k) # {}}
    BY DEF Begin
  <1> HIDE DEF o
  <1>6. work' \in [Thread -> Operations \cup {None}] /\ work'[t] = o
        /\ \A u \in Thread : u # t => work'[u] = work[u]
    BY <1>1, <1>2, <1>3
  <1>7. o.op = op /\ o.keys = keys /\ o.compiled = clock
    BY DEF o
  <1> QED
    BY <1>1, <1>3, <1>4, <1>5, <1>6, <1>7

LEMMA InsertMemory ==
    ASSUME MemoryInv, NEW t \in Thread, NEW k \in Key, Insert(t, k)
    PROVE  MemoryInv'
  <1> DEFINE e == [compiled |-> clock, deadline |-> clock + TTL]
  <1>1. MemoryTypes /\ WorkInv /\ KeyInv /\ Begin(t, "insert", {k})
    BY DEF MemoryInv, Insert
  <1>2. e \in Live
    BY <1>1, CacheAssumption DEF MemoryTypes, Live
  <1>3. /\ inner' \in LiveMaps
        /\ DOMAIN inner' = DOMAIN inner \cup {k}
        /\ inner'[k].compiled = clock
        /\ \A x \in DOMAIN inner : x # k => inner'[x] = inner[x]
    <2>1. inner' = With(inner, k, e) /\ inner \in LiveMaps /\ e.compiled = clock
      BY <1>1 DEF Insert, MemoryTypes
    <2> HIDE DEF e
    <2>2. /\ With(inner, k, e) \in LiveMaps
          /\ DOMAIN With(inner, k, e) = DOMAIN inner \cup {k}
          /\ With(inner, k, e)[k] = e
          /\ \A x \in DOMAIN inner : x # k => With(inner, k, e)[x] = inner[x]
      BY <1>2, <2>1, WithKey DEF LiveMaps
    <2> QED
      BY <2>1, <2>2
  <1>4. /\ work' \in [Thread -> Operations \cup {None}]
        /\ work'[t] # None /\ work'[t].op = "insert" /\ work'[t].keys = {k} /\ work'[t].compiled = clock
        /\ \A u \in Thread : u # t => work'[u] = work[u]
        /\ \A j \in Key : Touching(j)' = IF j \in {k} THEN Touching(j) \cup {t} ELSE Touching(j)
        /\ \A j \in Key \ raced' : j \in {k} => Touching(j) = {}
        /\ raced \subseteq raced' /\ raced' \subseteq Key
    BY <1>1, BeginTouches, {k} \in SUBSET Key
  <1>5. up /\ up' = up /\ clock' = clock /\ entries' = entries /\ forgotten' = forgotten \ {k}
        /\ halved' = halved
    BY DEF Insert, Begin
  <1>6. MemoryTypes'
    BY <1>1, <1>3, <1>4, <1>5 DEF MemoryTypes
  <1>7. WorkInv'
    BY <1>1, <1>4, <1>5 DEF WorkInv
  <1>8. KeyInv'
    <2> SUFFICES ASSUME NEW j \in Key \ raced'
                 PROVE  /\ \A a, b \in Touching(j)' : a = b
                        /\ \A a \in Touching(j)' : HalfDone(a, j)'
                        /\ Touching(j)' = {} /\ j \notin halved' /\ j \in DOMAIN inner' =>
                              j \in DOMAIN entries' /\ entries'[j] = inner'[j].compiled
                        /\ j \in forgotten' => j \notin DOMAIN inner'
                        /\ j \in forgotten' \ halved' /\ Touching(j)' = {} => j \notin DOMAIN entries'
      BY DEF KeyInv
    <2>1. CASE j = k
      BY <2>1, <1>3, <1>4, <1>5 DEF HalfDone
    <2>2. CASE j # k
      <3>1. Touching(j)' = Touching(j) /\ t \notin Touching(j) /\ Touching(j) \subseteq Thread
        BY <2>2, <1>1, <1>4 DEF Begin, Touching
      <3>2. \A a \in Touching(j) : HalfDone(a, j) => HalfDone(a, j)'
        BY <2>2, <3>1, <1>3, <1>4, <1>5 DEF HalfDone
      <3> QED
        BY <2>2, <3>1, <3>2, <1>1, <1>3, <1>4, <1>5 DEF KeyInv
    <2> QED
      BY <2>1, <2>2
  <1> QED
    BY <1>6, <1>7, <1>8 DEF MemoryInv

LEMMA RemoveMemory ==
    ASSUME MemoryInv, NEW t \in Thread, NEW op \in {"remove", "clear"}, NEW keys \in SUBSET Key,
           Remove(t, op, keys)
    PROVE  MemoryInv'
  <1>1. MemoryTypes /\ WorkInv /\ KeyInv /\ Begin(t, op, keys)
    BY DEF MemoryInv, Remove
  <1>2. /\ inner' \in LiveMaps
        /\ DOMAIN inner' = DOMAIN inner \ keys
        /\ \A x \in DOMAIN inner \ keys : inner'[x] = inner[x]
    <2>1. inner' = Without(inner, keys) /\ inner \in LiveMaps
      BY <1>1 DEF Remove, MemoryTypes
    <2>2. /\ Without(inner, keys) \in LiveMaps
          /\ DOMAIN Without(inner, keys) = DOMAIN inner \ keys
          /\ \A x \in DOMAIN inner \ keys : Without(inner, keys)[x] = inner[x]
      BY <2>1, WithoutLive
    <2> QED
      BY <2>1, <2>2
  <1>3. /\ work' \in [Thread -> Operations \cup {None}]
        /\ work'[t] # None /\ work'[t].op = op /\ op # "insert" /\ work'[t].keys = keys
        /\ \A u \in Thread : u # t => work'[u] = work[u]
        /\ \A j \in Key : Touching(j)' = IF j \in keys THEN Touching(j) \cup {t} ELSE Touching(j)
        /\ \A j \in Key \ raced' : j \in keys => Touching(j) = {}
        /\ raced \subseteq raced' /\ raced' \subseteq Key
    BY <1>1, BeginTouches
  <1>4. up /\ up' = up /\ clock' = clock /\ entries' = entries /\ forgotten' = forgotten \cup keys
        /\ halved' = halved
    BY DEF Remove, Begin
  <1>5. MemoryTypes'
    BY <1>1, <1>2, <1>3, <1>4 DEF MemoryTypes
  <1>6. WorkInv'
    BY <1>1, <1>3, <1>4 DEF WorkInv
  <1>7. KeyInv'
    <2> SUFFICES ASSUME NEW j \in Key \ raced'
                 PROVE  /\ \A a, b \in Touching(j)' : a = b
                        /\ \A a \in Touching(j)' : HalfDone(a, j)'
                        /\ Touching(j)' = {} /\ j \notin halved' /\ j \in DOMAIN inner' =>
                              j \in DOMAIN entries' /\ entries'[j] = inner'[j].compiled
                        /\ j \in forgotten' => j \notin DOMAIN inner'
                        /\ j \in forgotten' \ halved' /\ Touching(j)' = {} => j \notin DOMAIN entries'
      BY DEF KeyInv
    <2>1. CASE j \in keys
      BY <2>1, <1>2, <1>3, <1>4 DEF HalfDone
    <2>2. CASE j \notin keys
      <3>1. Touching(j)' = Touching(j) /\ t \notin Touching(j) /\ Touching(j) \subseteq Thread
        BY <2>2, <1>1, <1>3 DEF Begin, Touching
      <3>2. \A a \in Touching(j) : HalfDone(a, j) => HalfDone(a, j)'
        BY <2>2, <3>1, <1>2, <1>3, <1>4 DEF HalfDone
      <3> QED
        BY <2>2, <3>1, <3>2, <1>1, <1>2, <1>3, <1>4 DEF KeyInv
    <2> QED
      BY <2>1, <2>2
  <1> QED
    BY <1>5, <1>6, <1>7 DEF MemoryInv

\* The second half of an operation does to `entries` what the first did to
\* `inner`.
LEMMA SecondHalfMemory ==
    ASSUME MemoryInv, NEW t \in Thread, SecondHalf(t)
    PROVE  MemoryInv'
  <1>1. MemoryTypes /\ WorkInv /\ KeyInv /\ work[t] \in Operations /\ work[t] # None
    BY DEF MemoryInv, MemoryTypes, SecondHalf
  <1>2. /\ entries' \in Maps
        /\ \A j \in Key \ work[t].keys :
              /\ j \in DOMAIN entries' <=> j \in DOMAIN entries
              /\ j \in DOMAIN entries => entries'[j] = entries[j]
        /\ \A j \in work[t].keys :
              IF work[t].op = "insert"
              THEN j \in DOMAIN entries' /\ entries'[j] = work[t].compiled
              ELSE j \notin DOMAIN entries'
    <2>1. CASE work[t].op = "insert"
      <3>1. PICK k \in Key : work[t].keys = {k}
        BY <2>1, <1>1 DEF WorkInv
      <3>2. entries' = With(entries, k, work[t].compiled) /\ entries \in Maps
            /\ work[t].compiled \in 0..MaxTime
        BY <2>1, <3>1, <1>1 DEF SecondHalf, MemoryTypes, Operations
      <3> DEFINE T == 0..MaxTime
                 v == work[t].compiled
      <3>3. v \in T /\ entries \in PartialMaps(T)
        BY <3>2 DEF Maps
      <3>6. Maps = PartialMaps(T)
        BY DEF Maps
      <3> HIDE DEF T, v
      <3>4. /\ With(entries, k, v) \in PartialMaps(T)
            /\ DOMAIN With(entries, k, v) = DOMAIN entries \cup {k}
            /\ With(entries, k, v)[k] = v
            /\ \A x \in DOMAIN entries : x # k => With(entries, k, v)[x] = entries[x]
        BY <3>1, <3>3, WithKey
      <3>5. entries' = With(entries, k, v)
        BY <3>2 DEF v
      <3> QED
        BY <2>1, <3>1, <3>4, <3>5, <3>6 DEF v
    <2>2. CASE work[t].op # "insert"
      <3>1. entries' = Without(entries, work[t].keys) /\ entries \in Maps
        BY <2>2, <1>1 DEF SecondHalf, MemoryTypes
      <3>2. LET w == Without(entries, work[t].keys)
            IN /\ w \in Maps /\ DOMAIN w = DOMAIN entries \ work[t].keys
               /\ \A x \in DOMAIN entries \ work[t].keys : w[x] = entries[x]
        BY <3>1, WithoutMaps
      <3> QED
        BY <2>2, <3>1, <3>2
    <2> QED
      BY <2>1, <2>2
  <1>3. /\ work' = [work EXCEPT ![t] = None]
        /\ up' = up /\ clock' = clock /\ inner' = inner /\ forgotten' = forgotten /\ raced' = raced
        /\ halved' = halved \ work[t].keys
    BY DEF SecondHalf
  <1>4. /\ work' \in [Thread -> Operations \cup {None}] /\ work'[t] = None
        /\ \A u \in Thread : u # t => work'[u] = work[u]
    BY <1>1, <1>3 DEF MemoryTypes
  <1>5. \A j \in Key : Touching(j)' = Touching(j) \ {t}
    BY <1>4 DEF Touching
  <1>6. MemoryTypes'
    BY <1>1, <1>2, <1>3, <1>4 DEF MemoryTypes
  <1>7. WorkInv'
    BY <1>1, <1>3, <1>4 DEF WorkInv, MemoryTypes
  <1>8. KeyInv'
    <2> SUFFICES ASSUME NEW j \in Key \ raced
                 PROVE  /\ \A a, b \in Touching(j)' : a = b
                        /\ \A a \in Touching(j)' : HalfDone(a, j)'
                        /\ Touching(j)' = {} /\ j \notin halved' /\ j \in DOMAIN inner =>
                              j \in DOMAIN entries' /\ entries'[j] = inner[j].compiled
                        /\ j \in forgotten => j \notin DOMAIN inner
                        /\ j \in forgotten \ halved' /\ Touching(j)' = {} => j \notin DOMAIN entries'
      BY <1>3 DEF KeyInv
    <2>1. CASE t \in Touching(j)
      <3>1. Touching(j)' = {} /\ HalfDone(t, j) /\ j \in work[t].keys
        BY <2>1, <1>1, <1>5 DEF KeyInv, Touching
      <3>2. j \in forgotten => j \notin DOMAIN inner
        BY <1>1 DEF KeyInv
      <3> QED
        BY <3>1, <3>2, <1>2 DEF HalfDone
    <2>2. CASE t \notin Touching(j)
      <3>1. Touching(j)' = Touching(j) /\ j \notin work[t].keys /\ Touching(j) \subseteq Thread
        BY <2>2, <1>1, <1>5 DEF Touching
      <3>2. \A a \in Touching(j) : HalfDone(a, j) => HalfDone(a, j)'
        BY <2>2, <3>1, <1>3, <1>4 DEF HalfDone
      <3> QED
        BY <2>2, <3>1, <3>2, <1>1, <1>2, <1>3 DEF KeyInv
    <2> QED
      BY <2>1, <2>2
  <1> QED
    BY <1>6, <1>7, <1>8 DEF MemoryInv

\* The caller of an operation is dropped: what its first half has done stays.
LEMMA DropMemory ==
    ASSUME MemoryInv, NEW t \in Thread, Drop(t)
    PROVE  MemoryInv'
  <1>1. MemoryTypes /\ WorkInv /\ KeyInv /\ work[t] \in Operations /\ work[t] # None
    BY DEF MemoryInv, MemoryTypes, Drop
  <1>2. /\ work' = [work EXCEPT ![t] = None] /\ up' = up /\ clock' = clock
        /\ inner' = inner /\ entries' = entries /\ forgotten' = forgotten /\ raced' = raced
        /\ halved' = halved \cup work[t].keys
    BY DEF Drop, memory
  <1>3. /\ work' \in [Thread -> Operations \cup {None}] /\ work'[t] = None
        /\ \A u \in Thread : u # t => work'[u] = work[u]
    BY <1>1, <1>2 DEF MemoryTypes
  <1>4. \A j \in Key : Touching(j)' = Touching(j) \ {t}
    BY <1>3 DEF Touching
  <1>5. work[t].keys \subseteq Key
    BY <1>1 DEF Operations
  <1>6. MemoryTypes'
    BY <1>1, <1>2, <1>3, <1>5 DEF MemoryTypes
  <1>7. WorkInv'
    BY <1>1, <1>2, <1>3 DEF WorkInv
  <1>8. KeyInv'
    <2> SUFFICES ASSUME NEW j \in Key \ raced
                 PROVE  /\ \A a, b \in Touching(j)' : a = b
                        /\ \A a \in Touching(j)' : HalfDone(a, j)'
                        /\ Touching(j)' = {} /\ j \notin halved' /\ j \in DOMAIN inner =>
                              j \in DOMAIN entries /\ entries[j] = inner[j].compiled
                        /\ j \in forgotten => j \notin DOMAIN inner
                        /\ j \in forgotten \ halved' /\ Touching(j)' = {} => j \notin DOMAIN entries
      BY <1>2 DEF KeyInv
    <2>1. \A a \in Touching(j) \ {t} : HalfDone(a, j) => HalfDone(a, j)'
      BY <1>2, <1>3 DEF HalfDone, Touching
    <2>2. CASE t \in Touching(j)
      <3>1. Touching(j)' = {} /\ j \in halved'
        BY <2>2, <1>1, <1>2, <1>4 DEF KeyInv, Touching
      <3> QED
        BY <3>1, <1>1 DEF KeyInv
    <2>3. CASE t \notin Touching(j)
      BY <2>1, <2>3, <1>1, <1>2, <1>4 DEF KeyInv
    <2> QED
      BY <2>2, <2>3
  <1> QED
    BY <1>6, <1>7, <1>8 DEF MemoryInv

\* The process starts, with what the file holds or with nothing, or stops.
LEMMA StartMemory ==
    ASSUME MemoryInv, DiskTypes, NamesInv, NEW context \in Contexts, Start(context)
    PROVE  MemoryInv'
  <1>1. MemoryTypes /\ WorkInv /\ ~up /\ up' = TRUE /\ clock' = clock
        /\ work' = work /\ forgotten' = forgotten /\ raced' = raced /\ halved' = halved
    BY DEF MemoryInv, Start, history
  <1>2. /\ entries' \in Maps /\ inner' \in LiveMaps /\ DOMAIN inner' = DOMAIN entries'
        /\ \A k \in DOMAIN inner' : inner'[k].compiled = entries'[k]
    <2>1. Empty \in Maps /\ Empty \in LiveMaps /\ DOMAIN Empty = {}
      BY EmptyMap DEF Maps, LiveMaps
    <2>2. CASE inner' = Empty /\ entries' = Empty
      BY <2>1, <2>2
    <2>3. CASE Load
      <3>1. entries' \in Maps
        <4>1. CASE Readable
          <5>1. inode[fileName] \in Maps
            BY <4>1 DEF Readable, DiskTypes, NamesInv
          <5> QED
            BY <4>1, <5>1, <2>3 DEF Load
        <4>2. CASE ~Readable
          BY <4>2, <2>1, <2>3 DEF Load
        <4> QED
          BY <4>1, <4>2
      <3>2. DOMAIN entries' \subseteq Key /\ \A k \in DOMAIN entries' : entries'[k] \in 0..MaxTime
        BY <3>1, PartialMap DEF Maps
      <3>3. inner' = [k \in DOMAIN entries' |->
                         [compiled |-> entries'[k], deadline |-> clock + TTL]]
        BY <2>3 DEF Load
      <3>4. inner' \in [DOMAIN entries' -> Live]
        BY <1>1, <3>2, <3>3, CacheAssumption DEF Live, MemoryTypes
      <3> QED
        BY <3>1, <3>2, <3>3, <3>4 DEF LiveMaps, PartialMaps
    <2> QED
      BY <2>2, <2>3 DEF Start
  <1>3. MemoryTypes'
    BY <1>1, <1>2 DEF MemoryTypes
  <1>4. WorkInv'
    BY <1>1 DEF WorkInv
  <1>5. \A k \in Key : Touching(k)' = {}
    BY <1>1 DEF WorkInv, Touching
  <1>6. KeyInv'
    BY <1>1, <1>2, <1>5 DEF KeyInv, WorkInv
  <1> QED
    BY <1>3, <1>4, <1>6 DEF MemoryInv

LEMMA StopMemory == MemoryInv /\ Stop => MemoryInv'
  <1> SUFFICES ASSUME MemoryInv, Stop PROVE MemoryInv'
    OBVIOUS
  <1>1. Empty \in Maps /\ Empty \in LiveMaps /\ DOMAIN Empty = {}
    BY EmptyMap DEF Maps, LiveMaps
  <1>2. MemoryTypes /\ up' = FALSE /\ clock' = clock /\ inner' = Empty /\ entries' = Empty
        /\ work' = [t \in Thread |-> None] /\ forgotten' = {} /\ raced' = {} /\ halved' = {}
    BY DEF MemoryInv, Stop
  <1>3. MemoryTypes' /\ WorkInv'
    BY <1>1, <1>2 DEF MemoryTypes, WorkInv
  <1>4. KeyInv'
    BY <1>1, <1>2 DEF KeyInv, Touching
  <1> QED
    BY <1>3, <1>4 DEF MemoryInv

LEMMA EvictMemory ==
    ASSUME MemoryInv, NEW k \in Key, Evict(k)
    PROVE  MemoryInv'
  <1>1. MemoryTypes /\ WorkInv /\ KeyInv /\ inner' = Without(inner, {k}) /\ inner \in LiveMaps
        /\ up' = up /\ clock' = clock /\ entries' = entries /\ work' = work
        /\ forgotten' = forgotten /\ raced' = raced /\ halved' = halved
    BY DEF MemoryInv, MemoryTypes, Evict, history
  <1>2. /\ inner' \in LiveMaps
        /\ DOMAIN inner' = DOMAIN inner \ {k}
        /\ \A x \in DOMAIN inner \ {k} : inner'[x] = inner[x]
    <2>1. /\ Without(inner, {k}) \in LiveMaps
          /\ DOMAIN Without(inner, {k}) = DOMAIN inner \ {k}
          /\ \A x \in DOMAIN inner \ {k} : Without(inner, {k})[x] = inner[x]
      BY <1>1, WithoutLive
    <2> QED
      BY <1>1, <2>1
  <1>3. MemoryTypes' /\ WorkInv'
    BY <1>1, <1>2 DEF MemoryTypes, WorkInv
  <1>4. \A j \in Key : Touching(j)' = Touching(j)
    BY <1>1 DEF Touching
  <1>5. \A t, j : HalfDone(t, j) => HalfDone(t, j)'
    BY <1>1, <1>2 DEF HalfDone
  <1>6. KeyInv'
    <2> SUFFICES ASSUME NEW j \in Key \ raced'
                 PROVE  /\ \A a, b \in Touching(j)' : a = b
                        /\ \A a \in Touching(j)' : HalfDone(a, j)'
                        /\ Touching(j)' = {} /\ j \notin halved' /\ j \in DOMAIN inner' =>
                              j \in DOMAIN entries' /\ entries'[j] = inner'[j].compiled
                        /\ j \in forgotten' => j \notin DOMAIN inner'
                        /\ j \in forgotten' \ halved' /\ Touching(j)' = {} => j \notin DOMAIN entries'
      BY DEF KeyInv
    <2>1. /\ \A a, b \in Touching(j) : a = b
          /\ \A a \in Touching(j) : HalfDone(a, j)
          /\ Touching(j) = {} /\ j \notin halved /\ j \in DOMAIN inner =>
                j \in DOMAIN entries /\ entries[j] = inner[j].compiled
          /\ j \in forgotten => j \notin DOMAIN inner
          /\ j \in forgotten \ halved /\ Touching(j) = {} => j \notin DOMAIN entries
      BY <1>1 DEF KeyInv
    <2>2. \A a \in Touching(j)' : HalfDone(a, j)'
      BY <1>4, <1>5, <2>1
    <2>3. j \in DOMAIN inner' => j \in DOMAIN inner /\ inner'[j] = inner[j]
      BY <1>2
    <2> QED
      BY <1>1, <1>4, <2>1, <2>2, <2>3
  <1> QED
    BY <1>3, <1>6 DEF MemoryInv

\* Everything else leaves the memory alone, or lets time pass.
LEMMA FrameMemory ==
    ASSUME MemoryInv, clock' \in 0..MaxTime, UNCHANGED <<up, memory, work, history>>
    PROVE  MemoryInv'
  <1>1. /\ up' = up /\ inner' = inner /\ entries' = entries /\ work' = work
        /\ forgotten' = forgotten /\ raced' = raced /\ halved' = halved
    BY DEF memory, history
  <1>2. \A j \in Key : Touching(j)' = Touching(j)
    BY <1>1 DEF Touching
  <1>3. \A t, j : HalfDone(t, j) => HalfDone(t, j)'
    BY <1>1 DEF HalfDone
  <1> QED
    BY <1>1, <1>2, <1>3 DEF MemoryInv, MemoryTypes, WorkInv, KeyInv

-----------------------------------------------------------------------------
Always == MemoryInv /\ DiskTypes /\ NamesInv

LEMMA AlwaysNext == Always /\ [Next]_vars => MemoryInv' /\ DiskStep
  <1> SUFFICES ASSUME Always, [Next]_vars PROVE MemoryInv' /\ DiskStep
    OBVIOUS
  <1>1. MemoryInv /\ MemoryTypes /\ DiskTypes /\ NamesInv /\ clock \in 0..MaxTime
    BY DEF Always, MemoryInv, MemoryTypes
  <1>2. CASE \E context \in Contexts : Start(context)
    <2>1. PICK context \in Contexts : Start(context)
      BY <1>2
    <2>2. MemoryInv'
      BY <1>1, <2>1, StartMemory
    <2>3. DiskStep
      BY <1>1, <2>1, FrameDisk DEF Start
    <2> QED
      BY <2>2, <2>3
  <1>3. CASE Stop
    BY <1>1, <1>3, StopMemory, GiveUpDisk
  <1>4. CASE Tick
    <2>1. clock' \in 0..MaxTime
      BY <1>1, <1>4, CacheAssumption DEF Tick
    <2> QED
      BY <1>1, <1>4, <2>1, FrameMemory, FrameDisk DEF Tick
  <1>5. CASE \E k \in Key : Evict(k)
    <2>1. PICK k \in Key : Evict(k)
      BY <1>5
    <2> QED
      BY <1>1, <2>1, EvictMemory, FrameDisk DEF Evict
  <1>6. CASE Operate
    <2>1. PICK t \in Thread :
            \/ \E k \in Key : Insert(t, k) \/ Remove(t, "remove", {k})
            \/ Remove(t, "clear", Key)
            \/ SecondHalf(t) \/ Drop(t)
      BY <1>6 DEF Operate
    <2>2. UNCHANGED <<persist, disk, saved>>
      BY <2>1 DEF Insert, Remove, SecondHalf, Drop
    <2>3. MemoryInv'
      <3>1. CASE \E k \in Key : Insert(t, k)
        BY <1>1, <3>1, InsertMemory
      <3>2. CASE \E op \in {"remove", "clear"} : \E keys \in SUBSET Key : Remove(t, op, keys)
        BY <1>1, <3>2, RemoveMemory
      <3>3. CASE SecondHalf(t)
        BY <1>1, <3>3, SecondHalfMemory
      <3>4. CASE Drop(t)
        BY <1>1, <3>4, DropMemory
      <3> QED
        BY <2>1, <3>1, <3>2, <3>3, <3>4
    <2> QED
      BY <1>1, <2>2, <2>3, FrameDisk
  <1>7. CASE Persist
    <2>1. PICK p \in Persister :
            Snapshot(p) \/ Truncate(p) \/ Write(p) \/ Rename(p) \/ Fail(p)
      BY <1>7 DEF Persist
    <2>2. clock' = clock /\ UNCHANGED <<up, memory, work, history>>
      BY <2>1 DEF Snapshot, Truncate, Write, Rename, Fail
    <2>3. MemoryInv'
      BY <1>1, <2>2, FrameMemory
    <2>4. DiskStep
      BY <1>1, <2>1, SnapshotDisk, TruncateDisk, WriteDisk, RenameDisk, GiveUpDisk
    <2> QED
      BY <2>3, <2>4
  <1>8. CASE UNCHANGED vars
    BY <1>1, <1>8, FrameMemory, FrameDisk DEF vars
  <1> QED
    BY <1>2, <1>3, <1>4, <1>5, <1>6, <1>7, <1>8 DEF Next

LEMMA AlwaysHolds == Spec => []Always
  <1>1. Init => Always
    BY InitMemory, InitDisk DEF Always, DiskInv
  <1>2. Always /\ [Next]_vars => Always'
    BY AlwaysNext DEF Always, DiskStep
  <1> QED
    BY <1>1, <1>2, PTL DEF Spec

LEMMA FileHolds == Spec /\ []Alone => []FileInv
  <1>1. Init => FileInv
    BY InitDisk DEF DiskInv
  <1>2. Always /\ FileInv /\ Alone /\ [Next]_vars => FileInv'
    BY AlwaysNext DEF DiskStep
  <1> QED
    BY <1>1, <1>2, AlwaysHolds, PTL DEF Spec

\* Between two operations on a key -- insert, invalidate_plan, clear, each of
\* which changes the two maps one after the other -- what get can answer is in
\* the map that persist saves, whatever moka evicts and expires, other threads
\* do to other keys and the file held at the start; a caller that is dropped
\* between the two changes spoils it until the next operation on the key.
THEOREM LiveIsPersistentHolds == Spec => []LiveIsPersistent
  <1>1. Always => LiveIsPersistent
    BY DEF Always, MemoryInv, KeyInv, LiveIsPersistent, Servable
  <1> QED
    BY <1>1, AlwaysHolds, PTL

\* A plan that invalidate_plan or clear removed is in neither map, until it is
\* inserted again, on every key on which operations have not overlapped and the
\* last one was not dropped half way.
THEOREM StaysForgottenHolds == Spec => []StaysForgotten
  <1>1. Always => StaysForgotten
    BY DEF Always, MemoryInv, MemoryTypes, KeyInv, StaysForgotten, Servable
  <1> QED
    BY <1>1, AlwaysHolds, PTL

\* As long as no two tasks are in persist at the same time, the file is the map
\* of the last persist that returned Ok, whole, wherever a process dies or a
\* write fails.
THEOREM FileIsWholeIfAlone == Spec /\ []Alone => []FileIsWhole
  <1>1. FileInv => FileIsWhole
    BY DEF FileInv
  <1> QED
    BY <1>1, FileHolds, PTL

\* A facade that persists from one task at a time has that for nothing.
THEOREM FileIsWholeWithOnePersister ==
    ASSUME \A p, q \in Persister : p = q
    PROVE  Spec => []FileIsWhole
  <1>1. Alone
    BY DEF Alone
  <1> QED
    BY <1>1, FileIsWholeIfAlone, PTL

\* As long as no two tasks persist at the same time, a process that starts
\* inside a runtime's context loads every key that persist has saved, and no
\* other, provided that bincode can read the file: no statement in it has
\* parameters.
THEOREM RestartRemembersIfAlone == Spec /\ []Alone => RestartRemembers
  <1>1. Always /\ FileInv => [Start("entered") /\ DOMAIN saved \cap Parameterized = {}
                             => DOMAIN inner' = DOMAIN saved]_vars
    <2> SUFFICES ASSUME Always, FileInv, Start("entered"), DOMAIN saved \cap Parameterized = {}
                 PROVE  DOMAIN inner' = DOMAIN saved
      OBVIOUS
    <2>1. Load /\ DOMAIN inner' = DOMAIN entries'
      BY DEF Start, Load
    <2>2. CASE fileName = None
      BY <2>1, <2>2 DEF FileInv, FileIsWhole, Load, Readable
    <2>3. CASE fileName # None
      <3>1. inode[fileName] = saved /\ saved \in Maps
        BY <2>3 DEF FileInv, FileIsWhole, Always, DiskTypes
      <3>2. Readable
        BY <2>3, <3>1, CacheAssumption DEF Readable
      <3> QED
        BY <2>1, <3>1, <3>2 DEF Load
    <2> QED
      BY <2>2, <2>3
  <1> QED
    BY <1>1, AlwaysHolds, FileHolds, PTL DEF RestartRemembers

\* And so it does after a facade that persists from one task at a time.
THEOREM RestartRemembersWithOnePersister ==
    ASSUME \A p, q \in Persister : p = q
    PROVE  Spec => RestartRemembers
  <1>1. Alone
    BY DEF Alone
  <1> QED
    BY <1>1, RestartRemembersIfAlone, PTL
=============================================================================
