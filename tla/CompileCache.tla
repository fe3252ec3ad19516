---------------------------- MODULE CompileCache ----------------------------
(***************************************************************************)
(* The compile cache and its file (vlorql-core/src/cache/compile_cache.rs) *)
(* over the lives of the processes that use it.                            *)
(*                                                                         *)
(* A cached entry is the compiled form of its key, which compilation       *)
(* determines, so an entry is represented by its key and, as history, by   *)
(* the time it was compiled at.  The cache keeps every entry twice: in     *)
(* `inner`, which evicts and expires and answers get, and in the map       *)
(* `entries`, which persist writes to disk.                                *)
(*                                                                         *)
(* The file is written under the name .tmp and renamed; the names point to *)
(* inodes, so a writer keeps writing to the inode it opened.               *)
(***************************************************************************)
EXTENDS Naturals, FiniteSets, Functions, TLC

CONSTANTS
    Key,         \* CompileCacheKey
    Parameterized, \* those whose statement has parameters, JSON values
    Thread,      \* threads that use the cache
    Persister,   \* tasks that call persist (a dropped facade spawns one)
    Contexts,    \* where with_persistent_compile_cache is called: inside a
                 \* runtime's context ("entered") or outside of one ("plain")
    TTL, MaxTime, MaxRestarts,   \* MaxTime, MaxRestarts: bounds
    None, Partial

Inode == 1..Cardinality(Persister) + 2

\* What `entries` and the file may hold, and what a thread may be doing.
PartialMaps(V) == UNION {[K -> V] : K \in SUBSET Key}
Maps == PartialMaps(0..MaxTime)
Operations == [op : {"insert", "remove", "clear"}, keys : SUBSET Key, compiled : 0..MaxTime]

ASSUME CacheAssumption ==
    /\ IsFiniteSet(Persister)
    /\ Parameterized \subseteq Key
    /\ Contexts \subseteq {"entered", "plain"}
    /\ TTL \in Nat \ {0}
    /\ MaxTime \in Nat /\ MaxRestarts \in Nat
    /\ None # Partial
    /\ {None, Partial} \cap (Inode \cup Maps) = {} /\ None \notin Operations

\* Keys of a kind are alike, and so are threads.
Symmetry ==
    Permutations(Key \ Parameterized) \cup Permutations(Parameterized) \cup Permutations(Thread)

VARIABLES
    up,         \* is a process running?
    restarts,
    clock,
    inner,      \* the moka cache: [key -> [compiled, deadline]], a partial function
    entries,    \* the map beside it: [key -> compiled]
    work,       \* per thread: [op, keys, compiled] under way, or None
    persist,    \* per persister: where it is, the map it saw, the inode it opened
    inode,      \* contents: a map, Partial, or None when unused
    tmpName, fileName,   \* what the two names point to
    saved,      \* history: the map of the last persist that returned Ok
    forgotten,  \* history: keys removed and not inserted since, in this process
    raced,      \* history: keys on which two operations have overlapped
    halved      \* history: keys whose last operation to end was dropped half way

memory == <<inner, entries>>
disk == <<inode, tmpName, fileName>>
history == <<forgotten, raced, halved>>
vars == <<up, restarts, clock, memory, work, persist, disk, saved, history>>

Empty == [k \in {} |-> 0]
Idle == [at |-> "idle", map |-> Empty, fd |-> None]

Init ==
    /\ up = FALSE /\ restarts = 0 /\ clock = 0
    /\ inner = Empty /\ entries = Empty
    /\ work = [t \in Thread |-> None]
    /\ persist = [p \in Persister |-> Idle]
    /\ inode = [i \in Inode |-> None]
    /\ tmpName = None /\ fileName = None
    /\ saved = Empty /\ forgotten = {} /\ raced = {} /\ halved = {}

With(f, k, v) == [x \in DOMAIN f \cup {k} |-> IF x = k THEN v ELSE f[x]]
Without(f, K) == Restrict(f, DOMAIN f \ K)

-----------------------------------------------------------------------------
(* Processes.                                                              *)

\* A file that bincode decodes.  It writes the JSON values of parameters, but
\* cannot read them: it fails on a file with one such entry.
Readable ==
    /\ fileName # None /\ inode[fileName] # Partial
    /\ DOMAIN inode[fileName] \cap Parameterized = {}

\* Mutation: load fills the cache but not the map beside it.
LoadForgetsMap ==
    /\ inner' = IF Readable
                THEN [k \in DOMAIN inode[fileName] |->
                         [compiled |-> inode[fileName][k], deadline |-> clock + TTL]]
                ELSE Empty
    /\ entries' = Empty

\* A missing or unreadable file gives an empty cache; every entry starts a new
\* life.
Load ==
    /\ entries' = IF Readable THEN inode[fileName] ELSE Empty
    /\ inner' = [k \in DOMAIN entries' |->
                    [compiled |-> entries'[k], deadline |-> clock + TTL]]

\* with_persistent_compile_cache: outside of a runtime nothing is loaded.
Start(context) ==
    /\ ~up /\ restarts < MaxRestarts
    /\ up' = TRUE
    /\ restarts' = restarts + 1
    /\ IF context = "entered" THEN Load ELSE inner' = Empty /\ entries' = Empty
    /\ UNCHANGED <<clock, work, persist, disk, saved, history>>

\* The process exits or crashes; nothing waits for a persist under way.
Stop ==
    /\ up
    /\ up' = FALSE
    /\ inner' = Empty /\ entries' = Empty
    /\ work' = [t \in Thread |-> None]
    /\ persist' = [p \in Persister |-> Idle]
    /\ forgotten' = {} /\ raced' = {} /\ halved' = {}
    /\ UNCHANGED <<restarts, clock, disk, saved>>

Tick ==
    /\ clock < MaxTime
    /\ clock' = clock + 1
    /\ UNCHANGED <<up, restarts, memory, work, persist, disk, saved, history>>

\* moka drops an entry for its weight, or because it expired.
Evict(k) ==
    /\ k \in DOMAIN inner
    /\ inner' = Without(inner, {k})
    /\ UNCHANGED <<up, restarts, clock, entries, work, persist, disk, saved, history>>

-----------------------------------------------------------------------------
(* insert, invalidate_plan and clear change the two maps one after the     *)
(* other.                                                                  *)

Touching(k) == {t \in Thread : work[t] # None /\ k \in work[t].keys}

Begin(t, op, keys) ==
    /\ up /\ work[t] = None
    /\ raced' = raced \cup {k \in keys : Touching(k) # {}}
    /\ work' = [work EXCEPT ![t] = [op |-> op, keys |-> keys, compiled |-> clock]]

Insert(t, k) ==
    /\ Begin(t, "insert", {k})
    /\ inner' = With(inner, k, [compiled |-> clock, deadline |-> clock + TTL])
    /\ forgotten' = forgotten \ {k}
    /\ UNCHANGED <<up, restarts, clock, entries, persist, disk, saved, halved>>

\* invalidate_plan removes one key, clear all of them.
Remove(t, op, keys) ==
    /\ Begin(t, op, keys)
    /\ inner' = Without(inner, keys)
    /\ forgotten' = forgotten \cup keys
    /\ UNCHANGED <<up, restarts, clock, entries, persist, disk, saved, halved>>

\* Mutation: only the cache forgets the entry.
SecondHalfKeepsMap(t) ==
    /\ work[t] # None
    /\ entries' = IF work[t].op = "insert"
                  THEN With(entries, CHOOSE k \in work[t].keys : TRUE, work[t].compiled)
                  ELSE entries
    /\ work' = [work EXCEPT ![t] = None]
    /\ halved' = halved \ work[t].keys
    /\ UNCHANGED <<up, restarts, clock, inner, persist, disk, saved, forgotten, raced>>

SecondHalf(t) ==
    /\ work[t] # None
    /\ entries' = IF work[t].op = "insert"
                  THEN With(entries, CHOOSE k \in work[t].keys : TRUE, work[t].compiled)
                  ELSE Without(entries, work[t].keys)
    /\ work' = [work EXCEPT ![t] = None]
    /\ halved' = halved \ work[t].keys
    /\ UNCHANGED <<up, restarts, clock, inner, persist, disk, saved, forgotten, raced>>

\* The caller of insert or invalidate_plan is dropped at the await on inner:
\* the second half never comes.  clear has no await.
Drop(t) ==
    /\ work[t] # None /\ work[t].op \in {"insert", "remove"}
    /\ work' = [work EXCEPT ![t] = None]
    /\ halved' = halved \cup work[t].keys
    /\ UNCHANGED <<up, restarts, clock, memory, persist, disk, saved, forgotten, raced>>

-----------------------------------------------------------------------------
(* persist                                                                 *)

Unused(i) ==
    /\ i \notin {tmpName, fileName}
    /\ \A p \in Persister : persist[p].fd # i

Snapshot(p) ==
    /\ up /\ persist[p].at = "idle"
    /\ persist' = [persist EXCEPT ![p] = [at |-> "snapshot", map |-> entries, fd |-> None]]
    /\ UNCHANGED <<up, restarts, clock, memory, work, disk, saved, history>>

\* fs::write creates or truncates the file ...
Truncate(p) ==
    /\ persist[p].at = "snapshot"
    /\ \E i \in Inode :
          /\ i = IF tmpName = None THEN CHOOSE j \in Inode : Unused(j) ELSE tmpName
          /\ tmpName' = i
          /\ inode' = [inode EXCEPT ![i] = Partial]
          /\ persist' = [persist EXCEPT ![p].at = "writing", ![p].fd = i]
    /\ UNCHANGED <<up, restarts, clock, memory, work, fileName, saved, history>>

\* ... and writes it.
Write(p) ==
    /\ persist[p].at = "writing"
    /\ inode' = [inode EXCEPT ![persist[p].fd] = persist[p].map]
    /\ persist' = [persist EXCEPT ![p].at = "written", ![p].fd = None]
    /\ UNCHANGED <<up, restarts, clock, memory, work, tmpName, fileName, saved, history>>

\* Mutation: the file is renamed while it is being written.
RenameEarly(p) ==
    /\ persist[p].at \in {"writing", "written"}
    /\ fileName' = tmpName /\ tmpName' = None
    /\ saved' = persist[p].map
    /\ persist' = [persist EXCEPT ![p] = Idle]
    /\ UNCHANGED <<up, restarts, clock, memory, work, inode, history>>

\* Rename replaces the file, whose inode is released when nobody has it open;
\* another persister may have taken the .tmp away.
Rename(p) ==
    /\ persist[p].at = "written"
    /\ IF tmpName = None
       THEN UNCHANGED <<disk, saved>>
       ELSE /\ fileName' = tmpName /\ tmpName' = None
            /\ saved' = persist[p].map
            /\ inode' = IF fileName = None \/ \E q \in Persister : persist[q].fd = fileName
                        THEN inode
                        ELSE [inode EXCEPT ![fileName] = None]
    /\ persist' = [persist EXCEPT ![p] = Idle]
    /\ UNCHANGED <<up, restarts, clock, memory, work, history>>

\* Writing or renaming fails: persist returns the error, and .tmp stays as it is.
Fail(p) ==
    /\ persist[p].at # "idle"
    /\ persist' = [persist EXCEPT ![p] = Idle]
    /\ UNCHANGED <<up, restarts, clock, memory, work, disk, saved, history>>

Operate ==
    \E t \in Thread :
        \/ \E k \in Key : Insert(t, k) \/ Remove(t, "remove", {k})
        \/ Remove(t, "clear", Key)
        \/ SecondHalf(t) \/ Drop(t)

Persist == \E p \in Persister : Snapshot(p) \/ Truncate(p) \/ Write(p) \/ Rename(p) \/ Fail(p)

Next ==
    \/ \E context \in Contexts : Start(context)
    \/ Stop
    \/ Tick
    \/ \E k \in Key : Evict(k)
    \/ Operate
    \/ Persist

Spec == Init /\ [][Next]_vars
-----------------------------------------------------------------------------
(* The bound of the run.  A process in which two operations overlap on a   *)
(* key does not persist and is the first one, and no operations of two     *)
(* threads overlap once a process has begun to persist.                    *)

InMemory ==
    /\ restarts <= 1
    /\ \A i \in Inode : inode[i] = None
    /\ \A p \in Persister : persist[p] = Idle

Bounded == InMemory \/ (raced = {} /\ Cardinality({t \in Thread : work[t] # None}) <= 1)

-----------------------------------------------------------------------------
\* get finds the key.
Servable(k) == k \in DOMAIN inner /\ inner[k].deadline > clock

\* persist "writes atomically": wherever a process dies, the file it leaves is
\* the map of the last persist that reported success, whole.
FileIsWhole == IF fileName = None THEN saved = Empty ELSE inode[fileName] = saved

\* What get can answer persist will save: between two operations on a key, a
\* live entry is in the map that goes to disk, also after a restart.  An
\* operation dropped half way leaves the maps apart, until the next one on the
\* key; two that overlap may do so too, as the lock covers only one map.
LiveIsPersistent ==
    \A k \in Key \ (raced \cup halved) : Servable(k) /\ Touching(k) = {} =>
        k \in DOMAIN entries /\ entries[k] = inner[k].compiled

\* The plan of the file's format: a second map "mirrors moka cache entries for
\* serialization".  A dropped insert leaves an entry that get answers with and
\* persist does not save.
MapMirrorsCache ==
    \A k \in Key \ raced : Servable(k) /\ Touching(k) = {} => k \in DOMAIN entries

\* An invalidated or cleared entry is gone from both maps once the operation
\* is over: neither get nor a later persist brings it back, unless it was
\* dropped half way.
StaysForgotten ==
    \A k \in forgotten \ (raced \cup halved) :
        Touching(k) = {} => ~Servable(k) /\ k \notin DOMAIN entries

\* What a persist has saved the next process finds, in a runtime's context, if
\* no statement of it has parameters.
RestartRemembers ==
    [][Start("entered") /\ DOMAIN saved \cap Parameterized = {}
       => DOMAIN inner' = DOMAIN saved]_vars

\* The plan of persistence: "so cached compiled queries survive process
\* restarts", with their parameters.
QueriesSurvive ==
    [][Start("entered") => DOMAIN inner' = DOMAIN saved]_vars
=============================================================================
