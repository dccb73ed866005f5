----------------------------- MODULE InstanceIds -----------------------------
(***************************************************************************)
(* The allocator of instance ids in MapManager: a vector<bool> of the ids   *)
(* in use and _nextInstanceId, from which the next id is taken.  Ids are    *)
(* registered from the database at start, generated by the world thread,    *)
(* and freed by the world thread (a dungeon's reset) or, when a battle-     *)
(* ground map is destroyed, by the map threads, several at once and without *)
(* a lock: _nextInstanceId is compared and then set, and the bit is cleared *)
(* in the word that holds it (load and store).                              *)
(***************************************************************************)
EXTENDS Naturals, FiniteSets

CONSTANTS
    Chunk,      \* sizes are multiples of this, 32 in the code
    WordBits,   \* bits of a word of vector<bool>, 64 in libstdc++ (LP64)
    MaxId,      \* bound: the highest id generated
    SavedSets,  \* the sets of ids the database may hold at start
    Threads,    \* threads of the map updater
    NoId

ASSUME InstanceIdsAssumption ==
    /\ Chunk \in Nat \ {0}
    /\ WordBits \in Nat \ {0}
    /\ WordBits % Chunk = 0
    /\ MaxId \in Nat
    /\ \A saved \in SavedSets : saved \subseteq 1..MaxId
    /\ IsFiniteSet(Threads)
    /\ NoId \notin Nat

VARIABLES
    _instanceIds,       \* indices of the bits that are set
    size, capacity,     \* of the vector
    _nextInstanceId,
    toLoad,             \* saved ids LoadResetTimes has still to register
    phase,              \* "load", then "world" and "maps" in turn
    pc, id, word,       \* of a thread inside FreeInstanceId
    inUse,              \* ids of saves, dungeons and battlegrounds
    shared,             \* ids handed out while in use
    overlapped          \* ids freed while another thread was freeing one

freeVars == <<pc, id, word>>
vars == <<_instanceIds, size, capacity, _nextInstanceId, toLoad, phase,
          freeVars, inUse, shared, overlapped>>

TypeOK ==
    /\ size \in Nat
    /\ capacity \in Nat
    /\ size <= capacity
    /\ _instanceIds \subseteq 1..size
    /\ size \notin _instanceIds
    /\ _nextInstanceId \in Nat \ {0}
    /\ toLoad \subseteq 1..MaxId
    /\ phase \in {"load", "world", "maps"}
    /\ pc \in [Threads -> {"idle", "set", "load", "store"}]
    /\ id \in [Threads -> 1..MaxId \cup {NoId}]
    /\ word \in [Threads -> SUBSET (1..size)]
    /\ inUse \subseteq 1..MaxId
    /\ shared \subseteq 1..MaxId
    /\ overlapped \subseteq 1..MaxId

-----------------------------------------------------------------------------
Least(S) == CHOOSE n \in S : \A k \in S : n <= k
Greatest(S) == CHOOSE n \in S : \A k \in S : k <= n

\* (n / 32) * 32 + (n % 32 > 0 ? 32 : 0)
RoundedUp(n) == (n \div Chunk) * Chunk + (IF n % Chunk > 0 THEN Chunk ELSE 0)

\* The capacity vector<bool>::resize(n) leaves when it has to reallocate: the
\* old size plus the larger of that and the growth, in whole words.
Reallocated(n) ==
    LET bits == size + (IF size > n - size THEN size ELSE n - size)
    IN  ((bits + WordBits - 1) \div WordBits) * WordBits

SameWord(i, j) == i \div WordBits = j \div WordBits

\* InitInstanceIds: resize for MAX(id) and start from 1.
Init ==
    /\ toLoad \in SavedSets
    /\ size = IF toLoad = {} THEN 0 ELSE RoundedUp(Greatest(toLoad))
    /\ capacity = ((size + WordBits - 1) \div WordBits) * WordBits
    /\ _instanceIds = {}
    /\ _nextInstanceId = 1
    /\ phase = "load"
    /\ pc = [t \in Threads |-> "idle"]
    /\ id = [t \in Threads |-> NoId]
    /\ word = [t \in Threads |-> {}]
    /\ inUse = {}
    /\ shared = {}
    /\ overlapped = {}

\* LoadResetTimes, one row, in ascending order.  A write outside the vector
\* leaves no bit in it.
RegisterInstanceId ==
    /\ phase = "load"
    /\ toLoad # {}
    /\ LET i == Least(toLoad)
       IN  /\ _nextInstanceId' = IF _nextInstanceId = i THEN i + 1
                                 ELSE _nextInstanceId
           /\ _instanceIds' = IF i < size THEN _instanceIds \cup {i}
                              ELSE _instanceIds
           /\ inUse' = inUse \cup {i}
           /\ toLoad' = toLoad \ {i}
    /\ UNCHANGED <<size, capacity, phase, freeVars, shared, overlapped>>

EndLoad ==
    /\ phase = "load"
    /\ toLoad = {}
    /\ phase' = "world"
    /\ UNCHANGED <<_instanceIds, size, capacity, _nextInstanceId, toLoad,
                   freeVars, inUse, shared, overlapped>>

\* The search for the next id, from the one after new.
NextFree(new) ==
    Least({i \in new + 1 .. new + 1 + size : i >= size \/ i \notin _instanceIds})

\* CreateInstanceForPlayer and CreateNewBattleground, on the world thread.
GenerateInstanceId ==
    /\ phase = "world"
    /\ _nextInstanceId <= MaxId
    /\ LET new == _nextInstanceId
       IN  /\ _nextInstanceId' = NextFree(new)
           /\ size' = IF new < size THEN size
                      ELSE IF size < capacity THEN capacity
                      ELSE RoundedUp(new)
           /\ capacity' = IF size' <= capacity THEN capacity
                          ELSE Reallocated(size')
           /\ _instanceIds' = IF new < size' THEN _instanceIds \cup {new}
                              ELSE _instanceIds
           /\ inUse' = inUse \cup {new}
           /\ shared' = IF new \in inUse THEN shared \cup {new} ELSE shared
    /\ UNCHANGED <<toLoad, phase, freeVars, overlapped>>

\* if (instanceId < _nextInstanceId) SetNextInstanceId(instanceId)
Lowered_Not(i) == _nextInstanceId
Lowered(i) == IF i < _nextInstanceId THEN i ELSE _nextInstanceId

\* FreeInstanceId, on the world thread (_ResetInstance).
FreeInstanceId(i) ==
    /\ phase = "world"
    /\ i \in inUse
    /\ inUse' = inUse \ {i}
    /\ _instanceIds' = _instanceIds \ {i}
    /\ _nextInstanceId' = Lowered(i)
    /\ overlapped' = overlapped \ {i}
    /\ UNCHANGED <<size, capacity, toLoad, phase, freeVars, shared>>

\* MapManager::Update hands the maps to the threads, and waits for them.
StartMaps ==
    /\ phase = "world"
    /\ phase' = "maps"
    /\ UNCHANGED <<_instanceIds, size, capacity, _nextInstanceId, toLoad,
                   freeVars, inUse, shared, overlapped>>

EndMaps ==
    /\ phase = "maps"
    /\ \A t \in Threads : pc[t] = "idle"
    /\ phase' = "world"
    /\ UNCHANGED <<_instanceIds, size, capacity, _nextInstanceId, toLoad,
                   freeVars, inUse, shared, overlapped>>

-----------------------------------------------------------------------------
(* FreeInstanceId on a map thread (DestroyInstance of a battleground).     *)

\* if (instanceId < _nextInstanceId)
CompareNext(t, i) ==
    /\ phase = "maps"
    /\ pc[t] = "idle"
    /\ i \in inUse
    /\ inUse' = inUse \ {i}
    /\ id' = [id EXCEPT ![t] = i]
    /\ pc' = [pc EXCEPT ![t] = IF i < _nextInstanceId THEN "set" ELSE "load"]
    /\ overlapped' = LET others == {id[u] : u \in Threads} \ {NoId}
                     IN  IF others = {} THEN overlapped \ {i}
                         ELSE overlapped \cup others \cup {i}
    /\ UNCHANGED <<_instanceIds, size, capacity, _nextInstanceId, toLoad,
                   phase, word, shared>>

SetNextInstanceId(t) ==
    /\ pc[t] = "set"
    /\ _nextInstanceId' = id[t]
    /\ pc' = [pc EXCEPT ![t] = "load"]
    /\ UNCHANGED <<_instanceIds, size, capacity, toLoad, phase, id, word,
                   inUse, shared, overlapped>>

\* _instanceIds[instanceId] = false: load of the word that holds the bit,
LoadWord(t) ==
    /\ pc[t] = "load"
    /\ word' = [word EXCEPT ![t] = {k \in _instanceIds : SameWord(k, id[t])}]
    /\ pc' = [pc EXCEPT ![t] = "store"]
    /\ UNCHANGED <<_instanceIds, size, capacity, _nextInstanceId, toLoad,
                   phase, id, inUse, shared, overlapped>>

\* The word with the bit cleared.
Cleared_Word(t) == {}
Cleared(t) == word[t] \ {id[t]}

\* and store of the word with the bit cleared.
StoreWord(t) ==
    /\ pc[t] = "store"
    /\ _instanceIds' = {k \in _instanceIds : ~SameWord(k, id[t])} \cup Cleared(t)
    /\ pc' = [pc EXCEPT ![t] = "idle"]
    /\ id' = [id EXCEPT ![t] = NoId]
    /\ word' = [word EXCEPT ![t] = {}]
    /\ UNCHANGED <<size, capacity, _nextInstanceId, toLoad, phase, inUse,
                   shared, overlapped>>

Next ==
    \/ RegisterInstanceId \/ EndLoad
    \/ GenerateInstanceId \/ StartMaps \/ EndMaps
    \/ \E i \in inUse :
          FreeInstanceId(i) \/ \E t \in Threads : CompareNext(t, i)
    \/ \E t \in Threads : SetNextInstanceId(t) \/ LoadWord(t) \/ StoreWord(t)

Spec == Init /\ [][Next]_vars

-----------------------------------------------------------------------------
(* Correctness.                                                            *)

\* An id in use has its bit set, so it is not given to a second instance, unless
\* the rounding left it outside the vector, which only happens to multiples of
\* Chunk: no unlocked write of a map thread clears the bit of an id it does not
\* free, whatever it does to _nextInstanceId (FreeInstanceId, GenerateInstanceId).
UniqueInsideVector ==
    \A i \in 1..MaxId : i % Chunk # 0 =>
        /\ i \in inUse => i \in _instanceIds
        /\ i \notin shared

\* No id below _nextInstanceId is unused while the world thread runs, unless two
\* threads freed ids at the same time: one thread alone always brings it down to
\* the lowest unused id, whatever was generated and freed before
\* (FreeInstanceId, GenerateInstanceId).
LowestIfAlone ==
    phase = "world" => 1 .. (_nextInstanceId - 1) \subseteq inUse \cup overlapped
=============================================================================
