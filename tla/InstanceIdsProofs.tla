-------------------------- MODULE InstanceIdsProofs --------------------------
(***************************************************************************)
(* Proofs about InstanceIds for every number of map threads, any ids in    *)
(* the database and any sizes of a chunk and of a word of vector<bool>, as *)
(* long as a word holds whole chunks: no two instances share an id that is *)
(* not a multiple of the chunk size, and ids are reused from the lowest    *)
(* unless they were freed at the same time.                                *)
(***************************************************************************)
EXTENDS InstanceIds, NaturalsInduction, WellFoundedInduction, TLAPS

-----------------------------------------------------------------------------
(* Numbers. *)

\* A set of numbers that is not empty has a least element.
LEMMA LeastOf ==
    ASSUME NEW S \in SUBSET Nat, S # {}
    PROVE  Least(S) \in S /\ \A k \in S : Least(S) <= k
<1>1. \E n \in S : \A k \in S : n <= k
  <2>1. PICK n \in S : \A k \in S : ~(<<k, n>> \in OpToRel(<, Nat))
    BY NatLessThanWellFounded, WFMin, Zenon
  <2>2. ASSUME NEW k \in S, k < n
        PROVE  <<k, n>> \in OpToRel(<, Nat)
    BY <2>2, Zenon DEF OpToRel
  <2>3. \A k \in S : ~(k < n)
    BY <2>1, <2>2, Zenon
  <2> QED
    BY <2>3
<1> QED
  BY <1>1 DEF Least

\* One that is bounded has a greatest.
LEMMA GreatestOf ==
    ASSUME NEW m \in Nat, NEW S \in SUBSET (1..m), S # {}
    PROVE  Greatest(S) \in S /\ \A k \in S : k <= Greatest(S)
<1> DEFINE T == {m - k : k \in S}
<1>1. T \in SUBSET Nat /\ T # {}
  <2>1. PICK k \in S : TRUE
    OBVIOUS
  <2>2. m - k \in T
    BY <2>1
  <2>3. \A j \in S : j \in 1..m
    OBVIOUS
  <2>4. \A j \in 1..m : m - j \in Nat
    OBVIOUS
  <2> QED
    BY <2>2, <2>3, <2>4
<1>2. PICK d \in T : \A e \in T : d <= e
  <2> HIDE DEF T
  <2> QED
    BY <1>1, LeastOf
<1>3. PICK n \in S : d = m - n
  BY <1>2
<1>4. ASSUME NEW k \in S
      PROVE  k <= n
  <2>1. d <= m - k
    BY <1>2
  <2>2. k \in 1..m /\ n \in 1..m
    BY <1>3
  <2> QED
    BY <1>3, <2>1, <2>2
<1> QED
  BY <1>3, <1>4 DEF Greatest

\* Division with remainder by the size of a chunk.
LEMMA ChunkDivision ==
    ASSUME NEW n \in Nat
    PROVE  /\ n \div Chunk \in Nat /\ n % Chunk \in 0..(Chunk - 1)
           /\ n = (n \div Chunk) * Chunk + (n % Chunk)
BY InstanceIdsAssumption

\* A multiple of the chunk size leaves no remainder.
LEMMA MultipleOfChunk ==
    ASSUME NEW k \in Nat
    PROVE  k * Chunk \in Nat /\ (k * Chunk) % Chunk = 0
<1>1. Chunk \in Nat /\ Chunk > 0
  BY InstanceIdsAssumption
<1>2. k * Chunk \in Nat
  BY <1>1
<1> DEFINE q == (k * Chunk) \div Chunk
           r == (k * Chunk) % Chunk
<1>3. q \in Nat /\ r \in 0..(Chunk - 1) /\ k * Chunk = q * Chunk + r
  BY <1>2, ChunkDivision
<1> HIDE DEF q, r
<1>4. r = (k - q) * Chunk
  BY <1>1, <1>3
<1>5. k - q >= 1 => (k - q) * Chunk >= Chunk
  BY <1>1, <1>3
<1>6. k - q <= 0 - 1 => (k - q) * Chunk <= 0 - Chunk
  BY <1>1, <1>3
<1>7. k - q = 0
  BY <1>1, <1>3, <1>4, <1>5, <1>6
<1>8. r = 0
  BY <1>1, <1>3, <1>4, <1>7
<1> QED
  BY <1>2, <1>8 DEF r

\* What the code rounds the size to: a multiple of the chunk size, no less than the
\* id, and more than it unless the id is a multiple itself.
LEMMA RoundedUpFacts ==
    ASSUME NEW n \in Nat
    PROVE  /\ RoundedUp(n) \in Nat /\ RoundedUp(n) % Chunk = 0
           /\ n <= RoundedUp(n)
           /\ n % Chunk # 0 => n < RoundedUp(n)
<1>1. Chunk \in Nat /\ Chunk > 0
  BY InstanceIdsAssumption
<1> DEFINE q == n \div Chunk
           r == n % Chunk
<1>2. q \in Nat /\ r \in 0..(Chunk - 1) /\ n = q * Chunk + r
  BY ChunkDivision
<1>3. RoundedUp(n) = q * Chunk + (IF r > 0 THEN Chunk ELSE 0)
  BY DEF RoundedUp
<1>4. r = n % Chunk
  OBVIOUS
<1> HIDE DEF q, r
<1>5. CASE r = 0
  BY <1>1, <1>2, <1>3, <1>4, <1>5, MultipleOfChunk
<1>6. CASE r > 0
  <2>1. RoundedUp(n) = (q + 1) * Chunk
    BY <1>1, <1>2, <1>3, <1>6
  <2>2. q + 1 \in Nat
    BY <1>2
  <2>3. RoundedUp(n) \in Nat /\ RoundedUp(n) % Chunk = 0
    BY <2>1, <2>2, MultipleOfChunk
  <2>4. n < RoundedUp(n)
    BY <1>1, <1>2, <1>3, <1>6
  <2> QED
    BY <2>3, <2>4
<1> QED
  BY <1>2, <1>5, <1>6

\* A capacity is whole words, so whole chunks.
LEMMA WordsAreChunks ==
    ASSUME NEW n \in Nat
    PROVE  /\ (n \div WordBits) * WordBits \in Nat
           /\ ((n \div WordBits) * WordBits) % Chunk = 0
<1>1. /\ Chunk \in Nat /\ Chunk > 0 /\ WordBits \in Nat /\ WordBits > 0
      /\ WordBits % Chunk = 0
  BY InstanceIdsAssumption
<1>2. PICK w \in Nat : WordBits = w * Chunk
  BY <1>1, ChunkDivision
<1>3. PICK m \in Nat : m = n \div WordBits
  BY <1>1
<1>4. m * w \in Nat /\ m * WordBits = (m * w) * Chunk
  BY <1>1, <1>2
<1> QED
  BY <1>3, <1>4, MultipleOfChunk

\* Two sizes differ by a chunk at least.
LEMMA ChunksApart ==
    ASSUME NEW a \in Nat, NEW b \in Nat, a % Chunk = 0, b % Chunk = 0, a < b
    PROVE  a + Chunk <= b
<1>1. Chunk \in Nat /\ Chunk > 0
  BY InstanceIdsAssumption
<1>2. PICK m \in Nat : a = m * Chunk
  <2>1. a \div Chunk \in Nat /\ a = (a \div Chunk) * Chunk + 0
    BY ChunkDivision
  <2> QED
    BY <1>1, <2>1
<1>3. PICK n \in Nat : b = n * Chunk
  <2>1. b \div Chunk \in Nat /\ b = (b \div Chunk) * Chunk + 0
    BY ChunkDivision
  <2> QED
    BY <1>1, <2>1
<1>4. n - m <= 0 => (n - m) * Chunk <= 0
  BY <1>1
<1>5. n - m >= 1
  BY <1>1, <1>2, <1>3, <1>4
<1>6. (n - m) * Chunk >= Chunk
  BY <1>1, <1>5
<1> QED
  BY <1>1, <1>2, <1>3, <1>6

-----------------------------------------------------------------------------
(* The inductive invariant. *)

TypeInv ==
  /\ size \in Nat /\ capacity \in Nat
  /\ size % Chunk = 0 /\ capacity % Chunk = 0
  /\ _instanceIds \in SUBSET Nat /\ \A k \in _instanceIds : k < size
  /\ _nextInstanceId \in Nat \ {0} /\ _nextInstanceId <= size + 1
  /\ toLoad \in SUBSET Nat /\ \A k \in toLoad : 1 <= k /\ k <= size
  /\ inUse \in SUBSET Nat /\ \A k \in inUse : 1 <= k /\ k <= size
  /\ phase \in {"load", "world", "maps"}
  /\ pc \in [Threads -> {"idle", "set", "load", "store"}]
  /\ id \in [Threads -> Nat \cup {NoId}]
  /\ word \in [Threads -> SUBSET Nat]

(* A thread that frees an id has it to itself, in the time of the maps. *)
ThreadInv ==
  \A t \in Threads :
    /\ pc[t] = "idle" <=> id[t] = NoId
    /\ pc[t] # "idle" => /\ phase = "maps"
                         /\ 1 <= id[t] /\ id[t] <= size /\ id[t] \notin inUse

(* The bits of the ids in use, those a thread has loaded included. *)
VectorInv ==
  /\ \A i \in inUse : i % Chunk # 0 => i \in _instanceIds
  /\ _nextInstanceId \in inUse => _nextInstanceId % Chunk = 0
  /\ \A i \in shared : i % Chunk = 0
  /\ phase = "load" => \A i \in inUse, j \in toLoad : i < j
  /\ \A t \in Threads : pc[t] = "store" =>
       /\ \A k \in word[t] : k < size
       /\ \A i \in inUse : i % Chunk # 0 /\ SameWord(i, id[t]) => i \in word[t]

(* What is below _nextInstanceId, or has its bit set, is in use, or was    *)
(* freed together with another, or is being freed.                         *)
Accounted(i) == i \in inUse \/ i \in overlapped

LowestInv ==
  /\ \A i \in 1..(_nextInstanceId - 1) :
       Accounted(i) \/ \E t \in Threads : pc[t] = "set" /\ id[t] = i
  /\ \A t \in Threads : pc[t] = "set" => \A i \in 1..(id[t] - 1) : Accounted(i)
  /\ \A k \in _instanceIds : Accounted(k) \/ \E t \in Threads : id[t] = k
  /\ \A t \in Threads : pc[t] = "store" =>
       \A k \in word[t] : Accounted(k) \/ k = id[t]
  /\ \A t, u \in Threads : t # u /\ pc[t] # "idle" /\ pc[u] # "idle" =>
       id[t] \in overlapped

Inv == TypeInv /\ ThreadInv /\ VectorInv /\ LowestInv


-----------------------------------------------------------------------------
(* What single steps do. *)

\* The loop of GenerateInstanceId stops at the first id that is outside the vector or
\* has no bit in it.
LEMMA NextFreeFacts ==
    ASSUME TypeInv, NEW new \in Nat
    PROVE  /\ NextFree(new) \in Nat /\ NextFree(new) > new
           /\ NextFree(new) \notin _instanceIds
           /\ \A i \in (new + 1)..(NextFree(new) - 1) : i \in _instanceIds
           /\ NextFree(new) <= size \/ NextFree(new) = new + 1
<1> DEFINE S == {i \in new + 1 .. new + 1 + size : i >= size \/ i \notin _instanceIds}
           f == NextFree(new)
<1>1. size \in Nat /\ \A k \in _instanceIds : k \in Nat /\ k < size
  BY DEF TypeInv
<1>2. new + 1 + size \in S
  BY <1>1
<1>3. S \in SUBSET Nat
  BY <1>1
<1>4. f = Least(S)
  BY DEF NextFree
<1>5. f \in S /\ \A k \in S : f <= k
  <2> HIDE DEF S, f
  <2> QED
    BY <1>2, <1>3, <1>4, LeastOf
<1> HIDE DEF f
<1>6. f \in Nat /\ f >= new + 1 /\ f <= new + 1 + size
      /\ (f >= size \/ f \notin _instanceIds)
  BY <1>1, <1>5
<1>7. f \notin _instanceIds
  BY <1>1, <1>6
<1>8. ASSUME NEW i \in (new + 1)..(f - 1)
      PROVE  i \in _instanceIds
  <2>1. i \in new + 1 .. new + 1 + size /\ i < f
    BY <1>1, <1>6
  <2>2. i \notin S
    BY <1>5, <1>6, <2>1
  <2> QED
    BY <2>1, <2>2
<1>9. CASE new + 1 <= size
  <2>1. size \in S
    BY <1>1, <1>9
  <2>2. f <= size
    BY <1>5, <2>1
  <2> QED
    BY <1>6, <1>7, <1>8, <2>2 DEF f
<1>10. CASE ~(new + 1 <= size)
  <2>1. new + 1 \in S
    BY <1>1, <1>10
  <2>2. f = new + 1
    BY <1>5, <1>6, <2>1
  <2> QED
    BY <1>6, <1>7, <1>8, <2>2 DEF f
<1> QED
  BY <1>1, <1>9, <1>10

\* GenerateInstanceId: the vector grows to hold the new id, unless the id is a
\* multiple of the chunk size.
LEMMA GenerateSizes ==
    ASSUME TypeInv, GenerateInstanceId
    PROVE  /\ size' \in Nat /\ size' >= size /\ size' >= _nextInstanceId
           /\ size' % Chunk = 0
           /\ _nextInstanceId % Chunk # 0 => _nextInstanceId < size'
           /\ capacity' \in Nat /\ capacity' % Chunk = 0
<1> DEFINE new == _nextInstanceId
<1>1. /\ size \in Nat /\ capacity \in Nat /\ size % Chunk = 0 /\ capacity % Chunk = 0
      /\ new \in Nat /\ new <= size + 1 /\ Chunk \in Nat /\ Chunk >= 1
      /\ WordBits \in Nat /\ WordBits >= 1
  BY InstanceIdsAssumption DEF TypeInv
<1>2. size' = IF new < size THEN size
              ELSE IF size < capacity THEN capacity ELSE RoundedUp(new)
  BY DEF GenerateInstanceId
<1>3. capacity' = IF size' <= capacity THEN capacity ELSE Reallocated(size')
  BY DEF GenerateInstanceId
<1> HIDE DEF new
<1>5. /\ size' \in Nat /\ size' >= size /\ size' >= new
      /\ size' % Chunk = 0
      /\ new % Chunk # 0 => new < size'
  <2>1. CASE new < size
    BY <1>1, <1>2, <2>1
  <2>2. CASE ~(new < size) /\ size < capacity
    <3>1. size' = capacity
      BY <1>2, <2>2
    <3>2. size + Chunk <= capacity
      BY <1>1, <2>2, ChunksApart
    <3>3. new <= capacity
      BY <1>1, <3>2
    <3> QED
      BY <1>1, <2>2, <3>1, <3>3
  <2>3. CASE ~(new < size) /\ ~(size < capacity)
    <3>1. size' = RoundedUp(new)
      BY <1>2, <2>3
    <3> QED
      BY <1>1, <2>3, <3>1, RoundedUpFacts
  <2> QED
    BY <2>1, <2>2, <2>3
<1>6. capacity' \in Nat /\ capacity' % Chunk = 0
  <2> DEFINE bits == size + (IF size > size' - size THEN size ELSE size' - size)
  <2>1. bits + WordBits - 1 \in Nat
    <3>1. PICK grow \in Nat : size' - size = grow
      <4>1. size \in Nat /\ size' \in Nat /\ size' >= size
        BY <1>1, <1>5
      <4>2. \A m, n \in Nat : m >= n => m - n \in Nat
        OBVIOUS
      <4> QED
        BY <4>1, <4>2
    <3>2. PICK most \in Nat : most = IF size > grow THEN size ELSE grow
      BY <1>1
    <3>3. bits = size + most
      BY <3>1, <3>2
    <3> HIDE DEF bits
    <3> QED
      BY <1>1, <3>3
  <2>2. Reallocated(size') = ((bits + WordBits - 1) \div WordBits) * WordBits
    BY DEF Reallocated
  <2> HIDE DEF bits
  <2>3. Reallocated(size') \in Nat /\ Reallocated(size') % Chunk = 0
    BY <2>1, <2>2, WordsAreChunks
  <2> QED
    BY <1>1, <1>3, <2>3
<1> QED
  BY <1>5, <1>6 DEF new


\* LoadResetTimes registers the least id that is left.
LEMMA RegisterEffect ==
    ASSUME TypeInv, RegisterInstanceId
    PROVE  \E i \in toLoad :
             /\ \A j \in toLoad : i <= j
             /\ _nextInstanceId' = IF _nextInstanceId = i THEN i + 1 ELSE _nextInstanceId
             /\ _instanceIds' = IF i < size THEN _instanceIds \cup {i} ELSE _instanceIds
             /\ inUse' = inUse \cup {i}
             /\ toLoad' = toLoad \ {i}
<1>1. toLoad \in SUBSET Nat /\ toLoad # {}
  BY DEF TypeInv, RegisterInstanceId
<1>2. Least(toLoad) \in toLoad /\ \A j \in toLoad : Least(toLoad) <= j
  BY <1>1, LeastOf
<1> QED
  BY <1>2 DEF RegisterInstanceId

-----------------------------------------------------------------------------
(* The steps preserve the invariant. *)

\* Sizes and ids.
LEMMA TypeNext ==
    ASSUME Inv, Next
    PROVE  TypeInv'
<1>1. TypeInv /\ ThreadInv /\ VectorInv
  BY DEF Inv
<1> USE DEF freeVars
<1>2. CASE RegisterInstanceId
  <2>1. PICK i \in toLoad :
             /\ _nextInstanceId' = IF _nextInstanceId = i THEN i + 1 ELSE _nextInstanceId
             /\ _instanceIds' = IF i < size THEN _instanceIds \cup {i} ELSE _instanceIds
             /\ inUse' = inUse \cup {i}
             /\ toLoad' = toLoad \ {i}
    BY <1>1, <1>2, RegisterEffect
  <2>2. UNCHANGED <<size, capacity, phase, pc, id, word>>
    BY <1>2 DEF RegisterInstanceId
  <2>3. i \in Nat /\ 1 <= i /\ i <= size
    BY <1>1 DEF TypeInv
  <2>4. _instanceIds' \in SUBSET Nat /\ \A k \in _instanceIds' : k < size
    BY <1>1, <2>1, <2>3 DEF TypeInv
  <2>5. _nextInstanceId' \in Nat \ {0} /\ _nextInstanceId' <= size + 1
    BY <1>1, <2>1, <2>3 DEF TypeInv
  <2>6. /\ inUse' \in SUBSET Nat /\ \A k \in inUse' : 1 <= k /\ k <= size
        /\ toLoad' \in SUBSET Nat /\ \A k \in toLoad' : 1 <= k /\ k <= size
    BY <1>1, <2>1, <2>3 DEF TypeInv
  <2> QED
    BY <1>1, <2>2, <2>4, <2>5, <2>6 DEF TypeInv
<1>3. CASE EndLoad \/ StartMaps \/ EndMaps
  BY <1>1, <1>3 DEF TypeInv, EndLoad, StartMaps, EndMaps
<1>4. CASE GenerateInstanceId
  <2> DEFINE new == _nextInstanceId
  <2>1. /\ _nextInstanceId' = NextFree(new)
        /\ _instanceIds' = IF new < size' THEN _instanceIds \cup {new} ELSE _instanceIds
        /\ inUse' = inUse \cup {new}
        /\ UNCHANGED <<toLoad, phase, pc, id, word>>
    BY <1>4 DEF GenerateInstanceId
  <2>2. /\ size' \in Nat /\ size' >= size /\ size' >= new /\ size' % Chunk = 0
        /\ capacity' \in Nat /\ capacity' % Chunk = 0
    BY <1>1, <1>4, GenerateSizes
  <2>3. size \in Nat /\ new \in Nat /\ new >= 1
    BY <1>1 DEF TypeInv
  <2>4. _instanceIds' \in SUBSET Nat /\ \A k \in _instanceIds' : k < size'
    BY <1>1, <2>1, <2>2, <2>3 DEF TypeInv
  <2>5. _nextInstanceId' \in Nat \ {0} /\ _nextInstanceId' <= size' + 1
    <3>1. /\ NextFree(new) \in Nat /\ NextFree(new) > new
          /\ NextFree(new) <= size \/ NextFree(new) = new + 1
      BY <1>1, <2>3, NextFreeFacts
    <3> QED
      BY <2>1, <2>2, <2>3, <3>1
  <2>6. /\ inUse' \in SUBSET Nat /\ \A k \in inUse' : 1 <= k /\ k <= size'
        /\ toLoad' \in SUBSET Nat /\ \A k \in toLoad' : 1 <= k /\ k <= size'
    BY <1>1, <2>1, <2>2, <2>3 DEF TypeInv
  <2> QED
    BY <1>1, <2>1, <2>2, <2>4, <2>5, <2>6 DEF TypeInv
<1>5. ASSUME NEW i \in inUse, FreeInstanceId(i)
      PROVE  TypeInv'
  BY <1>1, <1>5 DEF TypeInv, FreeInstanceId, Lowered
<1>6. ASSUME NEW i \in inUse, NEW t \in Threads, CompareNext(t, i)
      PROVE  TypeInv'
  BY <1>1, <1>6 DEF TypeInv, CompareNext
<1>7. ASSUME NEW t \in Threads, SetNextInstanceId(t)
      PROVE  TypeInv'
  <2>1. id[t] \in Nat /\ 1 <= id[t] /\ id[t] <= size
    BY <1>1, <1>7, InstanceIdsAssumption DEF SetNextInstanceId, TypeInv, ThreadInv
  <2> QED
    BY <1>1, <1>7, <2>1 DEF TypeInv, SetNextInstanceId
<1>8. ASSUME NEW t \in Threads, LoadWord(t)
      PROVE  TypeInv'
  BY <1>1, <1>8 DEF TypeInv, LoadWord
<1>9. ASSUME NEW t \in Threads, StoreWord(t)
      PROVE  TypeInv'
  <2>1. pc[t] = "store" /\ word[t] \in SUBSET Nat /\ \A k \in word[t] : k < size
    BY <1>1, <1>9 DEF TypeInv, VectorInv, StoreWord
  <2>2. _instanceIds' \subseteq _instanceIds \cup word[t]
    BY <1>9 DEF StoreWord, Cleared
  <2>3. _instanceIds' \in SUBSET Nat /\ \A k \in _instanceIds' : k < size
    BY <1>1, <2>1, <2>2 DEF TypeInv
  <2>4. /\ pc' = [pc EXCEPT ![t] = "idle"]
        /\ id' = [id EXCEPT ![t] = NoId]
        /\ word' = [word EXCEPT ![t] = {}]
        /\ UNCHANGED <<size, capacity, _nextInstanceId, toLoad, phase, inUse>>
    BY <1>9 DEF StoreWord
  <2> QED
    BY <1>1, <2>3, <2>4 DEF TypeInv
<1> QED
  BY <1>2, <1>3, <1>4, <1>5, <1>6, <1>7, <1>8, <1>9 DEF Next

\* Ids are freed by map threads in the time of the maps only, and no id comes into
\* use then.
LEMMA ThreadNext ==
    ASSUME Inv, Next
    PROVE  ThreadInv'
<1>1. TypeInv /\ ThreadInv
  BY DEF Inv
<1>2. NoId \notin Nat
  BY InstanceIdsAssumption
<1> USE DEF freeVars
<1>3. CASE RegisterInstanceId
  <2>1. phase = "load" /\ UNCHANGED <<phase, pc, id>>
    BY <1>3 DEF RegisterInstanceId
  <2> QED
    BY <1>1, <2>1 DEF ThreadInv
<1>4. CASE GenerateInstanceId
  <2>1. phase = "world" /\ UNCHANGED <<phase, pc, id>>
    BY <1>4 DEF GenerateInstanceId
  <2> QED
    BY <1>1, <2>1 DEF ThreadInv
<1>5. CASE EndLoad \/ StartMaps \/ EndMaps
  BY <1>1, <1>5 DEF ThreadInv, EndLoad, StartMaps, EndMaps
<1>6. ASSUME NEW i \in inUse, FreeInstanceId(i)
      PROVE  ThreadInv'
  BY <1>1, <1>6 DEF ThreadInv, FreeInstanceId
<1>7. ASSUME NEW i \in inUse, NEW t \in Threads, CompareNext(t, i)
      PROVE  ThreadInv'
  <2>1. i \in Nat /\ 1 <= i /\ i <= size
    BY <1>1 DEF TypeInv
  <2>2. /\ phase = "maps" /\ inUse' = inUse \ {i}
        /\ id' = [id EXCEPT ![t] = i]
        /\ pc' = [pc EXCEPT ![t] = IF i < _nextInstanceId THEN "set" ELSE "load"]
        /\ UNCHANGED <<phase, size>>
    BY <1>7 DEF CompareNext
  <2>3. id'[t] = i /\ pc'[t] # "idle"
    BY <1>1, <2>2 DEF TypeInv
  <2>4. \A u \in Threads : u # t => id'[u] = id[u] /\ pc'[u] = pc[u]
    BY <1>1, <2>2 DEF TypeInv
  <2> QED
    BY <1>1, <1>2, <2>1, <2>2, <2>3, <2>4 DEF ThreadInv
<1>8. ASSUME NEW t \in Threads, SetNextInstanceId(t) \/ LoadWord(t)
      PROVE  ThreadInv'
  BY <1>1, <1>8 DEF TypeInv, ThreadInv, SetNextInstanceId, LoadWord
<1>9. ASSUME NEW t \in Threads, StoreWord(t)
      PROVE  ThreadInv'
  <2>1. /\ pc' = [pc EXCEPT ![t] = "idle"]
        /\ id' = [id EXCEPT ![t] = NoId]
        /\ UNCHANGED <<size, phase, inUse>>
    BY <1>9 DEF StoreWord
  <2> QED
    BY <1>1, <2>1 DEF TypeInv, ThreadInv
<1> QED
  BY <1>3, <1>4, <1>5, <1>6, <1>7, <1>8, <1>9 DEF Next


\* The bits: an id in use keeps its own, whatever the map threads store, and the id
\* to be given next is not in use.
LEMMA VectorNext ==
    ASSUME Inv, Next
    PROVE  VectorInv'
<1>1. TypeInv /\ ThreadInv /\ VectorInv
  BY DEF Inv
<1> USE DEF freeVars
<1>2. CASE RegisterInstanceId
  <2>1. PICK i \in toLoad :
             /\ \A j \in toLoad : i <= j
             /\ _nextInstanceId' = IF _nextInstanceId = i THEN i + 1 ELSE _nextInstanceId
             /\ _instanceIds' = IF i < size THEN _instanceIds \cup {i} ELSE _instanceIds
             /\ inUse' = inUse \cup {i}
             /\ toLoad' = toLoad \ {i}
    BY <1>1, <1>2, RegisterEffect
  <2>2. phase = "load" /\ UNCHANGED <<size, phase, pc, id, word, shared>>
    BY <1>2 DEF RegisterInstanceId
  <2>3. /\ i \in Nat /\ i <= size /\ size \in Nat /\ size % Chunk = 0
        /\ inUse \in SUBSET Nat /\ toLoad \in SUBSET Nat
    BY <1>1 DEF TypeInv
  <2>4. \A k \in inUse' : k % Chunk # 0 => k \in _instanceIds'
    BY <1>1, <2>1, <2>3 DEF VectorInv
  <2>5. \A k \in inUse : k < i
    BY <1>1, <2>2 DEF VectorInv
  <2>6. _nextInstanceId' \in inUse' => _nextInstanceId' % Chunk = 0
    <3>1. CASE _nextInstanceId = i
      BY <2>1, <2>3, <2>5, <3>1
    <3>2. CASE _nextInstanceId # i
      BY <1>1, <2>1, <3>2 DEF VectorInv
    <3> QED
      BY <3>1, <3>2
  <2>7. \A k \in inUse', j \in toLoad' : k < j
    BY <2>1, <2>3, <2>5
  <2>8. \A t \in Threads : pc'[t] # "store"
    BY <1>1, <2>2 DEF ThreadInv
  <2> QED
    BY <1>1, <2>2, <2>4, <2>6, <2>7, <2>8 DEF VectorInv
<1>3. CASE EndLoad \/ StartMaps \/ EndMaps
  BY <1>1, <1>3 DEF VectorInv, SameWord, EndLoad, StartMaps, EndMaps
<1>4. CASE GenerateInstanceId
  <2> DEFINE new == _nextInstanceId
  <2>1. /\ _nextInstanceId' = NextFree(new)
        /\ _instanceIds' = IF new < size' THEN _instanceIds \cup {new} ELSE _instanceIds
        /\ inUse' = inUse \cup {new}
        /\ shared' = IF new \in inUse THEN shared \cup {new} ELSE shared
        /\ phase = "world" /\ UNCHANGED <<phase, pc>>
    BY <1>4 DEF GenerateInstanceId
  <2>2. new % Chunk # 0 => new < size'
    BY <1>1, <1>4, GenerateSizes
  <2>3. \A k \in inUse' : k % Chunk # 0 => k \in _instanceIds'
    BY <1>1, <2>1, <2>2 DEF VectorInv
  <2>4. \A k \in shared' : k % Chunk = 0
    BY <1>1, <2>1 DEF VectorInv
  <2>5. new \in Nat /\ NextFree(new) \in Nat /\ NextFree(new) > new
        /\ NextFree(new) \notin _instanceIds
    BY <1>1, NextFreeFacts DEF TypeInv
  <2>6. _nextInstanceId' \in inUse' => _nextInstanceId' % Chunk = 0
    BY <1>1, <2>1, <2>5 DEF VectorInv
  <2>7. \A t \in Threads : pc'[t] # "store"
    BY <1>1, <2>1 DEF ThreadInv
  <2> QED
    BY <2>1, <2>3, <2>4, <2>6, <2>7 DEF VectorInv
<1>5. ASSUME NEW i \in inUse, FreeInstanceId(i)
      PROVE  VectorInv'
  <2>1. /\ phase = "world" /\ UNCHANGED <<phase, pc, shared>>
        /\ inUse' = inUse \ {i} /\ _instanceIds' = _instanceIds \ {i}
        /\ _nextInstanceId' = i \/ _nextInstanceId' = _nextInstanceId
    BY <1>5 DEF FreeInstanceId, Lowered
  <2>2. \A t \in Threads : pc'[t] # "store"
    BY <1>1, <2>1 DEF ThreadInv
  <2> QED
    BY <1>1, <2>1, <2>2 DEF VectorInv
<1>6. ASSUME NEW i \in inUse, NEW t \in Threads, CompareNext(t, i)
      PROVE  VectorInv'
  <2>1. /\ phase = "maps" /\ inUse' = inUse \ {i}
        /\ id' = [id EXCEPT ![t] = i]
        /\ pc' = [pc EXCEPT ![t] = IF i < _nextInstanceId THEN "set" ELSE "load"]
        /\ UNCHANGED <<phase, size, _instanceIds, _nextInstanceId, word, shared>>
    BY <1>6 DEF CompareNext
  <2>2. \A u \in Threads : pc'[u] = "store" => pc[u] = "store" /\ id'[u] = id[u]
    BY <1>1, <2>1 DEF TypeInv
  <2> QED
    BY <1>1, <2>1, <2>2 DEF VectorInv, SameWord
<1>7. ASSUME NEW t \in Threads, SetNextInstanceId(t)
      PROVE  VectorInv'
  <2>1. /\ pc[t] = "set" /\ _nextInstanceId' = id[t]
        /\ pc' = [pc EXCEPT ![t] = "load"]
        /\ UNCHANGED <<_instanceIds, size, phase, toLoad, id, word, inUse, shared>>
    BY <1>7 DEF SetNextInstanceId
  <2>2. id[t] \notin inUse
    BY <1>1, <2>1 DEF ThreadInv
  <2>3. \A u \in Threads : pc'[u] = "store" => pc[u] = "store"
    BY <1>1, <2>1 DEF TypeInv
  <2> QED
    BY <1>1, <2>1, <2>2, <2>3 DEF VectorInv, SameWord
<1>8. ASSUME NEW t \in Threads, LoadWord(t)
      PROVE  VectorInv'
  <2>1. /\ word' = [word EXCEPT ![t] = {k \in _instanceIds : SameWord(k, id[t])}]
        /\ pc' = [pc EXCEPT ![t] = "store"]
        /\ UNCHANGED <<_instanceIds, size, _nextInstanceId, toLoad, phase, id, inUse,
                       shared>>
    BY <1>8 DEF LoadWord
  <2>2. /\ word'[t] = {k \in _instanceIds : SameWord(k, id[t])}
        /\ \A u \in Threads : u # t => word'[u] = word[u] /\ pc'[u] = pc[u]
    BY <1>1, <2>1 DEF TypeInv
  <2>3. ASSUME NEW u \in Threads, pc'[u] = "store"
        PROVE  /\ \A k \in word'[u] : k < size
               /\ \A i \in inUse : i % Chunk # 0 /\ SameWord(i, id[u]) => i \in word'[u]
    <3>1. CASE u = t
      BY <1>1, <2>2, <3>1 DEF VectorInv, TypeInv
    <3>2. CASE u # t
      BY <1>1, <2>2, <2>3, <3>2 DEF VectorInv
    <3> QED
      BY <3>1, <3>2
  <2> QED
    BY <1>1, <2>1, <2>3 DEF VectorInv, SameWord
<1>9. ASSUME NEW t \in Threads, StoreWord(t)
      PROVE  VectorInv'
  <2>1. /\ pc[t] = "store"
        /\ _instanceIds' = {k \in _instanceIds : ~SameWord(k, id[t])}
                            \cup (word[t] \ {id[t]})
        /\ pc' = [pc EXCEPT ![t] = "idle"]
        /\ id' = [id EXCEPT ![t] = NoId]
        /\ word' = [word EXCEPT ![t] = {}]
        /\ UNCHANGED <<size, _nextInstanceId, toLoad, phase, inUse, shared>>
    BY <1>9 DEF StoreWord, Cleared
  <2>2. \A i \in inUse : i % Chunk # 0 => i \in _instanceIds'
    <3>1. id[t] \notin inUse
      BY <1>1, <2>1 DEF ThreadInv
    <3> QED
      BY <1>1, <2>1, <3>1 DEF VectorInv
  <2>3. \A u \in Threads : pc'[u] = "store" =>
           pc[u] = "store" /\ id'[u] = id[u] /\ word'[u] = word[u]
    BY <1>1, <2>1 DEF TypeInv
  <2> QED
    BY <1>1, <2>1, <2>2, <2>3 DEF VectorInv, SameWord
<1> QED
  BY <1>2, <1>3, <1>4, <1>5, <1>6, <1>7, <1>8, <1>9 DEF Next


\* Outside the time of the maps no thread frees an id.
LEMMA NobodyFrees ==
    ASSUME Inv, phase # "maps", NEW t \in Threads
    PROVE  pc[t] = "idle" /\ id[t] = NoId
BY DEF Inv, ThreadInv

\* What is below _nextInstanceId, or has its bit set, is accounted for.
LEMMA LowestNext ==
    ASSUME Inv, Next
    PROVE  LowestInv'
<1>1. TypeInv /\ ThreadInv /\ VectorInv /\ LowestInv
  BY DEF Inv
<1>2. NoId \notin Nat
  BY InstanceIdsAssumption
<1> USE DEF freeVars
<1>3. CASE RegisterInstanceId
  <2>1. PICK i \in toLoad :
             /\ _nextInstanceId' = IF _nextInstanceId = i THEN i + 1 ELSE _nextInstanceId
             /\ _instanceIds' = IF i < size THEN _instanceIds \cup {i} ELSE _instanceIds
             /\ inUse' = inUse \cup {i}
    BY <1>1, <1>3, RegisterEffect
  <2>2. phase = "load" /\ UNCHANGED <<pc, id, overlapped>>
    BY <1>3 DEF RegisterInstanceId
  <2>3. \A t \in Threads : pc'[t] = "idle" /\ pc[t] = "idle" /\ id[t] = NoId
    BY <2>2, NobodyFrees
  <2>4. \A k \in _instanceIds' : Accounted(k)'
    BY <1>1, <1>2, <2>1, <2>2, <2>3 DEF LowestInv, Accounted, TypeInv
  <2>5. \A k \in 1..(_nextInstanceId - 1) : Accounted(k)
    BY <1>1, <2>3 DEF LowestInv
  <2>6. \A k \in 1..(_nextInstanceId' - 1) : k \in 1..(_nextInstanceId - 1) \/ k = i
    BY <1>1, <2>1 DEF TypeInv
  <2>7. \A k \in 1..(_nextInstanceId' - 1) : Accounted(k)'
    BY <2>1, <2>2, <2>5, <2>6 DEF Accounted
  <2> QED
    BY <2>3, <2>4, <2>7 DEF LowestInv
<1>4. CASE EndLoad \/ StartMaps \/ EndMaps
  BY <1>1, <1>4 DEF LowestInv, Accounted, EndLoad, StartMaps, EndMaps
<1>5. CASE GenerateInstanceId
  <2> DEFINE new == _nextInstanceId
  <2>1. /\ _nextInstanceId' = NextFree(new)
        /\ _instanceIds' \subseteq _instanceIds \cup {new}
        /\ inUse' = inUse \cup {new}
        /\ phase = "world" /\ UNCHANGED <<pc, id, overlapped>>
    BY <1>5 DEF GenerateInstanceId
  <2>2. \A t \in Threads : pc'[t] = "idle" /\ pc[t] = "idle" /\ id[t] = NoId
    BY <2>1, NobodyFrees
  <2>3. \A k \in _instanceIds : Accounted(k)
    BY <1>1, <1>2, <2>2 DEF LowestInv, TypeInv
  <2>4. \A k \in _instanceIds' : Accounted(k)'
    BY <2>1, <2>3 DEF Accounted
  <2>5. /\ new \in Nat /\ NextFree(new) \in Nat
        /\ \A k \in (new + 1)..(NextFree(new) - 1) : k \in _instanceIds
    BY <1>1, NextFreeFacts DEF TypeInv
  <2>6. \A k \in 1..(new - 1) : Accounted(k)
    BY <1>1, <2>2 DEF LowestInv
  <2>7. ASSUME NEW k \in 1..(_nextInstanceId' - 1)
        PROVE  Accounted(k)'
    <3>1. k \in 1..(new - 1) \/ k = new \/ k \in (new + 1)..(NextFree(new) - 1)
      BY <2>1, <2>5
    <3> QED
      BY <2>1, <2>3, <2>5, <2>6, <3>1 DEF Accounted
  <2> QED
    BY <2>2, <2>4, <2>7 DEF LowestInv
<1>6. ASSUME NEW i \in inUse, FreeInstanceId(i)
      PROVE  LowestInv'
  <2>1. /\ phase = "world" /\ UNCHANGED <<pc, id>>
        /\ inUse' = inUse \ {i} /\ _instanceIds' = _instanceIds \ {i}
        /\ overlapped' = overlapped \ {i}
        /\ _nextInstanceId' = IF i < _nextInstanceId THEN i ELSE _nextInstanceId
    BY <1>6 DEF FreeInstanceId, Lowered
  <2>2. \A t \in Threads : pc'[t] = "idle" /\ pc[t] = "idle" /\ id[t] = NoId
    BY <2>1, NobodyFrees
  <2>3. \A k \in _instanceIds' : Accounted(k)'
    BY <1>1, <1>2, <2>1, <2>2 DEF LowestInv, Accounted, TypeInv
  <2>4. \A k \in 1..(_nextInstanceId - 1) : Accounted(k)
    BY <1>1, <2>2 DEF LowestInv
  <2>5. \A k \in 1..(_nextInstanceId' - 1) : k \in 1..(_nextInstanceId - 1) /\ k # i
    BY <1>1, <2>1 DEF TypeInv
  <2>6. \A k \in 1..(_nextInstanceId' - 1) : Accounted(k)'
    BY <2>1, <2>4, <2>5 DEF Accounted
  <2> QED
    BY <2>2, <2>3, <2>6 DEF LowestInv
<1>7. ASSUME NEW i \in inUse, NEW t \in Threads, CompareNext(t, i)
      PROVE  LowestInv'
  <2> DEFINE others == {id[u] : u \in Threads} \ {NoId}
  <2>1. /\ pc[t] = "idle" /\ inUse' = inUse \ {i}
        /\ id' = [id EXCEPT ![t] = i]
        /\ pc' = [pc EXCEPT ![t] = IF i < _nextInstanceId THEN "set" ELSE "load"]
        /\ overlapped' = IF others = {} THEN overlapped \ {i}
                         ELSE overlapped \cup others \cup {i}
        /\ UNCHANGED <<_instanceIds, _nextInstanceId, word>>
    BY <1>7 DEF CompareNext
  <2>2. /\ id'[t] = i /\ pc'[t] = IF i < _nextInstanceId THEN "set" ELSE "load"
        /\ \A u \in Threads : u # t => id'[u] = id[u] /\ pc'[u] = pc[u]
        /\ i \in Nat /\ _nextInstanceId \in Nat
    BY <1>1, <2>1 DEF TypeInv
  <2>3. \A k : k # i /\ Accounted(k) => Accounted(k)'
    BY <2>1 DEF Accounted
  <2>4. ASSUME NEW u \in Threads, u # t, pc[u] # "idle"
        PROVE  Accounted(i)' /\ id[u] \in overlapped' /\ i \in overlapped'
    <3>1. id[u] \in others
      BY <1>1, <2>4 DEF ThreadInv
    <3>2. overlapped' = overlapped \cup others \cup {i}
      BY <2>1, <3>1
    <3> QED
      BY <3>1, <3>2 DEF Accounted
  <2>5. \A k \in 1..(_nextInstanceId' - 1) :
           Accounted(k)' \/ \E u \in Threads : pc'[u] = "set" /\ id'[u] = k
    <3>1. ASSUME NEW k \in 1..(_nextInstanceId - 1)
          PROVE  Accounted(k)' \/ \E u \in Threads : pc'[u] = "set" /\ id'[u] = k
      <4>1. CASE k = i
        BY <2>2, <4>1
      <4>2. CASE k # i /\ Accounted(k)
        BY <2>3, <4>2
      <4>3. CASE \E u \in Threads : pc[u] = "set" /\ id[u] = k
        BY <2>1, <2>2, <4>3
      <4> QED
        BY <1>1, <4>1, <4>2, <4>3 DEF LowestInv
    <3> QED
      BY <2>1, <3>1
  <2>6. ASSUME NEW u \in Threads, pc'[u] = "set", NEW k \in 1..(id'[u] - 1)
        PROVE  Accounted(k)'
    <3>1. CASE u = t
      <4>1. k \in 1..(_nextInstanceId - 1) /\ k # i
        BY <2>2, <2>6, <3>1
      <4>2. CASE Accounted(k)
        BY <2>3, <4>1, <4>2
      <4>3. CASE \E v \in Threads : pc[v] = "set" /\ id[v] = k
        BY <2>1, <2>4, <4>3 DEF Accounted
      <4> QED
        BY <1>1, <4>1, <4>2, <4>3 DEF LowestInv
    <3>2. CASE u # t
      <4>1. pc[u] = "set" /\ Accounted(k)
        BY <1>1, <2>2, <2>6, <3>2 DEF LowestInv
      <4> QED
        BY <2>3, <2>4, <3>2, <4>1
    <3> QED
      BY <3>1, <3>2
  <2>7. \A k \in _instanceIds' : Accounted(k)' \/ \E u \in Threads : id'[u] = k
    <3>1. ASSUME NEW k \in _instanceIds
          PROVE  Accounted(k)' \/ \E u \in Threads : id'[u] = k
      <4>1. CASE k = i
        BY <2>2, <4>1
      <4>2. CASE k # i /\ Accounted(k)
        BY <2>3, <4>2
      <4>3. CASE \E u \in Threads : id[u] = k
        <5>1. PICK u \in Threads : id[u] = k
          BY <4>3
        <5>2. u # t
          BY <1>1, <1>2, <2>1, <5>1 DEF ThreadInv, TypeInv
        <5> QED
          BY <2>2, <5>1, <5>2
      <4> QED
        BY <1>1, <4>1, <4>2, <4>3 DEF LowestInv
    <3> QED
      BY <2>1, <3>1
  <2>8. ASSUME NEW u \in Threads, pc'[u] = "store", NEW k \in word'[u]
        PROVE  Accounted(k)' \/ k = id'[u]
    <3>1. u # t /\ pc[u] = "store" /\ k \in word[u]
      BY <2>1, <2>2, <2>8
    <3> QED
      BY <1>1, <2>2, <2>3, <2>4, <3>1 DEF LowestInv
  <2>9. ASSUME NEW u \in Threads, NEW v \in Threads, u # v, pc'[u] # "idle", pc'[v] # "idle"
        PROVE  id'[u] \in overlapped'
    <3>1. CASE u = t
      BY <2>2, <2>4, <2>9, <3>1
    <3>2. CASE u # t
      BY <2>2, <2>4, <2>9, <3>2
    <3> QED
      BY <3>1, <3>2
  <2> QED
    BY <2>5, <2>6, <2>7, <2>8, <2>9 DEF LowestInv
<1>8. ASSUME NEW t \in Threads, SetNextInstanceId(t)
      PROVE  LowestInv'
  <2>1. /\ pc[t] = "set" /\ _nextInstanceId' = id[t]
        /\ pc' = [pc EXCEPT ![t] = "load"]
        /\ UNCHANGED <<_instanceIds, id, word, inUse, overlapped>>
    BY <1>8 DEF SetNextInstanceId
  <2>2. /\ pc'[t] = "load" /\ \A u \in Threads : u # t => pc'[u] = pc[u]
    BY <1>1, <2>1 DEF TypeInv
  <2>3. \A k \in 1..(_nextInstanceId' - 1) : Accounted(k)
    BY <1>1, <2>1 DEF LowestInv
  <2>4. \A k : Accounted(k) <=> Accounted(k)'
    BY <2>1 DEF Accounted
  <2>5. \A u \in Threads : /\ pc'[u] = "set" => pc[u] = "set"
                           /\ pc'[u] = "store" => pc[u] = "store"
                           /\ pc'[u] # "idle" => pc[u] # "idle"
    BY <2>1, <2>2
  <2> QED
    BY <1>1, <2>1, <2>3, <2>4, <2>5 DEF LowestInv
<1>9. ASSUME NEW t \in Threads, LoadWord(t)
      PROVE  LowestInv'
  <2>1. /\ word' = [word EXCEPT ![t] = {k \in _instanceIds : SameWord(k, id[t])}]
        /\ pc[t] = "load" /\ pc' = [pc EXCEPT ![t] = "store"]
        /\ UNCHANGED <<_instanceIds, _nextInstanceId, id, inUse, overlapped>>
    BY <1>9 DEF LoadWord
  <2>2. /\ word'[t] \subseteq _instanceIds /\ pc'[t] = "store"
        /\ \A u \in Threads : u # t => word'[u] = word[u] /\ pc'[u] = pc[u]
    BY <1>1, <2>1 DEF TypeInv
  <2>3. \A k : Accounted(k) <=> Accounted(k)'
    BY <2>1 DEF Accounted
  <2>4. ASSUME NEW k \in word'[t]
        PROVE  Accounted(k) \/ k = id[t]
    <3>1. Accounted(k) \/ \E u \in Threads : id[u] = k
      BY <1>1, <2>2 DEF LowestInv
    <3>2. ASSUME NEW u \in Threads, id[u] = k, u # t
          PROVE  k \in overlapped
      <4>1. k \in Nat
        BY <1>1, <2>2 DEF TypeInv
      <4>2. pc[u] # "idle"
        BY <1>1, <1>2, <3>2, <4>1 DEF ThreadInv
      <4> QED
        BY <1>1, <2>1, <3>2, <4>2 DEF LowestInv
    <3> QED
      BY <3>1, <3>2 DEF Accounted
  <2>5. ASSUME NEW u \in Threads, pc'[u] = "store", NEW k \in word'[u]
        PROVE  Accounted(k)' \/ k = id'[u]
    <3>1. CASE u = t
      BY <2>1, <2>3, <2>4, <2>5, <3>1
    <3>2. CASE u # t
      BY <1>1, <2>1, <2>2, <2>3, <2>5, <3>2 DEF LowestInv
    <3> QED
      BY <3>1, <3>2
  <2>6. \A u \in Threads : /\ pc'[u] = "set" <=> pc[u] = "set"
                           /\ pc'[u] # "idle" => pc[u] # "idle"
    BY <2>1, <2>2
  <2> QED
    BY <1>1, <2>1, <2>3, <2>5, <2>6 DEF LowestInv
<1>10. ASSUME NEW t \in Threads, StoreWord(t)
       PROVE  LowestInv'
  <2>1. /\ pc[t] = "store"
        /\ _instanceIds' = {k \in _instanceIds : ~SameWord(k, id[t])}
                            \cup (word[t] \ {id[t]})
        /\ pc' = [pc EXCEPT ![t] = "idle"]
        /\ id' = [id EXCEPT ![t] = NoId]
        /\ word' = [word EXCEPT ![t] = {}]
        /\ UNCHANGED <<_nextInstanceId, inUse, overlapped>>
    BY <1>10 DEF StoreWord, Cleared
  <2>2. /\ pc'[t] = "idle"
        /\ \A u \in Threads : u # t => word'[u] = word[u] /\ pc'[u] = pc[u] /\ id'[u] = id[u]
    BY <1>1, <2>1 DEF TypeInv
  <2>3. \A k : Accounted(k) <=> Accounted(k)'
    BY <2>1 DEF Accounted
  <2>4. ASSUME NEW k \in _instanceIds'
        PROVE  Accounted(k)' \/ \E u \in Threads : id'[u] = k
    <3>1. CASE k \in word[t] \ {id[t]}
      BY <1>1, <2>1, <2>3, <3>1 DEF LowestInv
    <3>2. CASE k \in _instanceIds /\ ~SameWord(k, id[t])
      <4>1. k # id[t]
        BY <3>2 DEF SameWord
      <4>2. Accounted(k) \/ \E u \in Threads : id[u] = k
        BY <1>1, <3>2 DEF LowestInv
      <4>3. \A u \in Threads : id[u] = k => id'[u] = k
        BY <2>2, <4>1
      <4> QED
        BY <2>3, <4>2, <4>3
    <3> QED
      BY <2>1, <3>1, <3>2
  <2>5. \A u \in Threads : pc'[u] # "idle" => u # t
    BY <2>2
  <2>6. \A k \in 1..(_nextInstanceId' - 1) :
           Accounted(k)' \/ \E u \in Threads : pc'[u] = "set" /\ id'[u] = k
    <3>1. \A u \in Threads : pc[u] = "set" => u # t
      BY <2>1
    <3> QED
      BY <1>1, <2>1, <2>2, <2>3, <3>1 DEF LowestInv
  <2>7. \A u \in Threads : pc'[u] = "set" => \A k \in 1..(id'[u] - 1) : Accounted(k)'
    BY <1>1, <2>2, <2>3 DEF LowestInv
  <2>8. \A u \in Threads : pc'[u] = "store" =>
           \A k \in word'[u] : Accounted(k)' \/ k = id'[u]
    BY <1>1, <2>2, <2>3 DEF LowestInv
  <2>9. \A u, v \in Threads : u # v /\ pc'[u] # "idle" /\ pc'[v] # "idle" =>
           id'[u] \in overlapped'
    BY <1>1, <2>1, <2>2 DEF LowestInv
  <2> QED
    BY <2>4, <2>6, <2>7, <2>8, <2>9 DEF LowestInv
<1> QED
  BY <1>3, <1>4, <1>5, <1>6, <1>7, <1>8, <1>9, <1>10 DEF Next

-----------------------------------------------------------------------------
(* The theorems. *)

\* InitInstanceIds makes room for the highest saved id.
LEMMA InvInit ==
    ASSUME Init
    PROVE  Inv
<1>1. /\ toLoad \in SUBSET (1..MaxId) /\ MaxId \in Nat /\ NoId \notin Nat
      /\ Chunk \in Nat /\ Chunk >= 1 /\ WordBits \in Nat /\ WordBits >= 1
  BY InstanceIdsAssumption DEF Init
<1>2. size \in Nat /\ size % Chunk = 0 /\ \A k \in toLoad : k <= size
  <2>1. CASE toLoad = {}
    <3>1. (0 * Chunk) % Chunk = 0
      BY MultipleOfChunk
    <3>2. 0 * Chunk = 0
      BY <1>1
    <3> QED
      BY <2>1, <3>1, <3>2 DEF Init
  <2>2. CASE toLoad # {}
    <3>1. Greatest(toLoad) \in toLoad /\ \A k \in toLoad : k <= Greatest(toLoad)
      BY <1>1, <2>2, GreatestOf
    <3>2. PICK g \in Nat : g = Greatest(toLoad)
      <4>1. \A k \in toLoad : k \in Nat
        BY <1>1
      <4> QED
        BY <3>1, <4>1
    <3>3. size = RoundedUp(g)
      BY <2>2, <3>2 DEF Init
    <3>4. size \in Nat /\ size % Chunk = 0 /\ g <= size
      BY <3>3, RoundedUpFacts
    <3>5. ASSUME NEW k \in toLoad
          PROVE  k <= size
      BY <1>1, <3>1, <3>2, <3>4
    <3> QED
      BY <3>4, <3>5
  <2> QED
    BY <2>1, <2>2
<1>3. capacity \in Nat /\ capacity % Chunk = 0
  <2>1. PICK n \in Nat : n = size + WordBits - 1
    BY <1>1, <1>2
  <2>2. capacity = (n \div WordBits) * WordBits
    BY <2>1 DEF Init
  <2> QED
    BY <2>2, WordsAreChunks
<1>4. TypeInv
  <2>1. toLoad \in SUBSET Nat /\ \A k \in toLoad : 1 <= k /\ k <= size
    BY <1>1, <1>2
  <2>2. /\ pc \in [Threads -> {"idle", "set", "load", "store"}]
        /\ id \in [Threads -> Nat \cup {NoId}]
        /\ word \in [Threads -> SUBSET Nat]
    BY DEF Init
  <2>3. _nextInstanceId \in Nat \ {0} /\ _nextInstanceId <= size + 1
    BY <1>2 DEF Init
  <2>4. _instanceIds = {} /\ inUse = {} /\ phase = "load"
    BY DEF Init
  <2> QED
    BY <1>2, <1>3, <2>1, <2>2, <2>3, <2>4 DEF TypeInv
<1>5. ThreadInv /\ VectorInv
  BY <1>1 DEF Init, ThreadInv, VectorInv
<1>6. LowestInv
  BY <1>1 DEF Init, LowestInv
<1> QED
  BY <1>4, <1>5, <1>6 DEF Inv

\* The invariant is inductive.
THEOREM Invariance == Spec => []Inv
<1>1. Init => Inv
  BY InvInit
<1>2. Inv /\ [Next]_vars => Inv'
  <2> SUFFICES ASSUME Inv, [Next]_vars
               PROVE  Inv'
    OBVIOUS
  <2>1. CASE Next
    BY <2>1, TypeNext, ThreadNext, VectorNext, LowestNext DEF Inv
  <2>2. CASE UNCHANGED vars
    <3> USE DEF vars, freeVars
    <3>1. TypeInv' /\ ThreadInv'
      BY <2>2 DEF Inv, TypeInv, ThreadInv
    <3>2. VectorInv' /\ LowestInv'
      BY <2>2 DEF Inv, VectorInv, LowestInv, Accounted, SameWord
    <3> QED
      BY <3>1, <3>2 DEF Inv
  <2> QED
    BY <2>1, <2>2
<1> QED
  BY <1>1, <1>2, PTL DEF Spec

\* No id that is not a multiple of the chunk size is given to two instances, and each
\* in use has its bit, however the map threads interleave their unlocked writes
\* (FreeInstanceId, GenerateInstanceId).
THEOREM IdsUnique == Spec => []UniqueInsideVector
<1>1. Inv => UniqueInsideVector
  BY DEF Inv, VectorInv, UniqueInsideVector
<1> QED
  BY <1>1, Invariance, PTL

\* While the world thread runs, _nextInstanceId is the lowest unused id, but for ids
\* that two threads freed at the same time.
THEOREM LowestReused == Spec => []LowestIfAlone
<1>1. Inv => LowestIfAlone
  <2> SUFFICES ASSUME Inv, phase = "world", NEW i \in 1 .. (_nextInstanceId - 1)
               PROVE  i \in inUse \cup overlapped
    BY DEF LowestIfAlone
  <2>1. \A t \in Threads : pc[t] = "idle"
    BY NobodyFrees
  <2> QED
    BY <2>1 DEF Inv, LowestInv, Accounted
<1> QED
  BY <1>1, Invariance, PTL

==============================================================================
