-------------------------- MODULE LoginQueueProofs --------------------------
(***************************************************************************)
(* Proofs about LoginQueue for every number of accounts and of session     *)
(* objects, any limits and any length of the lists: no list holds a        *)
(* deleted session, the places are filled and not overfilled, and nobody   *)
(* passes the queue.                                                       *)
(***************************************************************************)
EXTENDS LoginQueue, FiniteSetTheorems, SequenceTheorems, WellFoundedInduction, TLAPS

-----------------------------------------------------------------------------
(* Queues: sequences in which nothing is twice. *)

\* A set of numbers that is not empty has a least element.
LEMMA MinOf ==
    ASSUME NEW S \in SUBSET Nat, S # {}
    PROVE  Min(S) \in S
<1>1. \E n \in S : \A k \in S : n <= k
  <2>1. PICK n \in S : \A k \in S : ~(<<k, n>> \in OpToRel(<, Nat))
    BY NatLessThanWellFounded, WFMin, Zenon
  <2>2. ASSUME NEW k \in S, k < n
        PROVE  <<k, n>> \in OpToRel(<, Nat)
    BY <2>2, Zenon DEF OpToRel
  <2>3. \A k \in S : ~(k < n)
    BY <2>1, <2>2, Zenon
  <2> QED
    BY <2>3
<1> QED
  BY <1>1 DEF Min

\* Where a queue has what.
LEMMA QueueFacts ==
    ASSUME NEW S, NEW q \in Seq(S)
    PROVE  /\ Len(q) \in Nat /\ DOMAIN q = 1..Len(q)
           /\ Range(q) = {q[n] : n \in 1..Len(q)}
           /\ IsInjective(q) <=> \A n, k \in 1..Len(q) : q[n] = q[k] => n = k
           /\ \A n \in 1..Len(q) : q[n] \in S
           /\ Range(q) \subseteq S
           /\ q = <<>> <=> Len(q) = 0
<1>1. Len(q) \in Nat /\ DOMAIN q = 1..Len(q) /\ \A n \in 1..Len(q) : q[n] \in S
  OBVIOUS
<1>2. Range(q) = {q[n] : n \in 1..Len(q)}
  BY <1>1 DEF Range
<1>3. IsInjective(q) <=> \A n, k \in 1..Len(q) : q[n] = q[k] => n = k
  BY <1>1 DEF IsInjective
<1> QED
  BY <1>1, <1>2, <1>3

\* erase of the element the loop of RemoveQueuedPlayer finds.
LEMMA RemoveFirstFacts ==
    ASSUME NEW S, NEW q \in Seq(S), IsInjective(q), NEW s
    PROVE  /\ RemoveFirst(q, s) \in Seq(S)
           /\ IsInjective(RemoveFirst(q, s))
           /\ Range(RemoveFirst(q, s)) = Range(q) \ {s}
           /\ Len(RemoveFirst(q, s)) = IF s \in Range(q) THEN Len(q) - 1 ELSE Len(q)
<1>1. /\ Len(q) \in Nat /\ Range(q) = {q[n] : n \in 1..Len(q)}
      /\ \A n, k \in 1..Len(q) : q[n] = q[k] => n = k
      /\ \A n \in 1..Len(q) : q[n] \in S
  BY QueueFacts
<1>2. CASE ~ \E n \in 1..Len(q) : q[n] = s
  <2>1. RemoveFirst(q, s) = q /\ s \notin Range(q)
    BY <1>1, <1>2 DEF RemoveFirst
  <2> QED
    BY <2>1
<1>3. CASE \E n \in 1..Len(q) : q[n] = s
  <2> DEFINE I == {i \in 1..Len(q) : q[i] = s}
             n == Min(I)
             r == RemoveFirst(q, s)
  <2>1. n \in I
    <3>1. I \in SUBSET Nat /\ I # {}
      BY <1>1, <1>3
    <3> HIDE DEF I
    <3> QED
      BY <3>1, MinOf
  <2>2. r = SubSeq(q, 1, n - 1) \o SubSeq(q, n + 1, Len(q))
    BY <1>3, <2>1 DEF RemoveFirst, RemoveAt, SelectInSeq
  <2> HIDE DEF n, r
  <2>3. n \in 1..Len(q) /\ q[n] = s
    BY <2>1
  <2> DEFINE x == SubSeq(q, 1, n - 1)
             y == SubSeq(q, n + 1, Len(q))
  <2>4. /\ x \in Seq(S) /\ Len(x) = n - 1 /\ \A i \in 1..(n - 1) : x[i] = q[i]
    BY <1>1, <2>3
  <2>5. /\ y \in Seq(S) /\ Len(y) = Len(q) - n
        /\ \A i \in 1..(Len(q) - n) : y[i] = q[n + i]
    BY <1>1, <2>3
  <2>6. r = x \o y
    BY <2>2
  <2> HIDE DEF x, y
  <2>7. r \in Seq(S) /\ Len(r) = Len(q) - 1
    BY <1>1, <2>3, <2>4, <2>5, <2>6
  <2>8. \A i \in 1..(Len(q) - 1) : r[i] = IF i < n THEN q[i] ELSE q[i + 1]
    BY <1>1, <2>3, <2>4, <2>5, <2>6
  <2>9. s \in Range(q)
    BY <1>1, <2>3
  <2>10. /\ Range(r) = {r[k] : k \in 1..Len(r)}
         /\ IsInjective(r) <=> \A j, k \in 1..Len(r) : r[j] = r[k] => j = k
    BY <2>7, QueueFacts
  <2>11. IsInjective(r)
    BY <1>1, <2>3, <2>7, <2>8, <2>10
  <2>12. Range(r) \subseteq Range(q) \ {s}
    BY <1>1, <2>3, <2>7, <2>8, <2>10
  <2>13. ASSUME NEW e \in Range(q) \ {s}
         PROVE  e \in Range(r)
    <3>1. PICK k \in 1..Len(q) : q[k] = e /\ k # n
      BY <1>1, <2>3, <2>13
    <3>2. CASE k < n
      BY <1>1, <2>3, <2>7, <2>8, <2>10, <3>1, <3>2
    <3>3. CASE k > n
      <4>1. k - 1 \in 1..Len(r) /\ r[k - 1] = e
        BY <1>1, <2>3, <2>7, <2>8, <3>1, <3>3
      <4> QED
        BY <2>10, <4>1
    <3> QED
      BY <1>1, <2>3, <3>1, <3>2, <3>3
  <2> QED
    BY <2>7, <2>9, <2>11, <2>12, <2>13 DEF r
<1> QED
  BY <1>2, <1>3

\* pop_front.
LEMMA TailFacts ==
    ASSUME NEW S, NEW q \in Seq(S), IsInjective(q), q # <<>>
    PROVE  /\ Tail(q) \in Seq(S) /\ IsInjective(Tail(q))
           /\ Head(q) \in Range(q) /\ Range(Tail(q)) = Range(q) \ {Head(q)}
           /\ Len(Tail(q)) = Len(q) - 1
<1>1. /\ Len(q) \in Nat /\ Range(q) = {q[n] : n \in 1..Len(q)} /\ Len(q) >= 1
      /\ \A n, k \in 1..Len(q) : q[n] = q[k] => n = k
  BY QueueFacts
<1> DEFINE r == Tail(q)
<1>2. /\ r \in Seq(S) /\ Len(r) = Len(q) - 1 /\ Head(q) = q[1]
      /\ \A i \in 1..(Len(q) - 1) : r[i] = q[i + 1]
  BY <1>1
<1> HIDE DEF r
<1>3. /\ Range(r) = {r[k] : k \in 1..Len(r)}
      /\ IsInjective(r) <=> \A j, k \in 1..Len(r) : r[j] = r[k] => j = k
  BY <1>2, QueueFacts
<1>4. IsInjective(r)
  BY <1>1, <1>2, <1>3
<1>5. Head(q) \in Range(q) /\ Range(r) \subseteq Range(q) \ {Head(q)}
  BY <1>1, <1>2, <1>3
<1>6. ASSUME NEW e \in Range(q) \ {Head(q)}
      PROVE  e \in Range(r)
  <2>1. PICK k \in 1..Len(q) : q[k] = e /\ k # 1
    BY <1>1, <1>2, <1>6
  <2>2. k - 1 \in 1..Len(r) /\ r[k - 1] = e
    BY <1>1, <1>2, <2>1
  <2> QED
    BY <1>3, <2>2
<1> QED
  BY <1>2, <1>4, <1>5, <1>6 DEF r

\* push_back of what the queue does not hold.
LEMMA AppendFacts ==
    ASSUME NEW S, NEW q \in Seq(S), IsInjective(q), NEW s \in S, s \notin Range(q)
    PROVE  /\ Append(q, s) \in Seq(S) /\ IsInjective(Append(q, s))
           /\ Range(Append(q, s)) = Range(q) \cup {s}
           /\ Len(Append(q, s)) = Len(q) + 1
<1>1. /\ Len(q) \in Nat /\ Range(q) = {q[n] : n \in 1..Len(q)}
      /\ \A n, k \in 1..Len(q) : q[n] = q[k] => n = k
  BY QueueFacts
<1> DEFINE r == Append(q, s)
<1>2. /\ r \in Seq(S) /\ Len(r) = Len(q) + 1 /\ r[Len(q) + 1] = s
      /\ \A i \in 1..Len(q) : r[i] = q[i]
  BY <1>1
<1> HIDE DEF r
<1>3. /\ Range(r) = {r[k] : k \in 1..Len(r)}
      /\ IsInjective(r) <=> \A j, k \in 1..Len(r) : r[j] = r[k] => j = k
  BY <1>2, QueueFacts
<1>4. \A k \in 1..Len(r) : k \in 1..Len(q) \/ k = Len(q) + 1
  BY <1>1, <1>2
<1>5. \A k \in 1..Len(q) : r[k] # s
  BY <1>1, <1>2
<1>6. IsInjective(r)
  BY <1>1, <1>2, <1>3, <1>4, <1>5
<1>7. Range(r) = Range(q) \cup {s}
  <2>1. \A k \in 1..Len(q) : k \in 1..Len(r)
    BY <1>1, <1>2
  <2>2. Len(q) + 1 \in 1..Len(r)
    BY <1>1, <1>2
  <2> QED
    BY <1>1, <1>2, <1>3, <1>4, <2>1, <2>2
<1> QED
  BY <1>2, <1>6, <1>7 DEF r

\* Nothing is twice in a queue, so that its length is the number of what it holds.
LEMMA QueueCount ==
    ASSUME NEW S, NEW q \in Seq(S), IsInjective(q)
    PROVE  IsFiniteSet(Range(q)) /\ Cardinality(Range(q)) = Len(q)
<1>1. Len(q) \in Nat /\ DOMAIN q = 1..Len(q) /\ q \in [1..Len(q) -> Range(q)]
  BY QueueFacts DEF Range
<1>2. q \in Bijection(1..Len(q), Range(q))
  BY <1>1 DEF Bijection, Injection, Surjection, Range
<1>3. IsFiniteSet(1..Len(q)) /\ Cardinality(1..Len(q)) = Len(q)
  BY <1>1, FS_Interval
<1>4. ExistsBijection(1..Len(q), Range(q))
  BY <1>2 DEF ExistsBijection
<1> QED
  BY <1>3, <1>4, FS_Bijection

-----------------------------------------------------------------------------
(* The inductive invariant. *)

TypeInv ==
  /\ alive \in SUBSET Sessions
  /\ closed \in SUBSET Sessions
  /\ addSessQueue \in Seq(Sessions)
  /\ m_sessions \in [Accounts -> Sessions \cup {NoSession}]
  /\ m_QueuedPlayer \in Seq(Sessions)
  /\ m_playerLimit \in used
  /\ used \in SUBSET Nat
  /\ changes \in Nat

(* A session is listed under its account, and each is in one place. *)
ListsInv ==
  /\ \A a \in Online : GetAccountId(m_sessions[a]) = a
  /\ IsInjective(addSessQueue)
  /\ IsInjective(m_QueuedPlayer)
  /\ Range(addSessQueue) \cup Listed \subseteq alive
  /\ Range(m_QueuedPlayer) \subseteq Listed
  /\ Range(addSessQueue) \cap Listed = {}

(* The places, and what holds of them until the limit is changed. *)
PlacesInv ==
  /\ SlotsFilledToLimit
  /\ changes = 0 => used = {m_playerLimit}
  /\ changes = 0 /\ m_QueuedPlayer # <<>> => m_playerLimit > 0

Inv == TypeInv /\ ListsInv /\ PlacesInv

-----------------------------------------------------------------------------
(* Counting. *)

\* The active sessions are those that are listed less those that are queued.
LEMMA ActiveCount ==
    ASSUME NEW m \in [Accounts -> Sessions \cup {NoSession}],
           NEW q \in Seq(Sessions), IsInjective(q),
           \A a \in Accounts : m[a] # NoSession => m[a][1] = a,
           Range(q) \subseteq {m[a] : a \in {b \in Accounts : m[b] # NoSession}}
    PROVE  LET on == {a \in Accounts : m[a] # NoSession}
               listed == {m[a] : a \in on}
           IN  /\ IsFiniteSet(on) /\ Cardinality(on) \in Nat
               /\ IsFiniteSet(listed \ Range(q))
               /\ Cardinality(listed \ Range(q)) \in Nat
               /\ Cardinality(listed \ Range(q)) = Cardinality(on) - Len(q)
<1> DEFINE on == {a \in Accounts : m[a] # NoSession}
           listed == {m[a] : a \in on}
           f == [a \in on |-> m[a]]
<1>1. IsFiniteSet(on)
  <2>1. on \in SUBSET Accounts /\ IsFiniteSet(Accounts)
    BY LoginQueueAssumption
  <2> HIDE DEF on
  <2> QED
    BY <2>1, FS_Subset
<1>2. f \in Bijection(on, listed)
  BY DEF Bijection, Injection, Surjection, IsInjective
<1>3. ExistsBijection(on, listed)
  BY <1>2 DEF ExistsBijection
<1>4. Range(q) \subseteq listed
  OBVIOUS
<1> HIDE DEF on, listed
<1>5. IsFiniteSet(listed) /\ Cardinality(listed) = Cardinality(on) /\ Cardinality(on) \in Nat
  BY <1>1, <1>3, FS_Bijection, FS_CardinalityType
<1>6. IsFiniteSet(Range(q)) /\ Cardinality(Range(q)) = Len(q)
  BY QueueCount
<1>7. /\ IsFiniteSet(listed \ Range(q))
      /\ Cardinality(listed \ Range(q)) = Cardinality(listed) - Cardinality(listed \cap Range(q))
  BY <1>5, FS_Difference
<1>8. listed \cap Range(q) = Range(q)
  BY <1>4
<1>9. Cardinality(listed \ Range(q)) \in Nat
  BY <1>7, FS_CardinalityType
<1>10. Cardinality(listed \ Range(q)) = Cardinality(on) - Len(q)
  BY <1>5, <1>6, <1>7, <1>8
<1> QED
  BY <1>1, <1>5, <1>7, <1>9, <1>10 DEF on, listed

\* RemoveQueuedPlayer(s) for one of total listed sessions: without s there are base in
\* the queue and total - 1 - base active; the first is let in exactly when there is one
\* and a place for it.
LEMMA RemovedFacts ==
    ASSUME TypeInv, NEW q \in Seq(Sessions), IsInjective(q), NEW s,
           NEW total \in Nat, NEW base \in Nat,
           s \in Range(q) => base = Len(q) - 1, s \notin Range(q) => base = Len(q),
           base < total, NEW r, r = RemoveQueuedPlayer(q, total, s)
    PROVE  /\ r \in Seq(Sessions) /\ IsInjective(r) /\ Len(r) \in Nat
           /\ Range(r) \subseteq Range(q) /\ s \notin Range(r)
           /\ \/ /\ Len(r) = base /\ Range(r) = Range(q) \ {s}
                 /\ base = 0 \/ (m_playerLimit > 0 /\ total > base + m_playerLimit)
              \/ /\ Len(r) = base - 1 /\ base > 0
                 /\ m_playerLimit = 0 \/ total <= base + m_playerLimit
<1>1. Len(q) \in Nat /\ m_playerLimit \in Nat
  BY QueueFacts DEF TypeInv
<1>2. OtherActive(q, total, s) = total - 1 - base
  <2>1. CASE s \in Range(q)
    BY <1>1, <2>1 DEF OtherActive
  <2>2. CASE s \notin Range(q)
    <3>1. total - Len(q) > 0
      BY <1>1, <2>2
    <3> QED
      BY <1>1, <2>2, <3>1 DEF OtherActive
  <2> QED
    BY <2>1, <2>2
<1>3. PICK rest \in Seq(Sessions) : rest = RemoveFirst(q, s)
  BY RemoveFirstFacts
<1>4. IsInjective(rest) /\ Range(rest) = Range(q) \ {s} /\ Len(rest) = base
  BY <1>3, RemoveFirstFacts
<1>5. rest = <<>> <=> base = 0
  BY <1>4, QueueFacts
<1> DEFINE Free == m_playerLimit = 0 \/ total <= base + m_playerLimit
<1>6. OtherActive(q, total, s) < m_playerLimit <=> total <= base + m_playerLimit
  <2>1. \A t, b, k \in Nat : t - 1 - b < k <=> t <= b + k
    OBVIOUS
  <2> QED
    BY <1>1, <1>2, <2>1, Zenon
<1>61. (Free /\ base # 0 => r = Tail(rest)) /\ (~(Free /\ base # 0) => r = rest)
  BY <1>3, <1>5, <1>6 DEF RemoveQueuedPlayer
<1>7. CASE Free /\ base # 0
  <2>1. rest # <<>>
    BY <1>5, <1>7
  <2>2. r = Tail(rest)
    BY <1>61, <1>7
  <2>3. /\ r \in Seq(Sessions) /\ IsInjective(r) /\ Range(r) \subseteq Range(rest)
        /\ Len(r) = base - 1
    BY <1>4, <2>1, <2>2, TailFacts
  <2>4. Range(r) \subseteq Range(q) /\ s \notin Range(r)
    BY <1>4, <2>3
  <2>5. base > 0 /\ Len(r) \in Nat
    BY <1>7, <2>3
  <2> QED
    BY <1>7, <2>3, <2>4, <2>5
<1>8. CASE ~(Free /\ base # 0)
  <2>1. r = rest
    BY <1>61, <1>8
  <2>2. base = 0 \/ (m_playerLimit > 0 /\ total > base + m_playerLimit)
    BY <1>1, <1>8
  <2> QED
    BY <1>4, <2>1, <2>2
<1> QED
  BY <1>7, <1>8

\* What ActiveCount says of the state.
LEMMA StateCount ==
    ASSUME TypeInv, ListsInv
    PROVE  /\ IsFiniteSet(Online) /\ Cardinality(Online) \in Nat
           /\ Len(m_QueuedPlayer) \in Nat
           /\ IsFiniteSet(Active) /\ Cardinality(Active) \in Nat
           /\ Cardinality(Active) = Cardinality(Online) - Len(m_QueuedPlayer)
<1>1. /\ m_sessions \in [Accounts -> Sessions \cup {NoSession}]
      /\ m_QueuedPlayer \in Seq(Sessions) /\ IsInjective(m_QueuedPlayer)
      /\ \A a \in Accounts : m_sessions[a] # NoSession => m_sessions[a][1] = a
      /\ Range(m_QueuedPlayer) \subseteq
           {m_sessions[a] : a \in {b \in Accounts : m_sessions[b] # NoSession}}
  BY DEF TypeInv, ListsInv, Online, Listed, GetAccountId
<1>2. Len(m_QueuedPlayer) \in Nat
  BY <1>1, QueueFacts
<1> QED
  BY <1>1, <1>2, ActiveCount DEF Online, Active, Listed

\* And of the next one.
LEMMA NextCount ==
    ASSUME TypeInv', ListsInv'
    PROVE  /\ Len(m_QueuedPlayer') \in Nat
           /\ IsFiniteSet(Active') /\ Cardinality(Active') \in Nat
           /\ Cardinality(Online') \in Nat
           /\ Cardinality(Active') = Cardinality(Online') - Len(m_QueuedPlayer')
<1>1. /\ m_sessions' \in [Accounts -> Sessions \cup {NoSession}]
      /\ m_QueuedPlayer' \in Seq(Sessions) /\ IsInjective(m_QueuedPlayer')
      /\ \A a \in Accounts : m_sessions'[a] # NoSession => m_sessions'[a][1] = a
      /\ Range(m_QueuedPlayer') \subseteq
           {m_sessions'[a] : a \in {b \in Accounts : m_sessions'[b] # NoSession}}
  BY DEF TypeInv, ListsInv, Online, Listed, GetAccountId
<1>2. Len(m_QueuedPlayer') \in Nat
  BY <1>1, QueueFacts
<1> QED
  BY <1>1, <1>2, ActiveCount DEF Online, Active, Listed

\* The queue UpdateSessions leaves: either only the dropped session left it, and
\* then for want of room, or one or two were let in, and never more than there is
\* room for once the session is gone.
LEMMA WithoutFacts ==
    ASSUME Inv, NEW a \in Online, NEW r, r = QueueWithout(m_sessions[a]),
           NEW base \in Int,
           base = IF m_sessions[a] \in Range(m_QueuedPlayer)
                  THEN Len(m_QueuedPlayer) - 1 ELSE Len(m_QueuedPlayer)
    PROVE  /\ base \in Nat /\ base < Cardinality(Online)
           /\ r \in Seq(Sessions) /\ IsInjective(r) /\ Len(r) \in Nat
           /\ Range(r) \subseteq Range(m_QueuedPlayer) /\ m_sessions[a] \notin Range(r)
           /\ Len(r) <= base
           /\ \/ Len(r) < base
              \/ Len(r) = 0
              \/ m_playerLimit > 0 /\ Cardinality(Online) > Len(r) + m_playerLimit
           /\ \/ Range(r) = Range(m_QueuedPlayer) \ {m_sessions[a]}
              \/ m_playerLimit = 0
              \/ Cardinality(Online) <= Len(r) + 1 + m_playerLimit
<1> DEFINE q == m_QueuedPlayer
           s == m_sessions[a]
           n == Cardinality(Online)
<1>1. /\ n \in Nat /\ Len(q) \in Nat /\ Cardinality(Active) \in Nat
      /\ Cardinality(Active) = n - Len(q) /\ IsFiniteSet(Active)
  BY StateCount DEF Inv
<1>2. s \in Listed /\ q \in Seq(Sessions) /\ IsInjective(q) /\ m_playerLimit \in Nat
  BY DEF Listed, Inv, TypeInv, ListsInv
<1>3. base \in Nat /\ base < n
  <2>1. CASE s \in Range(q)
    <3>1. q # <<>> /\ Len(q) > 0
      BY <1>2, <2>1, QueueFacts DEF Range
    <3> QED
      BY <1>1, <2>1, <3>1
  <2>2. CASE s \notin Range(q)
    <3>1. s \in Active
      BY <1>2, <2>2 DEF Active
    <3>2. Cardinality(Active) # 0
      BY <1>1, <3>1, FS_EmptySet
    <3> QED
      BY <1>1, <2>2, <3>2
  <2> QED
    BY <2>1, <2>2
<1> HIDE DEF q, s, n
<1>4. PICK f : f = RemoveQueuedPlayer(q, n, s)
  OBVIOUS
<1>5. r = RemoveQueuedPlayer(f, n, s)
  BY <1>4 DEF q, s, n, QueueWithout, GetActiveAndQueuedSessionCount
<1>6. (s \in Range(q) => base = Len(q) - 1) /\ (s \notin Range(q) => base = Len(q))
  BY DEF q, s
<1>7. TypeInv
  BY DEF Inv
<1>8. /\ f \in Seq(Sessions) /\ IsInjective(f) /\ Len(f) \in Nat
      /\ Range(f) \subseteq Range(q) /\ s \notin Range(f)
      /\ \/ /\ Len(f) = base /\ Range(f) = Range(q) \ {s}
            /\ base = 0 \/ (m_playerLimit > 0 /\ n > base + m_playerLimit)
         \/ /\ Len(f) = base - 1 /\ base > 0
            /\ m_playerLimit = 0 \/ n <= base + m_playerLimit
  <2>1. PICK total \in Nat, queue \in Seq(Sessions), k \in Nat :
          total = n /\ queue = q /\ k = base
    BY <1>1, <1>2, <1>3
  <2>2. IsInjective(queue) /\ k < total /\ f = RemoveQueuedPlayer(queue, total, s)
    BY <1>2, <1>3, <1>4, <2>1
  <2>3. (s \in Range(queue) => k = Len(queue) - 1) /\ (s \notin Range(queue) => k = Len(queue))
    BY <1>6, <2>1
  <2>4. /\ f \in Seq(Sessions) /\ IsInjective(f) /\ Len(f) \in Nat
        /\ Range(f) \subseteq Range(queue) /\ s \notin Range(f)
        /\ \/ /\ Len(f) = k /\ Range(f) = Range(queue) \ {s}
              /\ k = 0 \/ (m_playerLimit > 0 /\ total > k + m_playerLimit)
           \/ /\ Len(f) = k - 1 /\ k > 0
              /\ m_playerLimit = 0 \/ total <= k + m_playerLimit
    BY <1>7, <2>2, <2>3, RemovedFacts
  <2> QED
    BY <2>1, <2>4
<1>9. PICK next \in Nat : next = Len(f) /\ next < n
  BY <1>1, <1>3, <1>8
<1>10. (s \in Range(f) => next = Len(f) - 1) /\ (s \notin Range(f) => next = Len(f))
  BY <1>8, <1>9
<1>11. /\ r \in Seq(Sessions) /\ IsInjective(r) /\ Len(r) \in Nat
       /\ Range(r) \subseteq Range(f) /\ s \notin Range(r)
       /\ \/ /\ Len(r) = next /\ Range(r) = Range(f) \ {s}
             /\ next = 0 \/ (m_playerLimit > 0 /\ n > next + m_playerLimit)
          \/ /\ Len(r) = next - 1 /\ next > 0
             /\ m_playerLimit = 0 \/ n <= next + m_playerLimit
  BY <1>1, <1>5, <1>7, <1>8, <1>9, <1>10, RemovedFacts
<1>12. Len(r) <= base /\ Range(r) \subseteq Range(q)
  BY <1>3, <1>8, <1>9, <1>11
<1>13. \/ Len(r) < base
       \/ Len(r) = 0
       \/ m_playerLimit > 0 /\ n > Len(r) + m_playerLimit
  BY <1>1, <1>2, <1>3, <1>8, <1>9, <1>11
<1>14. \/ Range(r) = Range(q) \ {s}
       \/ m_playerLimit = 0
       \/ n <= Len(r) + 1 + m_playerLimit
  BY <1>1, <1>2, <1>3, <1>8, <1>9, <1>11
<1> QED
  BY <1>3, <1>11, <1>12, <1>13, <1>14 DEF q, s, n

-----------------------------------------------------------------------------
(* AddSession_: the newcomer, the session of its account, what is left of   *)
(* the queue when that session is gone, and whether the server is full.     *)

NewSession == Head(addSessQueue)
NewAccount == GetAccountId(NewSession)
OldSession == m_sessions[NewAccount]
RestQueue == IF OldSession = NoSession THEN m_QueuedPlayer
             ELSE RemoveQueuedPlayer(m_QueuedPlayer, Cardinality(Online), OldSession)
ServerFull ==
    /\ m_playerLimit > 0
    /\ CountFor(OldSession, Cardinality(Online \cup {NewAccount})) >= m_playerLimit

\* The three ways AddSession_ ends: the newcomer is queued, let in by permission
\* or a recent disconnect although the server is full, or let in.
LEMMA AddEffect ==
    ASSUME AddSession_
    PROVE  /\ addSessQueue # <<>> /\ addSessQueue' = Tail(addSessQueue)
           /\ m_sessions' = [m_sessions EXCEPT ![NewAccount] = NewSession]
           /\ alive' = alive \ {OldSession} /\ closed' = closed \ {OldSession}
           /\ UNCHANGED <<m_playerLimit, changes, used>>
           /\ \/ /\ ServerFull /\ m_QueuedPlayer' = Append(RestQueue, NewSession)
                 /\ privileged' = privileged \ {OldSession}
              \/ /\ ServerFull /\ m_QueuedPlayer' = RestQueue
                 /\ privileged' = (privileged \cup {NewSession}) \ {OldSession}
              \/ /\ ~ServerFull /\ m_QueuedPlayer' = RestQueue
                 /\ privileged' = privileged \ {OldSession}
<1>1. PICK elapsed \in 0..MaxElapsed :
        LET skips == NewAccount \in SkipQueue \/ HasRecentlyDisconnected(NewAccount, elapsed)
        IN  /\ m_sessions' = [m_sessions EXCEPT ![NewAccount] = NewSession]
            /\ m_QueuedPlayer' = IF ServerFull /\ ~skips THEN Append(RestQueue, NewSession)
                                 ELSE RestQueue
            /\ privileged' = (IF ServerFull /\ skips THEN privileged \cup {NewSession}
                              ELSE privileged) \ {OldSession}
            /\ alive' = alive \ {OldSession}
            /\ closed' = closed \ {OldSession}
  BY Zenon DEF AddSession_, NewSession, NewAccount, OldSession, RestQueue, ServerFull,
         GetActiveAndQueuedSessionCount
<1>2. /\ addSessQueue # <<>> /\ addSessQueue' = Tail(addSessQueue)
      /\ UNCHANGED <<m_playerLimit, changes, used>>
  BY DEF AddSession_, limitVars
<1> DEFINE skips == NewAccount \in SkipQueue \/ HasRecentlyDisconnected(NewAccount, elapsed)
<1>3. CASE ServerFull /\ ~skips
  BY <1>1, <1>2, <1>3
<1>4. CASE ServerFull /\ skips
  BY <1>1, <1>2, <1>4
<1>5. CASE ~ServerFull
  BY <1>1, <1>2, <1>5
<1> QED
  BY <1>3, <1>4, <1>5

\* The newcomer is not listed yet, and the old session leaves every list.
LEMMA AddedLists ==
    ASSUME Inv, addSessQueue # <<>>,
           m_sessions' = [m_sessions EXCEPT ![NewAccount] = NewSession]
    PROVE  /\ NewSession \in Sessions /\ NewAccount \in Accounts
           /\ NewSession \in Range(addSessQueue)
           /\ NewSession \notin Listed /\ NewSession # OldSession
           /\ Tail(addSessQueue) \in Seq(Sessions) /\ IsInjective(Tail(addSessQueue))
           /\ Range(Tail(addSessQueue)) = Range(addSessQueue) \ {NewSession}
           /\ m_sessions' \in [Accounts -> Sessions \cup {NoSession}]
           /\ Online' = Online \cup {NewAccount}
           /\ Listed' = (Listed \ {OldSession}) \cup {NewSession}
           /\ \A a \in Online' : GetAccountId(m_sessions'[a]) = a
           /\ OldSession # NoSession <=> NewAccount \in Online
           /\ OldSession # NoSession => OldSession \in Listed
<1>1. /\ addSessQueue \in Seq(Sessions) /\ IsInjective(addSessQueue)
      /\ m_sessions \in [Accounts -> Sessions \cup {NoSession}]
      /\ \A a \in Online : GetAccountId(m_sessions[a]) = a
      /\ Range(addSessQueue) \cap Listed = {}
  BY DEF Inv, TypeInv, ListsInv
<1>2. /\ Tail(addSessQueue) \in Seq(Sessions) /\ IsInjective(Tail(addSessQueue))
      /\ NewSession \in Range(addSessQueue)
      /\ Range(Tail(addSessQueue)) = Range(addSessQueue) \ {NewSession}
  BY <1>1, TailFacts DEF NewSession
<1>3. NewSession \in Sessions
  BY <1>1, <1>2, QueueFacts
<1>4. NewAccount \in Accounts /\ NewSession # NoSession
  BY <1>3, LoginQueueAssumption DEF Sessions, NewAccount, GetAccountId
<1>5. /\ m_sessions' \in [Accounts -> Sessions \cup {NoSession}]
      /\ m_sessions'[NewAccount] = NewSession
      /\ \A a \in Accounts \ {NewAccount} : m_sessions'[a] = m_sessions[a]
  BY <1>1, <1>3, <1>4
<1>6. Online' = Online \cup {NewAccount}
  BY <1>4, <1>5 DEF Online
<1>7. /\ OldSession # NoSession <=> NewAccount \in Online
      /\ OldSession # NoSession => OldSession \in Listed
  BY <1>4 DEF OldSession, Online, Listed
<1>8. NewSession \notin Listed
  BY <1>1, <1>2
<1>9. NewSession # OldSession
  BY <1>4, <1>7, <1>8
<1>10. \A a \in Online' : GetAccountId(m_sessions'[a]) = a
  BY <1>1, <1>5, <1>6 DEF NewAccount, Online
<1>11. \A a \in Online \ {NewAccount} : m_sessions[a] # OldSession
  BY <1>1, <1>7 DEF OldSession, Online
<1>12. Listed' = {m_sessions'[a] : a \in Online \cup {NewAccount}}
  BY <1>6 DEF Listed
<1>13. {m_sessions'[a] : a \in Online \cup {NewAccount}}
         = {m_sessions[a] : a \in Online \ {NewAccount}} \cup {NewSession}
  BY <1>4, <1>5 DEF Online
<1>14. {m_sessions[a] : a \in Online \ {NewAccount}} = Listed \ {OldSession}
  BY <1>11 DEF Listed, OldSession
<1> QED
  BY <1>2, <1>3, <1>4, <1>5, <1>6, <1>7, <1>8, <1>9, <1>10, <1>12, <1>13, <1>14

\* What AddSession_ finds: no session of the account, one in the queue or an active
\* one.  In each case the newcomer is compared with as many sessions as there are
\* others, and the first in the queue has been let in only if there was a place.
LEMMA RestFacts ==
    ASSUME Inv, AddSession_
    PROVE  /\ RestQueue \in Seq(Sessions) /\ IsInjective(RestQueue)
           /\ Len(RestQueue) \in Nat
           /\ Range(RestQueue) \subseteq Range(m_QueuedPlayer)
           /\ OldSession \notin Range(RestQueue)
           /\ \/ /\ OldSession = NoSession /\ RestQueue = m_QueuedPlayer
                 /\ Cardinality(Online') = Cardinality(Online) + 1
                 /\ ServerFull <=> m_playerLimit > 0 /\ Cardinality(Online) >= m_playerLimit
              \/ /\ OldSession \in Range(m_QueuedPlayer) /\ Online' = Online
                 /\ m_QueuedPlayer # <<>>
                 /\ ServerFull <=> m_playerLimit > 0 /\ Cardinality(Online) >= m_playerLimit
                 /\ \/ /\ Len(RestQueue) = Len(m_QueuedPlayer) - 1
                       /\ Range(RestQueue) = Range(m_QueuedPlayer) \ {OldSession}
                    \/ /\ Len(RestQueue) = Len(m_QueuedPlayer) - 2
                       /\ m_playerLimit = 0 \/
                            Cardinality(Online) + 1 <= Len(m_QueuedPlayer) + m_playerLimit
              \/ /\ OldSession \in Active /\ Online' = Online
                 /\ ServerFull <=> m_playerLimit > 0 /\ Cardinality(Online) > m_playerLimit
                 /\ \/ /\ Len(RestQueue) = Len(m_QueuedPlayer)
                       /\ Range(RestQueue) = Range(m_QueuedPlayer)
                       /\ m_QueuedPlayer = <<>> \/
                            (m_playerLimit > 0 /\
                             Cardinality(Online) > Len(m_QueuedPlayer) + m_playerLimit)
                    \/ /\ Len(RestQueue) = Len(m_QueuedPlayer) - 1
                       /\ m_QueuedPlayer # <<>>
                       /\ m_playerLimit = 0 \/
                            Cardinality(Online) <= Len(m_QueuedPlayer) + m_playerLimit
<1> DEFINE q == m_QueuedPlayer
           n == Cardinality(Online)
           old == OldSession
           total == Cardinality(Online \cup {NewAccount})
<1>1. /\ n \in Nat /\ Len(q) \in Nat /\ Cardinality(Active) \in Nat
      /\ Cardinality(Active) = n - Len(q) /\ IsFiniteSet(Active) /\ IsFiniteSet(Online)
  BY StateCount DEF Inv
<1>2. /\ Online' = Online \cup {NewAccount}
      /\ old # NoSession <=> NewAccount \in Online
      /\ old # NoSession => old \in Listed
  BY AddEffect, AddedLists
<1>3. /\ q \in Seq(Sessions) /\ IsInjective(q) /\ m_playerLimit \in Nat /\ TypeInv
      /\ NoSession \notin Sessions
  BY LoginQueueAssumption DEF Inv, TypeInv, ListsInv, Sessions
<1>4. /\ Range(q) \subseteq Sessions
      /\ q = <<>> <=> Len(q) = 0
      /\ \A x \in Range(q) : Len(q) > 0
  BY <1>3, QueueFacts DEF Range
<1>5. CASE old = NoSession
  <2>1. total = n + 1
    BY <1>1, <1>2, <1>5, FS_AddElement
  <2>2. old \notin Range(q)
    BY <1>3, <1>4, <1>5
  <2>3. ServerFull <=> m_playerLimit > 0 /\ n >= m_playerLimit
    <3>1. CountFor(old, total) = n
      BY <1>1, <2>1, <2>2 DEF CountFor
    <3> QED
      BY <3>1 DEF ServerFull
  <2>4. RestQueue = q
    BY <1>5 DEF RestQueue
  <2> QED
    BY <1>1, <1>2, <1>3, <1>5, <2>1, <2>2, <2>3, <2>4
<1>6. ASSUME old # NoSession
      PROVE  Online' = Online /\ total = n /\ old \in Listed
             /\ RestQueue = RemoveQueuedPlayer(q, n, old)
  <2>1. Online \cup {NewAccount} = Online
    BY <1>2, <1>6
  <2> QED
    BY <1>2, <1>6, <2>1 DEF RestQueue
<1>7. CASE old # NoSession /\ old \in Range(q)
  <2>1. PICK base \in Nat : base = Len(q) - 1 /\ base < n
    <3>1. Len(q) > 0
      BY <1>4, <1>7
    <3>2. Len(q) - 1 \in Nat /\ Len(q) - 1 < n
      BY <1>1, <3>1
    <3> QED
      BY <3>2
  <2>2. ServerFull <=> m_playerLimit > 0 /\ n >= m_playerLimit
    BY <1>6, <1>7 DEF ServerFull, CountFor
  <2> HIDE DEF q, n, old, total
  <2>3. /\ RestQueue \in Seq(Sessions) /\ IsInjective(RestQueue) /\ Len(RestQueue) \in Nat
        /\ Range(RestQueue) \subseteq Range(q) /\ old \notin Range(RestQueue)
        /\ \/ /\ Len(RestQueue) = base /\ Range(RestQueue) = Range(q) \ {old}
              /\ base = 0 \/ (m_playerLimit > 0 /\ n > base + m_playerLimit)
           \/ /\ Len(RestQueue) = base - 1 /\ base > 0
              /\ m_playerLimit = 0 \/ n <= base + m_playerLimit
    BY <1>1, <1>3, <1>6, <1>7, <2>1, RemovedFacts
  <2>4. n <= base + m_playerLimit => n + 1 <= Len(q) + m_playerLimit
    BY <1>1, <1>3, <2>1
  <2>5. base - 1 = Len(q) - 2
    BY <1>1, <2>1
  <2> QED
    BY <1>4, <1>6, <1>7, <2>1, <2>2, <2>3, <2>4, <2>5 DEF q, n, old
<1>8. CASE old # NoSession /\ old \notin Range(q)
  <2>1. old \in Active
    BY <1>6, <1>8 DEF Active
  <2>2. PICK base \in Nat : base = Len(q) /\ base < n
    <3>1. Cardinality(Active) # 0
      BY <1>1, <2>1, FS_EmptySet
    <3> QED
      BY <1>1, <3>1
  <2>3. ServerFull <=> m_playerLimit > 0 /\ n > m_playerLimit
    <3>1. CountFor(old, total) = n - 1
      BY <1>6, <1>8 DEF CountFor
    <3> QED
      BY <1>1, <1>3, <3>1 DEF ServerFull
  <2> HIDE DEF q, n, old, total
  <2>4. /\ RestQueue \in Seq(Sessions) /\ IsInjective(RestQueue) /\ Len(RestQueue) \in Nat
        /\ Range(RestQueue) \subseteq Range(q) /\ old \notin Range(RestQueue)
        /\ \/ /\ Len(RestQueue) = base /\ Range(RestQueue) = Range(q) \ {old}
              /\ base = 0 \/ (m_playerLimit > 0 /\ n > base + m_playerLimit)
           \/ /\ Len(RestQueue) = base - 1 /\ base > 0
              /\ m_playerLimit = 0 \/ n <= base + m_playerLimit
    BY <1>1, <1>3, <1>6, <1>8, <2>2, RemovedFacts
  <2>5. Range(q) \ {old} = Range(q)
    BY <1>8
  <2>6. base > 0 => q # <<>>
    BY <1>4, <2>2
  <2> QED
    BY <1>4, <1>6, <1>8, <2>1, <2>2, <2>3, <2>4, <2>5, <2>6 DEF q, n, old
<1> QED
  BY <1>5, <1>7, <1>8

-----------------------------------------------------------------------------
(* The lists. *)

LEMMA ListsInit == Init => TypeInv /\ ListsInv
<1> SUFFICES ASSUME Init PROVE TypeInv /\ ListsInv
  OBVIOUS
<1>1. Online = {} /\ Listed = {}
  BY DEF Init, Online, Listed
<1>2. IsInjective(<<>>) /\ Range(<<>>) = {}
  BY DEF IsInjective, Range
<1>3. TypeInv
  BY LoginQueueAssumption DEF Init, TypeInv
<1>4. ListsInv
  BY <1>1, <1>2 DEF Init, ListsInv
<1> QED
  BY <1>3, <1>4

\* AddSession_ keeps the lists apart: what it deletes has left them all.
LEMMA ListsAdd ==
    ASSUME Inv, AddSession_
    PROVE  TypeInv' /\ ListsInv'
<1>1. /\ addSessQueue # <<>> /\ addSessQueue' = Tail(addSessQueue)
      /\ m_sessions' = [m_sessions EXCEPT ![NewAccount] = NewSession]
      /\ alive' = alive \ {OldSession} /\ closed' = closed \ {OldSession}
      /\ UNCHANGED <<m_playerLimit, changes, used>>
      /\ m_QueuedPlayer' = Append(RestQueue, NewSession) \/ m_QueuedPlayer' = RestQueue
  BY AddEffect
<1>2. /\ NewSession \in Sessions /\ NewSession \in Range(addSessQueue)
      /\ NewSession \notin Listed /\ NewSession # OldSession
      /\ Tail(addSessQueue) \in Seq(Sessions) /\ IsInjective(Tail(addSessQueue))
      /\ Range(Tail(addSessQueue)) = Range(addSessQueue) \ {NewSession}
      /\ m_sessions' \in [Accounts -> Sessions \cup {NoSession}]
      /\ Listed' = (Listed \ {OldSession}) \cup {NewSession}
      /\ \A a \in Online' : GetAccountId(m_sessions'[a]) = a
      /\ OldSession # NoSession => OldSession \in Listed
  BY <1>1, AddedLists
<1>3. /\ RestQueue \in Seq(Sessions) /\ IsInjective(RestQueue)
      /\ Range(RestQueue) \subseteq Range(m_QueuedPlayer)
      /\ OldSession \notin Range(RestQueue)
  BY RestFacts
<1>4. /\ Range(addSessQueue) \cup Listed \subseteq alive /\ alive \in SUBSET Sessions
      /\ Range(m_QueuedPlayer) \subseteq Listed
      /\ Range(addSessQueue) \cap Listed = {}
  BY DEF Inv, TypeInv, ListsInv
<1>5. /\ m_QueuedPlayer' \in Seq(Sessions) /\ IsInjective(m_QueuedPlayer')
      /\ Range(m_QueuedPlayer') \subseteq Listed'
  <2>1. Range(RestQueue) \subseteq Listed' /\ NewSession \in Listed'
        /\ NewSession \notin Range(RestQueue)
    BY <1>2, <1>3, <1>4
  <2>2. CASE m_QueuedPlayer' = RestQueue
    BY <1>3, <2>1, <2>2
  <2>3. CASE m_QueuedPlayer' = Append(RestQueue, NewSession)
    <3>1. /\ Append(RestQueue, NewSession) \in Seq(Sessions)
          /\ IsInjective(Append(RestQueue, NewSession))
          /\ Range(Append(RestQueue, NewSession)) = Range(RestQueue) \cup {NewSession}
      BY <1>2, <1>3, <2>1, AppendFacts
    <3> QED
      BY <2>1, <2>3, <3>1
  <2> QED
    BY <1>1, <2>2, <2>3
<1>6. NoSession \notin Sessions
  BY LoginQueueAssumption DEF Sessions
<1>7. OldSession \notin Range(addSessQueue)
  <2>1. Range(addSessQueue) \subseteq Sessions
    BY <1>4
  <2> QED
    BY <1>2, <1>4, <1>6, <2>1
<1>8. /\ Range(addSessQueue') \cup Listed' \subseteq alive'
      /\ Range(addSessQueue') \cap Listed' = {}
  <2>1. Range(addSessQueue') = Range(addSessQueue) \ {NewSession}
    BY <1>1, <1>2
  <2> QED
    BY <1>1, <1>2, <1>4, <1>7, <2>1
<1>9. TypeInv'
  BY <1>1, <1>2, <1>5 DEF Inv, TypeInv
<1>10. IsInjective(addSessQueue')
  BY <1>1, <1>2
<1>11. ListsInv'
  BY <1>2, <1>5, <1>8, <1>10 DEF ListsInv
<1> QED
  BY <1>9, <1>11

\* What UpdateSessions changes when it drops the session of a.
LEMMA DropEffect ==
    ASSUME Inv, NEW a \in Accounts, DropSession(a)
    PROVE  /\ a \in Online /\ m_sessions[a] \in Listed /\ m_sessions[a] \in Sessions
           /\ Online' = Online \ {a} /\ Listed' = Listed \ {m_sessions[a]}
           /\ Cardinality(Online') = Cardinality(Online) - 1
           /\ m_sessions' \in [Accounts -> Sessions \cup {NoSession}]
           /\ \A b \in Online' : GetAccountId(m_sessions'[b]) = b
           /\ m_QueuedPlayer' = QueueWithout(m_sessions[a])
           /\ alive' = alive \ {m_sessions[a]} /\ closed' = closed \ {m_sessions[a]}
           /\ privileged' = privileged \ {m_sessions[a]}
           /\ UNCHANGED <<addSessQueue, m_playerLimit, changes, used>>
<1>1. /\ m_sessions[a] \in closed
      /\ m_sessions' = [m_sessions EXCEPT ![a] = NoSession]
      /\ m_QueuedPlayer' = QueueWithout(m_sessions[a])
      /\ alive' = alive \ {m_sessions[a]} /\ closed' = closed \ {m_sessions[a]}
      /\ privileged' = privileged \ {m_sessions[a]}
      /\ UNCHANGED <<addSessQueue, m_playerLimit, changes, used>>
  BY DEF DropSession, limitVars
<1>2. /\ m_sessions \in [Accounts -> Sessions \cup {NoSession}]
      /\ closed \in SUBSET Sessions /\ NoSession \notin Sessions
      /\ \A b \in Online : GetAccountId(m_sessions[b]) = b
  BY LoginQueueAssumption DEF Inv, TypeInv, ListsInv, Sessions
<1>3. m_sessions[a] \in Sessions /\ a \in Online /\ m_sessions[a] \in Listed
  BY <1>1, <1>2 DEF Online, Listed
<1>4. /\ m_sessions' \in [Accounts -> Sessions \cup {NoSession}]
      /\ m_sessions'[a] = NoSession
      /\ \A b \in Accounts \ {a} : m_sessions'[b] = m_sessions[b]
  BY <1>1, <1>2
<1>5. Online' = Online \ {a}
  BY <1>4 DEF Online
<1>6. \A b \in Online' : m_sessions'[b] = m_sessions[b] /\ GetAccountId(m_sessions'[b]) = b
  BY <1>2, <1>4, <1>5 DEF Online
<1>7. \A b \in Online \ {a} : m_sessions[b] # m_sessions[a]
  BY <1>2, <1>3
<1>8. Listed' = Listed \ {m_sessions[a]}
  <2>1. Listed' = {m_sessions'[b] : b \in Online'}
    BY DEF Listed
  <2>2. {m_sessions'[b] : b \in Online'} = {m_sessions[b] : b \in Online \ {a}}
    BY <1>5, <1>6
  <2>3. {m_sessions[b] : b \in Online \ {a}} = Listed \ {m_sessions[a]}
    BY <1>7 DEF Listed
  <2> QED
    BY <2>1, <2>2, <2>3
<1>9. Cardinality(Online') = Cardinality(Online) - 1
  <2>1. IsFiniteSet(Online)
    BY StateCount DEF Inv
  <2> QED
    BY <1>3, <1>5, <2>1, FS_RemoveElement
<1> QED
  BY <1>1, <1>3, <1>4, <1>5, <1>6, <1>8, <1>9

\* So does the second loop of UpdateSessions.
LEMMA ListsDrop ==
    ASSUME Inv, NEW a \in Accounts, DropSession(a)
    PROVE  TypeInv' /\ ListsInv'
<1> DEFINE s == m_sessions[a]
<1>1. /\ a \in Online /\ s \in Listed
      /\ Listed' = Listed \ {s}
      /\ m_sessions' \in [Accounts -> Sessions \cup {NoSession}]
      /\ \A b \in Online' : GetAccountId(m_sessions'[b]) = b
      /\ m_QueuedPlayer' = QueueWithout(s)
      /\ alive' = alive \ {s} /\ closed' = closed \ {s}
      /\ UNCHANGED <<addSessQueue, m_playerLimit, changes, used>>
  BY DropEffect
<1>2. PICK base \in Int : base = IF s \in Range(m_QueuedPlayer)
                                 THEN Len(m_QueuedPlayer) - 1 ELSE Len(m_QueuedPlayer)
  <2>1. Len(m_QueuedPlayer) \in Int /\ Len(m_QueuedPlayer) - 1 \in Int
    BY StateCount DEF Inv
  <2> QED
    BY <2>1
<1>3. /\ m_QueuedPlayer' \in Seq(Sessions) /\ IsInjective(m_QueuedPlayer')
      /\ Range(m_QueuedPlayer') \subseteq Range(m_QueuedPlayer)
      /\ s \notin Range(m_QueuedPlayer')
  BY <1>1, <1>2, WithoutFacts
<1>4. /\ Range(addSessQueue) \cup Listed \subseteq alive
      /\ Range(m_QueuedPlayer) \subseteq Listed
      /\ Range(addSessQueue) \cap Listed = {} /\ IsInjective(addSessQueue)
  BY DEF Inv, ListsInv
<1> HIDE DEF s
<1>5. TypeInv'
  BY <1>1, <1>3 DEF Inv, TypeInv
<1>6. /\ Range(addSessQueue') \cup Listed' \subseteq alive'
      /\ Range(m_QueuedPlayer') \subseteq Listed'
      /\ Range(addSessQueue') \cap Listed' = {} /\ IsInjective(addSessQueue')
  BY <1>1, <1>3, <1>4
<1>7. ListsInv'
  BY <1>1, <1>3, <1>6 DEF ListsInv
<1> QED
  BY <1>5, <1>7

\* The lists stay apart on every step.
LEMMA ListsNext ==
    ASSUME Inv, [Next]_vars
    PROVE  TypeInv' /\ ListsInv'
<1>0. TypeInv /\ ListsInv
  BY DEF Inv
<1>1. ASSUME NEW s \in Sessions, AddSession(s)
      PROVE  TypeInv' /\ ListsInv'
  <2>1. /\ s \notin alive /\ alive' = alive \cup {s}
        /\ addSessQueue' = Append(addSessQueue, s)
        /\ UNCHANGED <<m_sessions, m_QueuedPlayer, closed, m_playerLimit, changes, used>>
    BY <1>1 DEF AddSession, limitVars
  <2>2. s \notin Range(addSessQueue) /\ s \notin Listed
    BY <1>0, <2>1 DEF ListsInv
  <2>3. /\ addSessQueue' \in Seq(Sessions) /\ IsInjective(addSessQueue')
        /\ Range(addSessQueue') = Range(addSessQueue) \cup {s}
    BY <1>0, <2>1, <2>2, AppendFacts DEF TypeInv, ListsInv
  <2>4. Online' = Online /\ Listed' = Listed
    BY <2>1 DEF Online, Listed
  <2>5. TypeInv'
    BY <1>0, <2>1, <2>3 DEF TypeInv
  <2>6. ListsInv'
    BY <1>0, <2>1, <2>2, <2>3, <2>4 DEF ListsInv
  <2> QED
    BY <2>5, <2>6
<1>2. CASE RefuseSession
  <2>1. /\ addSessQueue # <<>> /\ addSessQueue' = Tail(addSessQueue)
        /\ alive' = alive \ {Head(addSessQueue)}
        /\ closed' = closed \ {Head(addSessQueue)}
        /\ UNCHANGED <<m_sessions, m_QueuedPlayer, m_playerLimit, changes, used>>
    BY <1>2 DEF RefuseSession, limitVars
  <2>2. /\ addSessQueue' \in Seq(Sessions) /\ IsInjective(addSessQueue')
        /\ Head(addSessQueue) \in Range(addSessQueue)
        /\ Range(addSessQueue') = Range(addSessQueue) \ {Head(addSessQueue)}
    BY <1>0, <2>1, TailFacts DEF TypeInv, ListsInv
  <2>3. Online' = Online /\ Listed' = Listed
    BY <2>1 DEF Online, Listed
  <2>4. TypeInv'
    BY <1>0, <2>1, <2>2 DEF TypeInv
  <2>5. ListsInv'
    BY <1>0, <2>1, <2>2, <2>3 DEF ListsInv
  <2> QED
    BY <2>4, <2>5
<1>3. ASSUME NEW n \in Limits, SetPlayerAmountLimit(n)
      PROVE  TypeInv' /\ ListsInv'
  <2>1. /\ changes' = changes + 1 /\ m_playerLimit' = n /\ used' = used \cup {n}
        /\ UNCHANGED <<alive, addSessQueue, m_sessions, m_QueuedPlayer, closed>>
    BY <1>3 DEF SetPlayerAmountLimit
  <2>2. Online' = Online /\ Listed' = Listed
    BY <2>1 DEF Online, Listed
  <2>3. TypeInv'
    BY <1>0, <2>1, LoginQueueAssumption DEF TypeInv
  <2> QED
    BY <1>0, <2>1, <2>2, <2>3 DEF ListsInv
<1>4. ASSUME closed' \in SUBSET Sessions,
             UNCHANGED <<alive, addSessQueue, m_sessions, m_QueuedPlayer, m_playerLimit,
                         changes, used>>
      PROVE  TypeInv' /\ ListsInv'
  <2>1. Online' = Online /\ Listed' = Listed
    BY <1>4 DEF Online, Listed
  <2> QED
    BY <1>0, <1>4, <2>1 DEF TypeInv, ListsInv
<1>5. ASSUME NEW s \in Sessions, CloseSocket(s)
      PROVE  TypeInv' /\ ListsInv'
  BY <1>0, <1>4, <1>5 DEF CloseSocket, limitVars, TypeInv
<1>6. CASE StartUpdate \/ EndUpdate \/ UNCHANGED vars
  BY <1>0, <1>4, <1>6 DEF StartUpdate, EndUpdate, limitVars, vars, TypeInv
<1>7. ASSUME NEW a \in Accounts, KeepSession(a)
      PROVE  TypeInv' /\ ListsInv'
  BY <1>0, <1>4, <1>7 DEF KeepSession, limitVars, TypeInv
<1> QED
  BY <1>1, <1>2, <1>3, <1>5, <1>6, <1>7, ListsAdd, ListsDrop DEF Next

-----------------------------------------------------------------------------
(* The places. *)

\* What a step that leaves the limit alone must do to keep the places filled and not
\* overfilled: if somebody waits afterwards, somebody waited before and no place
\* became free, or the places are filled; and the sessions let in without privilege
\* are within the limit, or are no others than before.
LEMMA PlacesKept ==
    ASSUME Inv, TypeInv', ListsInv', UNCHANGED <<m_playerLimit, changes, used>>,
           m_QueuedPlayer' # <<>> =>
              \/ m_QueuedPlayer # <<>> /\ Cardinality(Active') >= Cardinality(Active)
              \/ m_playerLimit > 0 /\ Cardinality(Active') >= m_playerLimit,
           m_playerLimit # 0 =>
              \/ Cardinality(Active' \ privileged') <= m_playerLimit
              \/ Active' \ privileged' \subseteq Active \ privileged
    PROVE  PlacesInv'
<1>1. /\ Cardinality(Active) \in Nat /\ IsFiniteSet(Active)
      /\ Cardinality(Active') \in Nat /\ IsFiniteSet(Active')
  BY StateCount, NextCount DEF Inv
<1>2. /\ m_playerLimit \in used /\ used \in SUBSET Nat
      /\ SlotsFilledToLimit
      /\ changes = 0 => used = {m_playerLimit}
      /\ changes = 0 /\ m_QueuedPlayer # <<>> => m_playerLimit > 0
  BY DEF Inv, TypeInv, PlacesInv
<1>3. ASSUME m_QueuedPlayer' # <<>>
      PROVE  \E n \in used : Cardinality(Active') >= n
  <2>1. CASE m_QueuedPlayer # <<>> /\ Cardinality(Active') >= Cardinality(Active)
    <3>1. PICK n \in used : Cardinality(Active) >= n
      BY <1>2, <2>1 DEF SlotsFilledToLimit
    <3> QED
      BY <1>1, <1>2, <2>1, <3>1
  <2>2. CASE m_playerLimit > 0 /\ Cardinality(Active') >= m_playerLimit
    BY <1>2, <2>2
  <2> QED
    BY <1>3, <2>1, <2>2
<1>4. ASSUME 0 \notin used
      PROVE  \E n \in used : Cardinality(Active' \ privileged') <= n
  <2>1. CASE Cardinality(Active' \ privileged') <= m_playerLimit
    BY <1>2, <2>1
  <2>2. CASE Active' \ privileged' \subseteq Active \ privileged
    <3>1. PICK n \in used : Cardinality(Active \ privileged) <= n
      BY <1>2, <1>4 DEF SlotsFilledToLimit
    <3>2. IsFiniteSet(Active \ privileged)
      BY <1>1, FS_Subset, Active \ privileged \subseteq Active
    <3>3. /\ Cardinality(Active' \ privileged') <= Cardinality(Active \ privileged)
          /\ IsFiniteSet(Active' \ privileged')
      BY <2>2, <3>2, FS_Subset
    <3>4. /\ Cardinality(Active' \ privileged') \in Nat
          /\ Cardinality(Active \ privileged) \in Nat
      BY <3>2, <3>3, FS_CardinalityType
    <3> QED
      BY <1>2, <3>1, <3>3, <3>4
  <2> QED
    BY <1>2, <1>4, <2>1, <2>2
<1>5. SlotsFilledToLimit'
  BY <1>3, <1>4 DEF SlotsFilledToLimit
<1>6. changes' = 0 /\ m_QueuedPlayer' # <<>> => m_playerLimit' > 0
  BY <1>2
<1> QED
  BY <1>2, <1>5, <1>6 DEF PlacesInv

\* The sessions without privilege among some are no more than these, and fewer if one
\* of these is privileged.
LEMMA Unprivileged ==
    ASSUME NEW S, IsFiniteSet(S), NEW P
    PROVE  /\ Cardinality(S) \in Nat /\ Cardinality(S \ P) \in Nat
           /\ Cardinality(S \ P) <= Cardinality(S)
           /\ \A x \in S \cap P : Cardinality(S \ P) <= Cardinality(S) - 1
<1>1. /\ Cardinality(S) \in Nat /\ IsFiniteSet(S \ P)
      /\ Cardinality(S \ P) <= Cardinality(S)
  BY FS_CardinalityType, FS_Subset, S \ P \subseteq S
<1>2. Cardinality(S \ P) \in Nat
  BY <1>1, FS_CardinalityType
<1>3. ASSUME NEW x \in S \cap P
      PROVE  Cardinality(S \ P) <= Cardinality(S) - 1
  <2>1. IsFiniteSet(S \ {x}) /\ Cardinality(S \ {x}) = Cardinality(S) - 1
    BY FS_RemoveElement
  <2>2. S \ P \subseteq S \ {x}
    OBVIOUS
  <2>3. Cardinality(S \ P) <= Cardinality(S \ {x})
    BY <2>1, <2>2, FS_Subset
  <2> QED
    BY <2>1, <2>3
<1> QED
  BY <1>1, <1>2, <1>3

\* Dropping a session lets in as many as there are places, and no more.
LEMMA PlacesDrop ==
    ASSUME Inv, NEW a \in Accounts, DropSession(a)
    PROVE  PlacesInv'
<1> DEFINE s == m_sessions[a]
           q == m_QueuedPlayer
           n == Cardinality(Online)
<1>1. /\ a \in Online /\ s \in Listed /\ Listed' = Listed \ {s}
      /\ Cardinality(Online') = n - 1
      /\ m_QueuedPlayer' = QueueWithout(s) /\ privileged' = privileged \ {s}
      /\ UNCHANGED <<m_playerLimit, changes, used>>
  BY DropEffect
<1>2. TypeInv' /\ ListsInv'
  BY ListsDrop
<1>3. /\ n \in Nat /\ Len(q) \in Nat /\ Cardinality(Active) \in Nat
      /\ Cardinality(Active) = n - Len(q) /\ m_playerLimit \in Nat
  BY StateCount DEF Inv, TypeInv
<1>4. /\ Len(m_QueuedPlayer') \in Nat /\ IsFiniteSet(Active')
      /\ Cardinality(Active') \in Nat
      /\ Cardinality(Active') = n - 1 - Len(m_QueuedPlayer')
  BY <1>1, <1>2, NextCount
<1>5. PICK base \in Int : base = IF s \in Range(q) THEN Len(q) - 1 ELSE Len(q)
  <2>1. Len(q) \in Int /\ Len(q) - 1 \in Int
    BY <1>3
  <2> QED
    BY <2>1
<1>6. /\ base \in Nat
      /\ \/ Len(m_QueuedPlayer') < base
         \/ Len(m_QueuedPlayer') = 0
         \/ m_playerLimit > 0 /\ n > Len(m_QueuedPlayer') + m_playerLimit
      /\ \/ Range(m_QueuedPlayer') = Range(q) \ {s}
         \/ m_playerLimit = 0
         \/ n <= Len(m_QueuedPlayer') + 1 + m_playerLimit
  BY <1>1, <1>5, WithoutFacts
<1>7. /\ q = <<>> <=> Len(q) = 0
      /\ m_QueuedPlayer' = <<>> <=> Len(m_QueuedPlayer') = 0
  <2>1. q \in Seq(Sessions) /\ m_QueuedPlayer' \in Seq(Sessions)
    BY <1>2 DEF Inv, TypeInv
  <2> QED
    BY <2>1, QueueFacts
<1>8. base <= Len(q)
  BY <1>3, <1>5
<1>9. ASSUME m_QueuedPlayer' # <<>>
      PROVE  \/ q # <<>> /\ Cardinality(Active') >= Cardinality(Active)
             \/ m_playerLimit > 0 /\ Cardinality(Active') >= m_playerLimit
  <2>1. CASE Len(m_QueuedPlayer') < base
    BY <1>3, <1>4, <1>6, <1>7, <1>8, <2>1
  <2>2. CASE m_playerLimit > 0 /\ n > Len(m_QueuedPlayer') + m_playerLimit
    BY <1>3, <1>4, <2>2
  <2> QED
    BY <1>6, <1>7, <1>9, <2>1, <2>2
<1>10. ASSUME m_playerLimit # 0
       PROVE  \/ Cardinality(Active' \ privileged') <= m_playerLimit
              \/ Active' \ privileged' \subseteq Active \ privileged
  <2>1. CASE Range(m_QueuedPlayer') = Range(q) \ {s}
    BY <1>1, <2>1 DEF Active
  <2>2. CASE n <= Len(m_QueuedPlayer') + 1 + m_playerLimit
    <3>1. /\ Cardinality(Active' \ privileged') \in Nat
          /\ Cardinality(Active' \ privileged') <= Cardinality(Active')
      BY <1>4, Unprivileged
    <3>2. Cardinality(Active') <= m_playerLimit
      BY <1>3, <1>4, <2>2
    <3> QED
      BY <1>3, <1>4, <3>1, <3>2
  <2> QED
    BY <1>6, <1>10, <2>1, <2>2
<1> QED
  BY <1>1, <1>2, <1>9, <1>10, PlacesKept

\* If the server is full and nobody was let in from the queue, the sessions without
\* privilege after AddSession_ had a place before it.
LEMMA NobodyNew ==
    ASSUME Inv, AddSession_, ServerFull,
           Range(m_QueuedPlayer) \ {OldSession} \subseteq Range(RestQueue)
    PROVE  Active' \ privileged' \subseteq Active \ privileged
<1>1. /\ addSessQueue # <<>>
      /\ m_sessions' = [m_sessions EXCEPT ![NewAccount] = NewSession]
      /\ \/ /\ m_QueuedPlayer' = Append(RestQueue, NewSession)
            /\ privileged' = privileged \ {OldSession}
         \/ /\ m_QueuedPlayer' = RestQueue
            /\ privileged' = (privileged \cup {NewSession}) \ {OldSession}
  BY AddEffect
<1>2. /\ Listed' = (Listed \ {OldSession}) \cup {NewSession}
      /\ NewSession \in Sessions /\ NewSession \notin Listed /\ NewSession # OldSession
  BY <1>1, AddedLists
<1>3. /\ RestQueue \in Seq(Sessions) /\ IsInjective(RestQueue)
      /\ NewSession \notin Range(RestQueue)
  BY <1>2, RestFacts DEF Inv, ListsInv
<1>4. CASE /\ m_QueuedPlayer' = Append(RestQueue, NewSession)
           /\ privileged' = privileged \ {OldSession}
  <2>1. Range(m_QueuedPlayer') = Range(RestQueue) \cup {NewSession}
    BY <1>2, <1>3, <1>4, AppendFacts
  <2> QED
    BY <1>2, <1>4, <2>1 DEF Active
<1>5. CASE /\ m_QueuedPlayer' = RestQueue
           /\ privileged' = (privileged \cup {NewSession}) \ {OldSession}
  BY <1>2, <1>5 DEF Active
<1> QED
  BY <1>1, <1>4, <1>5

\* The three ways of AddSession_ as numbers.
LEMMA AddCounts ==
    ASSUME Inv, AddSession_
    PROVE  /\ Cardinality(Active) \in Nat /\ Cardinality(Active') \in Nat
           /\ Cardinality(Active) = Cardinality(Online) - Len(m_QueuedPlayer)
           /\ \/ /\ ServerFull /\ m_QueuedPlayer' # <<>>
                 /\ Cardinality(Active') = Cardinality(Online') - Len(RestQueue) - 1
              \/ /\ ServerFull
                 /\ NewSession \in Active' \cap privileged'
                 /\ m_QueuedPlayer' = RestQueue
                 /\ Cardinality(Active') = Cardinality(Online') - Len(RestQueue)
              \/ /\ ~ServerFull
                 /\ m_QueuedPlayer' = RestQueue
                 /\ Cardinality(Active') = Cardinality(Online') - Len(RestQueue)
<1>1. Cardinality(Active) \in Nat
      /\ Cardinality(Active) = Cardinality(Online) - Len(m_QueuedPlayer)
  BY StateCount DEF Inv
<1>2. /\ Cardinality(Active') \in Nat /\ Len(m_QueuedPlayer') \in Nat
      /\ Cardinality(Online') \in Nat
      /\ Cardinality(Active') = Cardinality(Online') - Len(m_QueuedPlayer')
  BY ListsAdd, NextCount
<1>3. /\ addSessQueue # <<>>
      /\ m_sessions' = [m_sessions EXCEPT ![NewAccount] = NewSession]
      /\ \/ ServerFull /\ m_QueuedPlayer' = Append(RestQueue, NewSession)
         \/ /\ ServerFull /\ m_QueuedPlayer' = RestQueue
            /\ privileged' = (privileged \cup {NewSession}) \ {OldSession}
         \/ ~ServerFull /\ m_QueuedPlayer' = RestQueue
  BY AddEffect
<1>4. /\ NewSession \in Listed' /\ NewSession # OldSession
      /\ NewSession \in Sessions /\ NewSession \notin Listed
  BY <1>3, AddedLists
<1>5. /\ RestQueue \in Seq(Sessions) /\ IsInjective(RestQueue)
      /\ Len(RestQueue) \in Nat /\ NewSession \notin Range(RestQueue)
  BY <1>4, RestFacts DEF Inv, ListsInv
<1>6. CASE ServerFull /\ m_QueuedPlayer' = Append(RestQueue, NewSession)
  <2>1. Len(m_QueuedPlayer') = Len(RestQueue) + 1
    BY <1>4, <1>5, <1>6, AppendFacts
  <2>2. m_QueuedPlayer' # <<>>
    BY <1>5, <2>1
  <2> QED
    BY <1>1, <1>2, <1>5, <1>6, <2>1, <2>2
<1>7. CASE /\ ServerFull /\ m_QueuedPlayer' = RestQueue
           /\ privileged' = (privileged \cup {NewSession}) \ {OldSession}
  <2>1. NewSession \in Active' \cap privileged'
    BY <1>4, <1>5, <1>7 DEF Active
  <2> QED
    BY <1>1, <1>2, <1>7, <2>1
<1>8. CASE ~ServerFull /\ m_QueuedPlayer' = RestQueue
  BY <1>1, <1>2, <1>8
<1> QED
  BY <1>3, <1>6, <1>7, <1>8

\* AddSession_: if somebody waits afterwards, the places are filled.
LEMMA AddFills ==
    ASSUME Inv, AddSession_, m_QueuedPlayer' # <<>>
    PROVE  \/ m_QueuedPlayer # <<>> /\ Cardinality(Active') >= Cardinality(Active)
           \/ m_playerLimit > 0 /\ Cardinality(Active') >= m_playerLimit
<1>1. /\ Cardinality(Online) \in Nat /\ Len(m_QueuedPlayer) \in Nat
      /\ m_playerLimit \in Nat /\ Len(RestQueue) \in Nat
      /\ m_QueuedPlayer = <<>> <=> Len(m_QueuedPlayer) = 0
      /\ RestQueue = <<>> <=> Len(RestQueue) = 0
  <2>1. RestQueue \in Seq(Sessions) /\ m_QueuedPlayer \in Seq(Sessions)
    BY RestFacts DEF Inv, TypeInv
  <2> QED
    BY <2>1, StateCount, QueueFacts DEF Inv, TypeInv
<1>2. CASE OldSession = NoSession /\ RestQueue = m_QueuedPlayer
           /\ Cardinality(Online') = Cardinality(Online) + 1
           /\ (ServerFull <=> m_playerLimit > 0 /\ Cardinality(Online) >= m_playerLimit)
  <2>1. CASE m_QueuedPlayer = <<>>
    BY <1>1, <1>2, <2>1, AddCounts
  <2>2. CASE m_QueuedPlayer # <<>>
    BY <1>1, <1>2, <2>2, AddCounts
  <2> QED
    BY <2>1, <2>2
<1>3. CASE Online' = Online /\ m_QueuedPlayer # <<>>
           /\ Len(RestQueue) <= Len(m_QueuedPlayer) - 1
  BY <1>1, <1>3, AddCounts
<1>4. CASE Online' = Online /\ Len(RestQueue) = Len(m_QueuedPlayer)
           /\ (ServerFull <=> m_playerLimit > 0 /\ Cardinality(Online) > m_playerLimit)
           /\ (m_QueuedPlayer = <<>> \/
                 (m_playerLimit > 0 /\
                  Cardinality(Online) > Len(m_QueuedPlayer) + m_playerLimit))
  <2>1. CASE m_QueuedPlayer = <<>>
    BY <1>1, <1>4, <2>1, AddCounts
  <2>2. CASE m_playerLimit > 0 /\
             Cardinality(Online) > Len(m_QueuedPlayer) + m_playerLimit
    <3>1. Cardinality(Active') >= Cardinality(Online) - Len(m_QueuedPlayer) - 1
      BY <1>1, <1>4, AddCounts
    <3> QED
      BY <1>1, <2>2, <3>1, AddCounts
  <2> QED
    BY <1>4, <2>1, <2>2
<1>5. \/ /\ OldSession = NoSession /\ RestQueue = m_QueuedPlayer
         /\ Cardinality(Online') = Cardinality(Online) + 1
         /\ ServerFull <=> m_playerLimit > 0 /\ Cardinality(Online) >= m_playerLimit
      \/ /\ Online' = Online /\ m_QueuedPlayer # <<>>
         /\ \/ Len(RestQueue) = Len(m_QueuedPlayer) - 1
            \/ Len(RestQueue) = Len(m_QueuedPlayer) - 2
      \/ /\ Online' = Online
         /\ ServerFull <=> m_playerLimit > 0 /\ Cardinality(Online) > m_playerLimit
         /\ \/ /\ Len(RestQueue) = Len(m_QueuedPlayer)
               /\ m_QueuedPlayer = <<>> \/
                    (m_playerLimit > 0 /\
                     Cardinality(Online) > Len(m_QueuedPlayer) + m_playerLimit)
            \/ Len(RestQueue) = Len(m_QueuedPlayer) - 1
  BY RestFacts, Zenon
<1>6. Len(RestQueue) = Len(m_QueuedPlayer) - 1 => m_QueuedPlayer # <<>>
  BY <1>1
<1>7. \/ Len(RestQueue) = Len(m_QueuedPlayer) - 1
      \/ Len(RestQueue) = Len(m_QueuedPlayer) - 2
      => Len(RestQueue) <= Len(m_QueuedPlayer) - 1
  BY <1>1
<1> QED
  BY <1>2, <1>3, <1>4, <1>5, <1>6, <1>7, Zenon

\* AddSession_: those let in without privilege are within the limit, or are no others
\* than before.
LEMMA AddWithin ==
    ASSUME Inv, AddSession_, m_playerLimit # 0
    PROVE  \/ Cardinality(Active' \ privileged') <= m_playerLimit
           \/ Active' \ privileged' \subseteq Active \ privileged
<1>1. /\ Cardinality(Online) \in Nat /\ Len(m_QueuedPlayer) \in Nat
      /\ m_playerLimit \in Nat /\ Len(RestQueue) \in Nat /\ m_playerLimit > 0
  BY StateCount, RestFacts DEF Inv, TypeInv
<1>2. /\ Cardinality(Active') \in Nat /\ Cardinality(Active' \ privileged') \in Nat
      /\ Cardinality(Active' \ privileged') <= Cardinality(Active')
      /\ NewSession \in Active' \cap privileged' =>
           Cardinality(Active' \ privileged') <= Cardinality(Active') - 1
  <2>1. IsFiniteSet(Active')
    BY ListsAdd, NextCount
  <2> QED
    BY <2>1, Unprivileged
<1>3. CASE Range(m_QueuedPlayer) \ {OldSession} \subseteq Range(RestQueue) /\ ServerFull
  BY <1>3, NobodyNew
<1>4. CASE ~ServerFull
  <2>1. Cardinality(Active') = Cardinality(Online') - Len(RestQueue)
    BY <1>4, AddCounts
  <2>2. Cardinality(Online') <= m_playerLimit
    <3>1. CASE /\ Cardinality(Online') = Cardinality(Online) + 1
               /\ ~(Cardinality(Online) >= m_playerLimit)
      BY <1>1, <3>1
    <3>2. CASE Online' = Online /\ ~(Cardinality(Online) > m_playerLimit)
      BY <1>1, <3>2
    <3>3. CASE Online' = Online /\ ~(Cardinality(Online) >= m_playerLimit)
      BY <1>1, <3>3
    <3> QED
      BY <1>1, <1>4, <3>1, <3>2, <3>3, RestFacts
  <2>3. Cardinality(Online') \in Nat
    BY ListsAdd, NextCount
  <2> QED
    BY <1>1, <1>2, <2>1, <2>2, <2>3
<1>5. CASE /\ ServerFull /\ Online' = Online
           /\ Len(RestQueue) = Len(m_QueuedPlayer) - 2
           /\ Cardinality(Online) + 1 <= Len(m_QueuedPlayer) + m_playerLimit
  <2>1. Cardinality(Active' \ privileged') <= Cardinality(Online) - Len(RestQueue) - 1
    BY <1>1, <1>2, <1>5, AddCounts
  <2> QED
    BY <1>1, <1>2, <1>5, <2>1
<1>6. CASE /\ ServerFull /\ Online' = Online
           /\ Len(RestQueue) = Len(m_QueuedPlayer) - 1
           /\ Cardinality(Online) <= Len(m_QueuedPlayer) + m_playerLimit
  <2>1. Cardinality(Active' \ privileged') <= Cardinality(Online) - Len(RestQueue) - 1
    BY <1>1, <1>2, <1>6, AddCounts
  <2> QED
    BY <1>1, <1>2, <1>6, <2>1
<1>7. ServerFull =>
        \/ Range(m_QueuedPlayer) \ {OldSession} \subseteq Range(RestQueue)
        \/ /\ Online' = Online
           /\ Len(RestQueue) = Len(m_QueuedPlayer) - 2
           /\ Cardinality(Online) + 1 <= Len(m_QueuedPlayer) + m_playerLimit
        \/ /\ Online' = Online
           /\ Len(RestQueue) = Len(m_QueuedPlayer) - 1
           /\ Cardinality(Online) <= Len(m_QueuedPlayer) + m_playerLimit
  BY RestFacts
<1> QED
  BY <1>3, <1>4, <1>5, <1>6, <1>7

\* The places stay filled and not overfilled on every step.
LEMMA PlacesNext ==
    ASSUME Inv, [Next]_vars
    PROVE  PlacesInv'
<1>1. TypeInv' /\ ListsInv'
  BY ListsNext
<1>2. CASE AddSession_
  <2>1. UNCHANGED <<m_playerLimit, changes, used>>
    BY <1>2, AddEffect
  <2> QED
    BY <1>1, <1>2, <2>1, AddFills, AddWithin, PlacesKept
<1>3. ASSUME NEW n \in Limits, SetPlayerAmountLimit(n)
      PROVE  PlacesInv'
  <2>1. /\ changes' = changes + 1 /\ used' = used \cup {n}
        /\ UNCHANGED <<m_sessions, m_QueuedPlayer, privileged>>
    BY <1>3 DEF SetPlayerAmountLimit
  <2>2. Active' = Active
    BY <2>1 DEF Active, Listed, Online
  <2>3. changes' # 0
    BY <2>1 DEF Inv, TypeInv
  <2>4. SlotsFilledToLimit'
    BY <2>1, <2>2 DEF Inv, PlacesInv, SlotsFilledToLimit
  <2> QED
    BY <2>3, <2>4 DEF PlacesInv
<1>4. ASSUME UNCHANGED <<m_sessions, m_QueuedPlayer, privileged, m_playerLimit, changes, used>>
      PROVE  PlacesInv'
  <2>1. Active' = Active
    BY <1>4 DEF Active, Listed, Online
  <2> QED
    BY <1>4, <2>1 DEF Inv, PlacesInv, SlotsFilledToLimit
<1>5. ASSUME NEW s \in Sessions, AddSession(s) \/ CloseSocket(s)
      PROVE  PlacesInv'
  BY <1>4, <1>5 DEF AddSession, CloseSocket, limitVars
<1>6. CASE RefuseSession \/ StartUpdate \/ EndUpdate \/ UNCHANGED vars
  BY <1>4, <1>6 DEF RefuseSession, StartUpdate, EndUpdate, limitVars, vars
<1>7. ASSUME NEW a \in Accounts, KeepSession(a)
      PROVE  PlacesInv'
  BY <1>4, <1>7 DEF KeepSession, limitVars
<1> QED
  BY <1>2, <1>3, <1>5, <1>6, <1>7, PlacesDrop DEF Next

-----------------------------------------------------------------------------
(* The theorems. *)

\* The inductive invariant holds of every reachable state of the session lists.
THEOREM Invariance == Spec => []Inv
<1>1. Init => Inv
  <2> SUFFICES ASSUME Init PROVE PlacesInv
    BY ListsInit DEF Inv
  <2>1. Active = {} /\ m_QueuedPlayer = <<>> /\ used = {m_playerLimit}
    BY DEF Init, Active, Listed, Online
  <2>2. Cardinality(Active \ privileged) = 0
    BY <2>1, FS_EmptySet, {} \ privileged = {}
  <2>3. m_playerLimit \in Nat
    BY LoginQueueAssumption DEF Init
  <2> QED
    BY <2>1, <2>2, <2>3 DEF PlacesInv, SlotsFilledToLimit
<1>2. Inv /\ [Next]_vars => Inv'
  BY ListsNext, PlacesNext DEF Inv
<1> QED
  BY <1>1, <1>2, PTL DEF Spec

\* No list of World holds a deleted session and the queue holds only listed sessions,
\* none twice, whatever AddSession_ and UpdateSessions replace and drop.
THEOREM ListsValid == Spec => []NoDanglingSession
<1>1. Inv => NoDanglingSession
  BY QueueFacts DEF Inv, TypeInv, ListsInv, NoDanglingSession
<1> QED
  BY <1>1, Invariance, PTL

\* RemoveQueuedPlayer, although it is called twice for one session, and AddSession_,
\* with its two ways of counting, fill the places and do not overfill them.
THEOREM PlacesFilled == Spec => []SlotsFilledToLimit
<1>1. Inv => SlotsFilledToLimit
  BY DEF Inv, PlacesInv
<1> QED
  BY <1>1, Invariance, PTL

\* No newcomer without privilege passes the waiting while the limit stays.
THEOREM QueueRespected == Spec => NoOvertaking
<1> DEFINE Overtakes == changes = 0 /\ (Active' \ Listed) \ privileged' # {}
<1>1. ASSUME Inv, [Next]_vars, Overtakes
      PROVE  m_QueuedPlayer = <<>>
  <2>1. PICK x : x \in Active' /\ x \notin Listed /\ x \notin privileged'
    BY <1>1
  <2>2. AddSession_
    <3>1. ASSUME NEW a \in Accounts, DropSession(a)
          PROVE  FALSE
      BY <1>1, <2>1, <3>1, DropEffect DEF Active
    <3>2. Listed' # Listed
      BY <2>1 DEF Active
    <3>3. m_sessions' # m_sessions
      BY <3>2 DEF Listed, Online
    <3> QED
      BY <1>1, <3>1, <3>3 DEF Next, vars, AddSession, CloseSocket, RefuseSession,
         StartUpdate, EndUpdate, KeepSession, SetPlayerAmountLimit
  <2>3. ~ServerFull
    <3>1. /\ addSessQueue # <<>>
          /\ m_sessions' = [m_sessions EXCEPT ![NewAccount] = NewSession]
      BY <2>2, AddEffect
    <3>2. x = NewSession /\ NewSession # OldSession /\ NewSession \in Sessions
          /\ NewSession \notin Listed
      BY <1>1, <2>1, <3>1, AddedLists DEF Active
    <3>3. /\ RestQueue \in Seq(Sessions) /\ IsInjective(RestQueue)
          /\ NewSession \notin Range(RestQueue)
      BY <1>1, <2>2, <3>2, RestFacts DEF Inv, ListsInv
    <3>4. ASSUME m_QueuedPlayer' = Append(RestQueue, NewSession)
          PROVE  FALSE
      <4>1. NewSession \in Range(m_QueuedPlayer')
        BY <3>2, <3>3, <3>4, AppendFacts
      <4> QED
        BY <2>1, <3>2, <4>1 DEF Active
    <3> QED
      BY <2>1, <2>2, <3>2, <3>4, AddEffect
  <2>4. SUFFICES ASSUME m_QueuedPlayer # <<>> PROVE FALSE
    OBVIOUS
  <2>5. m_playerLimit > 0 /\ m_playerLimit \in Nat /\ Cardinality(Active) >= m_playerLimit
    BY <1>1, <2>4 DEF Inv, TypeInv, PlacesInv, SlotsFilledToLimit
  <2>6. /\ Cardinality(Online) \in Nat /\ Len(m_QueuedPlayer) \in Nat
        /\ Len(m_QueuedPlayer) > 0
        /\ Cardinality(Active) = Cardinality(Online) - Len(m_QueuedPlayer)
    <3>1. /\ Cardinality(Online) \in Nat /\ Len(m_QueuedPlayer) \in Nat
          /\ Cardinality(Active) = Cardinality(Online) - Len(m_QueuedPlayer)
      BY <1>1, StateCount DEF Inv
    <3>2. m_QueuedPlayer \in Seq(Sessions)
      BY <1>1 DEF Inv, TypeInv
    <3>3. Len(m_QueuedPlayer) # 0
      BY <2>4, <3>2, QueueFacts
    <3> QED
      BY <3>1, <3>3
  <2>7. Cardinality(Online) > m_playerLimit
    BY <2>5, <2>6
  <2>8. \/ ServerFull <=> m_playerLimit > 0 /\ Cardinality(Online) >= m_playerLimit
        \/ ServerFull <=> m_playerLimit > 0 /\ Cardinality(Online) > m_playerLimit
    BY <1>1, <2>2, RestFacts, Zenon
  <2>9. Cardinality(Online) >= m_playerLimit
    BY <2>5, <2>6, <2>7
  <2> QED
    BY <2>3, <2>5, <2>7, <2>8, <2>9, Zenon
<1>2. Inv /\ [Next]_vars => [Overtakes => m_QueuedPlayer = <<>>]_vars
  BY <1>1
<1> QED
  BY <1>2, Invariance, PTL DEF Spec, NoOvertaking

=============================================================================
