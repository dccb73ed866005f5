---------------------- MODULE DatabaseWorkerPoolProofs ----------------------
(***************************************************************************)
(* Proofs about DatabaseWorkerPool for every number of callers, workers,    *)
(* synchronous connections and operations and every size of the queue: each *)
(* operation is executed once, only operations in flight are overtaken, a   *)
(* synchronous connection is locked by the one caller that uses it, and     *)
(* Close finds nobody but remote access using the pool.                     *)
(***************************************************************************)
EXTENDS DatabaseWorkerPool, TLAPS

\* A caller looks at connections that exist, has something to enqueue while it is
\* enqueueing, and pings only when the bound allows all the pings.
CallerInv ==
    \A c \in Callers :
        /\ at[c] \in {"find", "using", "pinging"} => idx[c] \in Syncs
        /\ at[c] \in {"idle", "push", "escaping", "stopped"} => idx[c] = 0
        /\ at[c] = "push" => owed[c] > 0
        /\ at[c] \in {"ping", "pinging"} => numAsync <= MaxOps

\* Operations are numbered as they are enqueued, and the queue holds the last ones.
QueueNumbered ==
    /\ Len(queue) <= issued
    /\ \A n \in 1..Len(queue) : queue[n].num = issued - Len(queue) + n

\* What was taken from the queue comes before all that is left in it.
TakenBefore ==
    /\ Done \cup Executing \subseteq 1..(issued - Len(queue))
    /\ \A n \in Done \cup Executing : \A op \in dropped : n < op.num

\* No operation is in the hands of two workers, or done and still being executed.
NoneTwice ==
    /\ \A n, k \in 1..Len(applied) : applied[n] = applied[k] => n = k
    /\ \A v, w \in Workers : job[v].num = job[w].num /\ job[v].num # 0 => v = w
    /\ \A w \in Workers : job[w].num = 0 => job[w] = Idle
    /\ Done \cap Executing = {}

\* The worker that executed an operation has nothing since, or a later one.
SomeoneAhead == \A n \in Done : \E w \in Workers : job[w].num \notin 1..n

OrderInv ==
    /\ QueueNumbered
    /\ TakenBefore
    /\ NoneTwice
    /\ SomeoneAhead
    /\ closing = "open" => dropped = {}
    /\ closing # "open" => queue = <<>>

\* Remote access only queries the synchronous connections.  Close begins when all
\* other callers have stopped, and goes on when all workers have.
CloseInv ==
    /\ \A c \in Remote : at[c] \in {"idle", "find", "using", "stopped"}
    /\ closing # "open" => \A c \in Joined : at[c] = "stopped"
    /\ deleted \subseteq exited
    /\ closing \in {"sync", "closed"} => deleted = Workers

\* The inductive invariant.
Inv ==
    /\ TypeOK
    /\ CallerInv
    /\ LockedByUser
    /\ OrderInv
    /\ CloseInv

-----------------------------------------------------------------------------
\* Open establishes the invariant.
LEMMA InvInit == Init => Inv
<1> SUFFICES ASSUME Init PROVE Inv
  OBVIOUS
<1> USE PoolAssumption
<1>1. TypeOK
  BY DEF Init, TypeOK, Syncs, Ops, Kinds, Idle, Op, Workers
<1>2. CallerInv /\ LockedByUser /\ CloseInv
  BY DEF Init, CallerInv, LockedByUser, CloseInv, Joined
<1>3. Executing = {} /\ Done = {}
  BY DEF Init, Executing, Done, Idle, Op
<1>4. OrderInv
  BY <1>3 DEF Init, OrderInv, QueueNumbered, TakenBefore, NoneTwice, SomeoneAhead,
     Idle, Op
<1> QED
  BY <1>1, <1>2, <1>4 DEF Inv

\* ++i % num_cons is the index of a connection.
LEMMA NextConnection ==
    ASSUME NEW n \in 0..NumSync
    PROVE  (n + 1) % NumSync \in Syncs
BY PoolAssumption DEF Syncs

-----------------------------------------------------------------------------
(* Types, and what a caller is doing.                                      *)

\* A step of a caller keeps the types and CallerInv.
LEMMA TypeCaller ==
    ASSUME TypeOK, CallerInv, NEW c \in Callers, Caller(c) \/ CallerStarts(c)
    PROVE  TypeOK' /\ CallerInv'
<1> USE PoolAssumption DEF callerVars, queueVars, workerVars, closeVars
<1>1. CASE Execute(c)
  <2>1. spent + 1 \in 0..MaxOps /\ 1 \in 0..MaxOps
    BY <1>1 DEF Execute, TypeOK
  <2> QED
    BY <1>1, <2>1 DEF Execute, BeginEnqueue, TypeOK, CallerInv, Workers, Kinds
<1>2. CASE Direct(c)
  <2>1. TypeOK'
    BY <1>2 DEF Direct, TypeOK, Workers
  <2>2. 0 \in Syncs
    BY DEF Syncs
  <2> QED
    BY <1>2, <2>1, <2>2 DEF Direct, TypeOK, CallerInv
<1>3. CASE KeepAlive(c)
  <2>1. spent + numAsync \in 0..MaxOps /\ numAsync <= MaxOps
    BY <1>3 DEF KeepAlive, TypeOK
  <2> QED
    BY <1>3, <2>1 DEF KeepAlive, TypeOK, CallerInv, Workers
<1>4. CASE ThreadEnds(c)
  BY <1>4 DEF ThreadEnds, TypeOK, CallerInv, Workers
<1>5. CASE Enqueue(c)
  <2>1. owed[c] > 0 /\ owed[c] - 1 \in 0..MaxOps
    BY <1>5 DEF Enqueue, TypeOK, CallerInv
  <2>2. Op(issued + 1, kind[c]) \in Ops
    BY DEF TypeOK, Op, Ops
  <2>3. queue' \in Seq(Ops) /\ issued' \in Nat
    BY <1>5, <2>2 DEF Enqueue, Enqueued, TypeOK
  <2>4. at'[c] = "push" => owed'[c] > 0
    BY <1>5, <2>1 DEF Enqueue, AfterEnqueue, TypeOK
  <2>5. TypeOK'
    <3>1. /\ owed' \in [Callers -> 0..MaxOps]
          /\ kind' \in [Callers -> Kinds]
      BY <1>5, <2>1 DEF Enqueue, TypeOK, Kinds
    <3>2. at' \in [Callers -> {"idle", "push", "find", "using", "ping", "pinging",
                               "escaping", "stopped"}]
      BY <1>5 DEF Enqueue, AfterEnqueue, TypeOK
    <3> QED
      BY <1>5, <2>3, <3>1, <3>2 DEF Enqueue, TypeOK, Workers
  <2>6. ASSUME NEW d \in Callers, d # c PROVE at'[d] = at[d] /\ owed'[d] = owed[d]
    BY <1>5, <2>6 DEF Enqueue, TypeOK
  <2>7. at'[c] \in {"idle", "push"}
    BY <1>5 DEF Enqueue, AfterEnqueue, TypeOK
  <2> QED
    BY <1>5, <2>4, <2>5, <2>6, <2>7 DEF Enqueue, CallerInv
<1>6. CASE GetFreeConnection(c)
  <2>1. (idx[c] + 1) % NumSync \in Syncs /\ Syncs \subseteq 0..NumSync
    BY NextConnection DEF TypeOK, Syncs
  <2> DEFINE s == (idx[c] + 1) % NumSync
  <2>2. /\ at[c] = "find"
        /\ idx' = [idx EXCEPT ![c] = s]
        /\ UNCHANGED <<owed, kind, spent, queueVars, workerVars, closeVars>>
        /\ \/ lock' = [lock EXCEPT ![s] = c] /\ at' = [at EXCEPT ![c] = "using"]
           \/ UNCHANGED <<lock, at>>
    BY <1>6 DEF GetFreeConnection
  <2> HIDE DEF s
  <2>3. s \in Syncs /\ s \in 0..NumSync
    BY <2>1 DEF s
  <2>4. TypeOK'
    <3>1. idx' \in [Callers -> 0..NumSync] /\ lock' \in [Syncs -> Callers \cup {NoOne}]
      BY <2>2, <2>3 DEF TypeOK
    <3>2. at' \in [Callers -> {"idle", "push", "find", "using", "ping", "pinging",
                               "escaping", "stopped"}]
      BY <2>2 DEF TypeOK
    <3> QED
      BY <2>2, <3>1, <3>2 DEF TypeOK, Workers
  <2>5. ASSUME NEW d \in Callers
        PROVE  /\ at'[d] = at[d] \/ (d = c /\ at'[d] = "using")
               /\ idx'[d] = IF d = c THEN s ELSE idx[d]
    BY <2>2 DEF TypeOK
  <2>6. CallerInv'
    BY <2>2, <2>3, <2>5 DEF CallerInv
  <2> QED
    BY <2>4, <2>6
<1>7. CASE Unlock(c)
  BY <1>7 DEF Unlock, TypeOK, CallerInv, Workers
<1>8. CASE PingIfReady(c)
  <2>1. idx[c] \in Syncs /\ idx[c] + 1 \in 0..NumSync
    BY <1>8 DEF PingIfReady, TypeOK, Syncs
  <2>2. CASE lock[idx[c]] = NoOne
    <3>1. /\ lock' = [lock EXCEPT ![idx[c]] = c] /\ at' = [at EXCEPT ![c] = "pinging"]
          /\ at[c] = "ping" /\ idx' = idx
          /\ UNCHANGED <<owed, kind, spent, queueVars, workerVars, closeVars>>
      BY <1>8, <2>2 DEF PingIfReady
    <3>2. TypeOK'
      BY <3>1 DEF TypeOK, Workers, queueVars, workerVars, closeVars
    <3>3. CallerInv'
      BY <2>1, <3>1 DEF TypeOK, CallerInv, workerVars
    <3> QED
      BY <3>2, <3>3
  <2>3. CASE lock[idx[c]] # NoOne
    <3>1. /\ idx' = [idx EXCEPT ![c] = @ + 1]
          /\ at[c] = "ping" /\ UNCHANGED <<lock, at>>
          /\ UNCHANGED <<owed, kind, spent, queueVars, workerVars, closeVars>>
      BY <1>8, <2>3 DEF PingIfReady
    <3>2. TypeOK'
      BY <2>1, <3>1 DEF TypeOK, Workers, queueVars, workerVars, closeVars
    <3>3. CallerInv'
      BY <2>1, <3>1 DEF TypeOK, CallerInv, workerVars
    <3> QED
      BY <3>2, <3>3
  <2> QED
    BY <2>2, <2>3
<1>9. CASE PingDone(c)
  <2>1. idx[c] \in Syncs /\ idx[c] + 1 \in 0..NumSync
    BY <1>9 DEF PingDone, CallerInv, Syncs
  <2> QED
    BY <1>9, <2>1 DEF PingDone, TypeOK, CallerInv, Workers
<1>10. CASE PingWorkers(c)
  <2>1. numAsync \in 0..MaxOps /\ numAsync > 0
    BY <1>10 DEF PingWorkers, TypeOK, CallerInv
  <2> QED
    BY <1>10, <2>1 DEF PingWorkers, BeginEnqueue, TypeOK, CallerInv, Workers, Kinds
<1>11. CASE EscapeString(c) \/ Escaped(c)
  BY <1>11 DEF EscapeString, Escaped, TypeOK, CallerInv, Workers
<1> QED
  BY <1>1, <1>2, <1>3, <1>4, <1>5, <1>6, <1>7, <1>8, <1>9, <1>10, <1>11
     DEF Caller, CallerStarts

\* So does every other step.
LEMMA TypeNext == TypeOK /\ CallerInv /\ [Next]_vars => TypeOK' /\ CallerInv'
<1> SUFFICES ASSUME TypeOK, CallerInv, [Next]_vars PROVE TypeOK' /\ CallerInv'
  OBVIOUS
<1> USE DEF callerVars, queueVars, workerVars, closeVars
<1>1. ASSUME NEW c \in Callers, Caller(c) \/ CallerStarts(c) PROVE TypeOK' /\ CallerInv'
  BY <1>1, TypeCaller
<1>2. ASSUME NEW w \in Workers, Worker(w) PROVE TypeOK' /\ CallerInv'
  <2>1. CASE Dequeue(w)
    <3>1. queue # <<>> /\ Head(queue) \in Ops /\ Tail(queue) \in Seq(Ops)
      BY <2>1 DEF Dequeue, HasWork, TypeOK
    <3> QED
      BY <2>1, <3>1 DEF Dequeue, Taken, TypeOK, CallerInv, Workers
  <2>2. CASE Call(w)
    <3>1. job[w].num \in Nat /\ Idle \in Ops
      BY <1>2 DEF TypeOK, Ops, Idle, Op, Kinds
    <3>2. applied' \in Seq(Nat)
      BY <2>2, <3>1 DEF Call, TypeOK
    <3> QED
      BY <2>2, <3>1, <3>2 DEF Call, TypeOK, CallerInv, Workers
  <2>3. CASE WorkerExits(w)
    BY <1>2, <2>3 DEF WorkerExits, TypeOK, CallerInv, Workers
  <2> QED
    BY <1>2, <2>1, <2>2, <2>3 DEF Worker
<1>3. CASE Closer
  <2>1. CASE CloseQueue
    <3>1. dropped' \subseteq Ops /\ queue' \in Seq(Ops)
      BY <2>1 DEF CloseQueue, TypeOK
    <3> QED
      BY <2>1, <3>1 DEF CloseQueue, TypeOK, CallerInv, Workers
  <2>2. CASE \E w \in Workers : CloseWorker(w)
    BY <2>2 DEF CloseWorker, TypeOK, CallerInv, Workers
  <2>3. CASE CloseSync
    BY <2>3 DEF CloseSync, TypeOK, CallerInv, Workers
  <2> QED
    BY <1>3, <2>1, <2>2, <2>3 DEF Closer
<1>4. CASE UNCHANGED vars
  BY <1>4 DEF vars, TypeOK, CallerInv, Workers
<1> QED
  BY <1>1, <1>2, <1>3, <1>4 DEF Next

-----------------------------------------------------------------------------
(* Locks.                                                                  *)

\* A connection is locked by the caller that uses it, whoever takes a step.
LEMMA LockNext == TypeOK /\ CallerInv /\ LockedByUser /\ [Next]_vars => LockedByUser'
<1> SUFFICES ASSUME TypeOK, CallerInv, LockedByUser, [Next]_vars PROVE LockedByUser'
  OBVIOUS
<1> USE PoolAssumption DEF callerVars, queueVars, workerVars, closeVars
<1>1. CASE UNCHANGED <<at, idx, lock>>
  BY <1>1 DEF LockedByUser
<1>2. ASSUME NEW c \in Callers, at[c] \notin {"using", "pinging"}, UNCHANGED lock,
             at' = [at EXCEPT ![c] = at'[c]], idx' = [idx EXCEPT ![c] = idx'[c]],
             at'[c] \notin {"using", "pinging"}
      PROVE  LockedByUser'
  <2>1. \A s \in Syncs : lock[s] # c
    BY <1>2 DEF LockedByUser
  <2>2. ASSUME NEW d \in Callers, d # c PROVE at'[d] = at[d] /\ idx'[d] = idx[d]
    BY <1>2, <2>2 DEF TypeOK
  <2>3. ASSUME NEW s \in Syncs, lock'[s] # NoOne
        PROVE  at'[lock'[s]] \in {"using", "pinging"} /\ idx'[lock'[s]] = s
    <3>1. lock[s] \in Callers \ {c} /\ lock'[s] = lock[s]
      BY <1>2, <2>1, <2>3 DEF TypeOK
    <3> QED
      BY <2>2, <2>3, <3>1 DEF LockedByUser
  <2> QED
    BY <1>2, <2>2, <2>3 DEF LockedByUser
<1>3. ASSUME NEW c \in Callers, NEW s \in Syncs, at[c] \notin {"using", "pinging"},
             lock[s] = NoOne, lock' = [lock EXCEPT ![s] = c],
             at' = [at EXCEPT ![c] = at'[c]], idx' = [idx EXCEPT ![c] = s],
             at'[c] \in {"using", "pinging"}
      PROVE  LockedByUser'
  BY <1>3 DEF LockedByUser, TypeOK
<1>4. ASSUME NEW c \in Callers, at[c] \in {"using", "pinging"},
             lock' = [lock EXCEPT ![idx[c]] = NoOne],
             at' = [at EXCEPT ![c] = at'[c]], idx' = [idx EXCEPT ![c] = idx'[c]],
             at'[c] \notin {"using", "pinging"}
      PROVE  LockedByUser'
  <2>1. idx[c] \in Syncs /\ lock[idx[c]] = c
    BY <1>4 DEF LockedByUser, CallerInv
  <2> QED
    BY <1>4, <2>1 DEF LockedByUser, CallerInv, TypeOK
<1>5. ASSUME NEW c \in Callers, Caller(c) \/ CallerStarts(c) PROVE LockedByUser'
  <2>1. CASE Execute(c) \/ Direct(c) \/ KeepAlive(c) \/ ThreadEnds(c) \/ PingWorkers(c)
             \/ Enqueue(c) \/ EscapeString(c) \/ Escaped(c)
    BY <1>2, <2>1 DEF Execute, Direct, KeepAlive, ThreadEnds, PingWorkers, Enqueue,
       EscapeString, Escaped, BeginEnqueue, AfterEnqueue, TypeOK
  <2>2. CASE GetFreeConnection(c)
    <3>1. (idx[c] + 1) % NumSync \in Syncs
      BY NextConnection DEF TypeOK
    <3>2. CASE lock[(idx[c] + 1) % NumSync] = NoOne
      BY <1>3, <2>2, <3>1, <3>2 DEF GetFreeConnection, TypeOK
    <3>3. CASE lock[(idx[c] + 1) % NumSync] # NoOne
      BY <1>2, <2>2, <3>1, <3>3 DEF GetFreeConnection, TypeOK
    <3> QED
      BY <3>2, <3>3
  <2>3. CASE PingIfReady(c)
    <3>1. idx[c] \in Syncs
      BY <2>3 DEF PingIfReady, TypeOK, Syncs
    <3>2. CASE lock[idx[c]] = NoOne
      <4>1. /\ at[c] = "ping" /\ lock' = [lock EXCEPT ![idx[c]] = c]
            /\ at' = [at EXCEPT ![c] = "pinging"] /\ idx' = idx
        BY <2>3, <3>2 DEF PingIfReady
      <4>2. at'[c] = "pinging" /\ idx' = [idx EXCEPT ![c] = idx[c]]
        BY <4>1 DEF TypeOK
      <4> QED
        BY <1>3, <3>1, <3>2, <4>1, <4>2
    <3>3. CASE lock[idx[c]] # NoOne
      BY <1>2, <2>3, <3>1, <3>3 DEF PingIfReady, TypeOK
    <3> QED
      BY <3>2, <3>3
  <2>4. CASE Unlock(c) \/ PingDone(c)
    BY <1>4, <2>4 DEF Unlock, PingDone, TypeOK
  <2> QED
    BY <1>5, <2>1, <2>2, <2>3, <2>4 DEF Caller, CallerStarts
<1>6. ASSUME NEW w \in Workers, Worker(w) PROVE LockedByUser'
  BY <1>1, <1>6 DEF Worker, Dequeue, Call, WorkerExits
<1>7. CASE Closer
  BY <1>1, <1>7 DEF Closer, CloseQueue, CloseWorker, CloseSync
<1>8. CASE UNCHANGED vars
  BY <1>1, <1>8 DEF vars
<1> QED
  BY <1>5, <1>6, <1>7, <1>8 DEF Next

-----------------------------------------------------------------------------
(* The order of operations.                                                *)

\* Enqueue numbers the operation after all the others.
LEMMA OrderEnqueue ==
    ASSUME TypeOK, OrderInv, closing = "open", NEW c \in Callers, Enqueue(c)
    PROVE  OrderInv'
<1> DEFINE op == Op(issued + 1, kind[c])
<1>1. /\ queue' = Append(queue, op)
      /\ issued' = issued + 1
      /\ UNCHANGED <<workerVars, closeVars>>
  BY DEF Enqueue, Enqueued
<1>2. op \in Ops /\ op.num = issued + 1
  BY DEF TypeOK, Op, Ops
<1>3. /\ Len(queue') = Len(queue) + 1
      /\ \A n \in 1..Len(queue) : queue'[n] = queue[n]
      /\ queue'[Len(queue) + 1] = op
      /\ Len(queue) \in Nat
  BY <1>1, <1>2 DEF TypeOK
<1> HIDE DEF op
<1>4. QueueNumbered'
  <2>1. issued \in Nat /\ Len(queue) <= issued
    BY DEF OrderInv, QueueNumbered, TypeOK
  <2>2. ASSUME NEW n \in 1..Len(queue') PROVE queue'[n].num = issued' - Len(queue') + n
    <3>1. CASE n \in 1..Len(queue)
      <4>1. queue'[n].num = issued - Len(queue) + n
        BY <1>3, <3>1 DEF OrderInv, QueueNumbered
      <4> QED
        BY <1>1, <1>3, <2>1, <3>1, <4>1
    <3>2. CASE n = Len(queue) + 1
      BY <1>1, <1>2, <1>3, <2>1, <3>2
    <3> QED
      BY <1>3, <3>1, <3>2
  <2> QED
    BY <1>1, <1>3, <2>1, <2>2 DEF QueueNumbered
<1>5. Done' = Done /\ Executing' = Executing /\ Workers' = Workers
  BY <1>1 DEF Done, Executing, Workers, workerVars, closeVars
<1>6. issued' - Len(queue') = issued - Len(queue)
  BY <1>1, <1>3 DEF TypeOK
<1>7. TakenBefore'
  BY <1>1, <1>5, <1>6 DEF OrderInv, TakenBefore, closeVars
<1>8. NoneTwice' /\ SomeoneAhead'
  BY <1>1, <1>5 DEF OrderInv, NoneTwice, SomeoneAhead, workerVars
<1> QED
  BY <1>1, <1>4, <1>7, <1>8 DEF OrderInv, closeVars

\* A worker takes the operation with the least number left.
LEMMA OrderDequeue ==
    ASSUME TypeOK, OrderInv, NEW w \in Workers, Dequeue(w)
    PROVE  OrderInv'
<1> DEFINE h == Head(queue)
<1> DEFINE k == issued - Len(queue) + 1
<1>1. /\ queue # <<>> /\ queue' = Tail(queue) /\ closing = "open"
      /\ job[w] = Idle /\ job' = [job EXCEPT ![w] = h]
      /\ UNCHANGED <<issued, applied, closeVars>>
  BY DEF Dequeue, HasWork, Taken
<1>2. /\ Len(queue) \in Nat \ {0}
      /\ Len(queue') = Len(queue) - 1
      /\ \A n \in 1..Len(queue') : queue'[n] = queue[n + 1]
      /\ h = queue[1] /\ h \in Ops
  BY <1>1 DEF TypeOK
<1>3. h.num = k /\ k \in Nat \ {0}
  BY <1>2 DEF OrderInv, QueueNumbered, TypeOK
<1>4. QueueNumbered'
  BY <1>1, <1>2 DEF OrderInv, QueueNumbered, TypeOK
<1>5. issued' - Len(queue') = k /\ issued - Len(queue) = k - 1
  BY <1>1, <1>2 DEF TypeOK
<1> HIDE DEF h, k
<1>6. Done' = Done /\ Workers' = Workers
  BY <1>1 DEF Done, Workers, closeVars
<1>7. job'[w] = h /\ \A v \in Workers : v # w => job'[v] = job[v]
  BY <1>1 DEF TypeOK
<1>8. Executing' \subseteq Executing \cup {k}
  BY <1>3, <1>6, <1>7 DEF Executing
<1>9. \A n \in Done \cup Executing : n \in 1..(k - 1)
  BY <1>5 DEF OrderInv, TakenBefore
<1>10. TakenBefore'
  <2>1. Done' \cup Executing' \subseteq 1..k
    BY <1>3, <1>6, <1>8, <1>9
  <2>2. dropped' = {}
    BY <1>1 DEF OrderInv, closeVars
  <2> QED
    BY <1>5, <2>1, <2>2 DEF TakenBefore
<1>11. \A v \in Workers : job[v].num # k
  BY <1>3, <1>9 DEF Executing
<1>12. NoneTwice'
  <2>1. \A v \in Workers : job'[v].num = 0 => job'[v] = Idle
    BY <1>3, <1>7 DEF OrderInv, NoneTwice
  <2>2. ASSUME NEW u \in Workers, NEW v \in Workers,
               job'[u].num = job'[v].num, job'[u].num # 0
        PROVE  u = v
    BY <1>3, <1>7, <1>11, <2>2 DEF OrderInv, NoneTwice
  <2>3. Done' \cap Executing' = {}
    BY <1>3, <1>6, <1>8, <1>9 DEF OrderInv, NoneTwice
  <2> QED
    BY <1>1, <1>6, <2>1, <2>2, <2>3 DEF OrderInv, NoneTwice
<1>13. SomeoneAhead'
  <2>1. ASSUME NEW n \in Done PROVE \E v \in Workers : job'[v].num \notin 1..n
    <3>1. k \notin 1..n
      BY <1>3, <1>9
    <3>2. PICK v \in Workers : job[v].num \notin 1..n
      BY DEF OrderInv, SomeoneAhead
    <3>3. job'[v].num \notin 1..n
      BY <1>3, <1>7, <3>1, <3>2
    <3> QED
      BY <3>3
  <2> QED
    BY <1>6, <2>1 DEF SomeoneAhead
<1> QED
  BY <1>1, <1>4, <1>10, <1>12, <1>13 DEF OrderInv, closeVars

\* The operation a worker executes takes effect, or is a ping.
LEMMA OrderCall ==
    ASSUME TypeOK, OrderInv, NEW w \in Workers, Call(w)
    PROVE  OrderInv'
<1> DEFINE k == job[w].num
<1>1. /\ job[w] # Idle /\ job' = [job EXCEPT ![w] = Idle]
      /\ applied' = Append(applied, k) \/ applied' = applied
      /\ UNCHANGED <<queueVars, closeVars>>
  BY DEF Call
<1>2. k \in Nat \ {0} /\ k \in Executing /\ k \notin Done
  BY <1>1 DEF OrderInv, NoneTwice, Executing, TypeOK, Ops
<1> HIDE DEF k
<1>3. Workers' = Workers /\ Idle.num = 0
  BY <1>1 DEF Workers, closeVars, Idle, Op
<1>4. job'[w] = Idle /\ \A v \in Workers : v # w => job'[v] = job[v]
  BY <1>1 DEF TypeOK
<1>5. Executing' \subseteq Executing \ {k}
  BY <1>1, <1>3, <1>4 DEF Executing, OrderInv, NoneTwice, k
<1>6. /\ \A n, m \in 1..Len(applied') : applied'[n] = applied'[m] => n = m
      /\ Done' \subseteq Done \cup {k}
  <2>1. CASE applied' = applied
    BY <2>1 DEF Done, OrderInv, NoneTwice
  <2>2. CASE applied' = Append(applied, k)
    <3>1. /\ Len(applied') = Len(applied) + 1 /\ Len(applied) \in Nat
          /\ \A n \in 1..Len(applied) : applied'[n] = applied[n]
          /\ applied'[Len(applied) + 1] = k
      BY <1>2, <2>2 DEF TypeOK
    <3>2. \A n \in 1..Len(applied) : applied[n] # k
      BY <1>2 DEF Done
    <3> QED
      BY <3>1, <3>2 DEF Done, OrderInv, NoneTwice
  <2> QED
    BY <1>1, <2>1, <2>2
<1>7. QueueNumbered'
  BY <1>1 DEF OrderInv, QueueNumbered, queueVars
<1>8. TakenBefore'
  BY <1>1, <1>2, <1>5, <1>6 DEF OrderInv, TakenBefore, queueVars, closeVars
<1>9. NoneTwice'
  <2>1. \A v \in Workers : job'[v].num = 0 => job'[v] = Idle
    BY <1>3, <1>4 DEF OrderInv, NoneTwice
  <2>2. ASSUME NEW u \in Workers, NEW v \in Workers,
               job'[u].num = job'[v].num, job'[u].num # 0
        PROVE  u = v
    BY <1>3, <1>4, <2>2 DEF OrderInv, NoneTwice
  <2>3. Done' \cap Executing' = {}
    BY <1>2, <1>5, <1>6 DEF OrderInv, NoneTwice
  <2> QED
    BY <1>3, <1>6, <2>1, <2>2, <2>3 DEF NoneTwice
<1>10. SomeoneAhead'
  <2>1. ASSUME NEW n \in Done' PROVE \E v \in Workers : job'[v].num \notin 1..n
    <3>1. CASE n \in Done
      <4>1. PICK v \in Workers : job[v].num \notin 1..n
        BY <3>1 DEF OrderInv, SomeoneAhead
      <4>2. job'[v].num \notin 1..n
        BY <1>3, <1>4, <4>1
      <4> QED
        BY <4>2
    <3>2. CASE n = k
      BY <1>3, <1>4
    <3> QED
      BY <1>6, <3>1, <3>2
  <2> QED
    BY <1>3, <2>1 DEF SomeoneAhead
<1> QED
  BY <1>1, <1>7, <1>8, <1>9, <1>10 DEF OrderInv, queueVars, closeVars

\* Close drops what is left in the queue, which comes after all that was taken.
LEMMA OrderCloseQueue ==
    ASSUME TypeOK, OrderInv, CloseQueue
    PROVE  OrderInv'
<1>1. /\ queue' = <<>> /\ closing' = "workers"
      /\ dropped' = {queue[n] : n \in 1..Len(queue)}
      /\ UNCHANGED <<issued, workerVars, numAsync>>
  BY DEF CloseQueue
<1>2. Done' = Done /\ Executing' = Executing /\ Workers' = Workers
  BY <1>1 DEF Done, Executing, Workers, workerVars
<1>3. Len(queue') = 0 /\ Len(queue) \in 0..issued
  BY <1>1 DEF OrderInv, QueueNumbered, TypeOK
<1>4. QueueNumbered'
  BY <1>1, <1>3 DEF QueueNumbered, TypeOK
<1>5. \A n \in Done \cup Executing : n \in 1..(issued - Len(queue))
  BY DEF OrderInv, TakenBefore
<1>6. \A op \in dropped' : op.num \in Nat /\ op.num > issued - Len(queue)
  BY <1>1, <1>3 DEF OrderInv, QueueNumbered, TypeOK
<1>7. TakenBefore'
  <2>1. issued' \in Nat /\ issued' = issued /\ issued' - Len(queue') = issued
    BY <1>1, <1>3 DEF TypeOK
  <2>2. \A n \in Done \cup Executing : n \in 1..issued
    BY <1>3, <1>5, <2>1
  <2>3. \A n \in Done \cup Executing : \A op \in dropped' : n < op.num
    BY <1>3, <1>5, <1>6, <2>1
  <2> QED
    BY <1>2, <2>1, <2>2, <2>3 DEF TakenBefore
<1>8. NoneTwice' /\ SomeoneAhead'
  BY <1>1, <1>2 DEF OrderInv, NoneTwice, SomeoneAhead, workerVars
<1> QED
  BY <1>1, <1>4, <1>7, <1>8 DEF OrderInv

\* No other step touches the operations.
LEMMA OrderNext ==
    ASSUME TypeOK, OrderInv, CloseInv, [Next]_vars
    PROVE  OrderInv'
<1> USE DEF callerVars, queueVars, workerVars, closeVars
<1>1. CASE UNCHANGED <<queue, issued, job, applied, numAsync, dropped>>
           /\ (closing = "open" <=> closing' = "open")
  <2>1. Done' = Done /\ Executing' = Executing /\ Workers' = Workers
    BY <1>1 DEF Done, Executing, Workers
  <2>2. QueueNumbered' /\ TakenBefore' /\ NoneTwice' /\ SomeoneAhead'
    BY <1>1, <2>1 DEF OrderInv, QueueNumbered, TakenBefore, NoneTwice, SomeoneAhead
  <2> QED
    BY <1>1, <2>2 DEF OrderInv
<1>2. ASSUME NEW c \in Callers, Caller(c) \/ CallerStarts(c) PROVE OrderInv'
  <2>1. CASE Enqueue(c)
    <3>1. closing = "open"
      BY <2>1 DEF Enqueue, CloseInv, Joined
    <3> QED
      BY <2>1, <3>1, OrderEnqueue
  <2>2. CASE ~Enqueue(c)
    BY <1>1, <1>2, <2>2 DEF Caller, CallerStarts, Execute, Direct, KeepAlive, ThreadEnds,
       EscapeString, Escaped, GetFreeConnection, Unlock, PingIfReady, PingDone, PingWorkers
  <2> QED
    BY <2>1, <2>2
<1>3. ASSUME NEW w \in Workers, Worker(w) PROVE OrderInv'
  <2>1. CASE WorkerExits(w)
    BY <1>1, <2>1 DEF WorkerExits
  <2> QED
    BY <1>3, <2>1, OrderDequeue, OrderCall DEF Worker
<1>4. CASE Closer
  <2>1. CASE (\E w \in Workers : CloseWorker(w)) \/ CloseSync
    BY <1>1, <2>1 DEF CloseWorker, CloseSync
  <2> QED
    BY <1>4, <2>1, OrderCloseQueue DEF Closer
<1>5. CASE UNCHANGED vars
  BY <1>1, <1>5 DEF vars
<1> QED
  BY <1>2, <1>3, <1>4, <1>5 DEF Next

-----------------------------------------------------------------------------
(* Shutdown.                                                               *)

\* Close waits for the callers, then for each worker in turn.
LEMMA CloseNext ==
    ASSUME TypeOK, CloseInv, [Next]_vars
    PROVE  CloseInv'
<1> USE DEF callerVars, queueVars, workerVars, closeVars
<1>1. ASSUME NEW c \in Callers, Caller(c) \/ CallerStarts(c) PROVE CloseInv'
  <2>1. at[c] # "stopped" /\ UNCHANGED <<numAsync, closing, deleted, exited>>
    BY <1>1 DEF Caller, CallerStarts, Execute, Direct, KeepAlive, ThreadEnds, Enqueue,
       EscapeString, Escaped, GetFreeConnection, Unlock, PingIfReady, PingDone, PingWorkers
  <2>2. \A d \in Callers : d # c => at'[d] = at[d]
    BY <1>1 DEF Caller, CallerStarts, Execute, Direct, KeepAlive, ThreadEnds, Enqueue,
       EscapeString, Escaped, GetFreeConnection, Unlock, PingIfReady, PingDone, PingWorkers,
       BeginEnqueue, TypeOK
  <2>3. c \in Remote => at'[c] \in {"idle", "find", "using", "stopped"}
    BY <1>1 DEF CloseInv, Caller, CallerStarts, Execute, Direct, KeepAlive, ThreadEnds,
       Enqueue, EscapeString, Escaped, GetFreeConnection, Unlock, PingIfReady, PingDone,
       PingWorkers, TypeOK
  <2>4. \A d \in Remote : at'[d] \in {"idle", "find", "using", "stopped"}
    BY PoolAssumption, <2>2, <2>3 DEF CloseInv
  <2>5. closing' # "open" => \A d \in Joined : at'[d] = "stopped"
    BY <2>1, <2>2 DEF CloseInv, Joined
  <2> QED
    BY <2>1, <2>4, <2>5 DEF CloseInv, Workers, Joined
<1>2. ASSUME NEW w \in Workers, Worker(w) PROVE CloseInv'
  BY <1>2 DEF Worker, Dequeue, Call, WorkerExits, CloseInv, Workers, Joined
<1>3. CASE CloseQueue \/ CloseSync
  BY <1>3 DEF CloseQueue, CloseSync, CloseInv, Workers, Joined
<1>4. ASSUME NEW w \in Workers, CloseWorker(w) PROVE CloseInv'
  <2>1. 1..(w - 1) \cup {w} = 1..w
    BY DEF Workers, TypeOK
  <2>2. closing' = "sync" => deleted' = Workers
    BY <1>4, <2>1 DEF CloseWorker, Workers, TypeOK
  <2> QED
    BY <1>4, <2>2 DEF CloseWorker, Waited, CloseInv, Workers, Joined
<1>5. CASE UNCHANGED vars
  BY <1>5 DEF vars, CloseInv, Workers, Joined
<1> QED
  BY <1>1, <1>2, <1>3, <1>4, <1>5 DEF Next, Closer

-----------------------------------------------------------------------------
\* The invariant holds in every state of the pool (DatabaseWorkerPool).
THEOREM Invariance == Spec => []Inv
<1>1. Inv /\ [Next]_vars => Inv'
  BY TypeNext, LockNext, OrderNext, CloseNext DEF Inv
<1> QED
  BY <1>1, InvInit, PTL DEF Spec

\* However many callers try the mutexes of the synchronous connections, a locked
\* connection is locked by the one caller that uses it and a caller that uses one
\* holds its lock (GetFreeConnection, Unlock, KeepAlive).
THEOREM ConnectionsExclusive == Spec => []LockedByUser
<1>1. Inv => LockedByUser
  BY DEF Inv
<1> QED
  BY <1>1, Invariance, PTL

\* However many workers share the queue, no operation is executed twice, by two
\* workers, or both executed and dropped by Close (DatabaseWorker::svc).
THEOREM OperationsOnce == Spec => []ExecutedOnce
<1>1. ASSUME Inv PROVE ExecutedOnce
  <2>1. \A n \in Done \cup Executing : n \in 1..(issued - Len(queue))
    BY <1>1 DEF Inv, OrderInv, TakenBefore
  <2>2. Len(queue) \in Nat /\ issued \in Nat
    BY <1>1 DEF Inv, TypeOK
  <2>3. \A n \in Waiting : n \in Nat /\ n > issued - Len(queue)
    BY <1>1, <2>2 DEF Inv, OrderInv, QueueNumbered, Waiting
  <2>4. (Done \cup Executing) \cap Waiting = {}
    BY <2>1, <2>2, <2>3
  <2>5. (Done \cup Executing) \cap Dropped = {}
    BY <1>1, <2>1, <2>2 DEF Inv, OrderInv, TakenBefore, Dropped
  <2>6. \A v, w \in Workers : job[v] = job[w] /\ job[v] # Idle => v = w
    BY <1>1 DEF Inv, OrderInv, NoneTwice
  <2> QED
    BY <1>1, <2>4, <2>5, <2>6 DEF Inv, OrderInv, NoneTwice, ExecutedOnce
<1> QED
  BY <1>1, Invariance, PTL

\* Whatever the workers' speeds, what was enqueued before a statement that took
\* effect has left the queue too and was not dropped, it is done or a worker has it,
\* and some worker has nothing that old: fewer than numAsync operations are overtaken
\* (DatabaseWorker::svc).
THEOREM QueueOrder == Spec => []OvertakenOnlyInFlight
<1>1. ASSUME Inv, NEW n \in Done, NEW k \in 1..n PROVE k \notin Waiting \cup Dropped
  <2>1. n \in 1..(issued - Len(queue)) /\ Len(queue) \in Nat /\ issued \in Nat
    BY <1>1 DEF Inv, TypeOK, OrderInv, TakenBefore
  <2>2. \A j \in Waiting : j \in Nat /\ j > issued - Len(queue)
    BY <1>1, <2>1 DEF Inv, OrderInv, QueueNumbered, Waiting
  <2>3. \A j \in Dropped : j \in Nat /\ n < j
    BY <1>1 DEF Inv, TypeOK, Ops, OrderInv, TakenBefore, Dropped
  <2> QED
    BY <2>1, <2>2, <2>3
<1>2. Inv => OvertakenOnlyInFlight
  BY <1>1 DEF OvertakenOnlyInFlight, Inv, OrderInv, SomeoneAhead
<1> QED
  BY <1>2, Invariance, PTL

\* However the threads interleave, Close deletes a worker only after it left svc, and
\* when it has closed the queue nobody but remote access is in the pool or has a
\* synchronous connection (DatabaseWorkerPool::Close).
THEOREM CloseSafe == Spec => []DeletedUnused
<1>1. ASSUME Inv PROVE DeletedUnused
  <2>1. deleted \subseteq exited
    BY <1>1 DEF Inv, CloseInv
  <2>2. closing \in {"sync", "closed"} => exited = Workers /\ queue = <<>>
    BY <1>1 DEF Inv, TypeOK, CloseInv, OrderInv
  <2>3. ASSUME closing # "open"
        PROVE  /\ \A c \in Callers : at[c] \in {"idle", "find", "using", "stopped"}
               /\ \A s \in Syncs : lock[s] \in Remote \cup {NoOne}
    <3>1. \A c \in Callers : c \in Remote \/ at[c] = "stopped"
      BY <1>1, <2>3 DEF Inv, CloseInv, Joined
    <3>2. \A c \in Remote : at[c] \in {"idle", "find", "using", "stopped"}
      BY <1>1 DEF Inv, CloseInv
    <3>3. ASSUME NEW s \in Syncs, lock[s] # NoOne PROVE lock[s] \in Remote
      <4>1. lock[s] \in Callers
        BY <1>1, <3>3 DEF Inv, TypeOK
      <4>2. at[lock[s]] \in {"using", "pinging"}
        BY <1>1, <3>3 DEF Inv, LockedByUser
      <4> QED
        BY <3>1, <4>1, <4>2
    <3> QED
      BY <3>1, <3>2, <3>3
  <2> QED
    BY <2>1, <2>2, <2>3 DEF DeletedUnused
<1> QED
  BY <1>1, Invariance, PTL
=============================================================================
