-------------------------- MODULE MapUpdaterProofs --------------------------
(***************************************************************************)
(* Proofs about MapUpdater for every set of maps, instances and threads and *)
(* every queue size: the counter of pending requests is exact, the world    *)
(* thread never works on the maps beside a worker, it never sleeps without  *)
(* somebody to wake it, every map is updated once in a tick, and no request *)
(* refers to a map that was deleted.                                        *)
(***************************************************************************)
EXTENDS MapUpdater, FiniteSetTheorems, TLAPS

\* Nothing is pending while the world thread works alone ...
QuietAlone == Alone => pending = 0

\* ... or once the queue is closed (or was never opened).
QuietInactive == ~activated => pending = 0

\* The world thread went to sleep because something was pending.
SleepsOnWork == world = "blocked" => pending > 0

\* Only a worker inside an update has instances left to walk.
KidsOfBusy == \A t \in Threads : kids[t] # {} => job[t] # NoMap

\* The inductive invariant: Exclusive is not inductive by itself, since nothing
\* in it keeps wait() from returning while a request is queued.
Inv ==
    /\ TypeOK
    /\ PendingCounts
    /\ QuietAlone
    /\ QuietInactive
    /\ SleepsOnWork
    /\ KidsOfBusy

-----------------------------------------------------------------------------
(* Counting.                                                               *)

\* The busy workers are finitely many.
LEMMA BusyFinite ==
    /\ IsFiniteSet(Busy)
    /\ Cardinality(Busy) \in Nat
    /\ Cardinality(Busy) = 0 <=> Busy = {}
<1>1. Busy \subseteq Threads
  BY DEF Busy
<1>2. IsFiniteSet(Threads)
  BY MapUpdaterAssumption
<1>3. IsFiniteSet(Busy)
  BY <1>1, <1>2, FS_Subset
<1> QED
  BY <1>3, FS_CardinalityType, FS_EmptySet

\* A worker inside an update accounts for a pending request.
LEMMA BusyIsPending ==
    ASSUME TypeOK, PendingCounts, NEW t \in Threads, job[t] # NoMap
    PROVE  pending > 0
<1>1. t \in Busy
  BY DEF Busy
<1>2. Cardinality(Busy) > 0
  BY <1>1, BusyFinite
<1>3. Len(queue) \in Nat
  BY DEF TypeOK
<1> QED
  BY <1>2, <1>3, BusyFinite DEF PendingCounts, TypeOK

\* With nothing pending there is neither a queued nor a running update.
LEMMA NothingPending ==
    ASSUME TypeOK, PendingCounts, pending = 0
    PROVE  queue = <<>> /\ Busy = {}
<1>1. Len(queue) \in Nat
  BY DEF TypeOK
<1>2. Len(queue) = 0 /\ Cardinality(Busy) = 0
  BY <1>1, BusyFinite DEF PendingCounts
<1> QED
  BY <1>2, BusyFinite DEF TypeOK

\* schedule_update keeps the counter exact, since the request it counts is in the
\* queue when the mutex is released, and leaves an inactive updater alone.
LEMMA ScheduleCounts ==
    ASSUME TypeOK, PendingCounts, QuietInactive, NEW m \in Maps,
           schedule_update(m), UNCHANGED <<activated, job>>
    PROVE  /\ pending' \in Nat
           /\ queue' \in Seq(Maps)
           /\ skipped' \subseteq Maps
           /\ PendingCounts'
           /\ QuietInactive'
           /\ pending' >= pending
<1>1. Busy' = Busy
  BY DEF Busy
<1>2. CASE activated /\ ~Full
  <2>1. pending' = pending + 1 /\ queue' = Append(queue, m) /\ skipped' = skipped
    BY <1>2 DEF schedule_update
  <2>2. queue' \in Seq(Maps) /\ Len(queue') = Len(queue) + 1 /\ Len(queue) \in Nat
    BY <2>1 DEF TypeOK
  <2>3. PendingCounts'
    BY <1>1, <2>1, <2>2, BusyFinite DEF PendingCounts
  <2> QED
    BY <1>2, <2>1, <2>2, <2>3 DEF TypeOK, QuietInactive
<1>3. CASE ~(activated /\ ~Full)
  BY <1>1, <1>3 DEF schedule_update, TypeOK, PendingCounts, QuietInactive
<1> QED
  BY <1>2, <1>3

-----------------------------------------------------------------------------
(* The invariant.                                                          *)

\* MapManager::Initialize establishes the invariant.
LEMMA InvInit == Init => Inv
<1> SUFFICES ASSUME Init PROVE Inv
  OBVIOUS
<1>1. TypeOK
  BY DEF Init, TypeOK, Maps
<1>2. Busy = {}
  BY DEF Init, Busy
<1>3. PendingCounts
  BY <1>2, FS_EmptySet DEF Init, PendingCounts
<1> QED
  BY <1>1, <1>3 DEF Init, Inv, QuietAlone, QuietInactive, SleepsOnWork, KidsOfBusy

\* Every step of the world thread preserves the invariant.
LEMMA InvWorld == Inv /\ World => Inv'
<1> SUFFICES ASSUME Inv, World PROVE Inv'
  OBVIOUS
<1> USE DEF Inv
<1>1. CASE \E i \in Instances : CreateInstance(i)
  BY <1>1 DEF CreateInstance, worldVars, tickVars, TypeOK, PendingCounts, Busy,
     QuietAlone, QuietInactive, SleepsOnWork, KidsOfBusy, Alone
<1>2. CASE StartTick
  BY <1>2 DEF StartTick, TypeOK, PendingCounts, Busy, QuietAlone, QuietInactive,
     SleepsOnWork, KidsOfBusy, Alone
<1>3. CASE \E m \in BaseMaps : ScheduleMap(m)
  <2>1. PICK m \in BaseMaps : ScheduleMap(m)
    BY <1>3
  <2>2. m \in Maps /\ schedule_update(m) /\ UNCHANGED <<activated, job>>
    BY <2>1 DEF ScheduleMap, Maps
  <2>3. /\ pending' \in Nat /\ queue' \in Seq(Maps) /\ skipped' \subseteq Maps
        /\ PendingCounts' /\ QuietInactive'
    BY <2>2, ScheduleCounts
  <2>4. TypeOK'
    BY <2>1, <2>3 DEF ScheduleMap, Advance, TypeOK
  <2> QED
    BY <2>1, <2>3, <2>4 DEF ScheduleMap, QuietAlone, SleepsOnWork, KidsOfBusy, Alone
<1>4. CASE \E m \in BaseMaps : UpdateMapDirectly(m)
  <2>1. PICK m \in BaseMaps : UpdateMapDirectly(m)
    BY <1>4
  <2>2. /\ live' \subseteq Instances
        /\ updated' \subseteq Maps
        /\ skipped' \subseteq Maps
    BY <2>1 DEF UpdateMapDirectly, UpdatedDirectly, Children, TypeOK, Maps
  <2>3. TypeOK'
    BY <2>1, <2>2 DEF UpdateMapDirectly, Advance, TypeOK
  <2> QED
    BY <2>1, <2>3 DEF UpdateMapDirectly, PendingCounts, Busy, QuietAlone,
       QuietInactive, SleepsOnWork, KidsOfBusy, Alone
<1>5. CASE EndSchedule
  BY <1>5 DEF EndSchedule, tickVars, TypeOK, PendingCounts, Busy, QuietAlone,
     QuietInactive, SleepsOnWork, KidsOfBusy, Alone
<1>6. CASE Wait
  BY <1>6 DEF Wait, tickVars, TypeOK, PendingCounts, Busy, QuietAlone,
     QuietInactive, SleepsOnWork, KidsOfBusy, Alone
<1>7. CASE DelayedUpdate
  BY <1>7 DEF DelayedUpdate, tickVars, TypeOK, PendingCounts, Busy, QuietAlone,
     QuietInactive, SleepsOnWork, KidsOfBusy, Alone
<1>8. CASE UnloadAll
  BY <1>8 DEF UnloadAll, tickVars, TypeOK, PendingCounts, Busy, QuietAlone,
     QuietInactive, SleepsOnWork, KidsOfBusy, Alone
<1>9. CASE DeactivateWait
  BY <1>9 DEF DeactivateWait, tickVars, TypeOK, PendingCounts, Busy, QuietAlone,
     QuietInactive, SleepsOnWork, KidsOfBusy, Alone
<1>10. CASE Deactivate
  BY <1>10 DEF Deactivate, tickVars, TypeOK, PendingCounts, Busy, QuietAlone,
     QuietInactive, SleepsOnWork, KidsOfBusy, Alone
<1>11. CASE Join
  BY <1>11 DEF Join, tickVars, TypeOK, PendingCounts, Busy, QuietAlone,
     QuietInactive, SleepsOnWork, KidsOfBusy, Alone
<1> QED
  BY <1>1, <1>2, <1>3, <1>4, <1>5, <1>6, <1>7, <1>8, <1>9, <1>10, <1>11 DEF World

\* Every step of a worker thread preserves the invariant.
LEMMA InvWorker == ASSUME Inv, NEW t \in Threads, Worker(t) PROVE Inv'
<1> USE DEF Inv
<1>1. CASE Dequeue(t)
  <2>1. /\ queue # <<>> /\ job[t] = NoMap
        /\ job' = [job EXCEPT ![t] = Head(queue)]
        /\ kids' = [kids EXCEPT ![t] = Children(Head(queue))]
        /\ queue' = Tail(queue)
        /\ UNCHANGED <<world, todo, live, pending, activated, exited, updated, skipped>>
    BY <1>1 DEF Dequeue, worldVars, tickVars
  <2>2. /\ Head(queue) \in Maps
        /\ queue' \in Seq(Maps)
        /\ Len(queue') = Len(queue) - 1
        /\ Len(queue) \in Nat
    BY <2>1 DEF TypeOK
  <2>3. Head(queue) # NoMap
    BY <2>2, MapUpdaterAssumption DEF Maps
  <2>4. Children(Head(queue)) \subseteq Instances
    BY DEF Children, TypeOK
  <2>5. TypeOK'
    BY <2>1, <2>2, <2>4 DEF TypeOK
  <2>6. t \notin Busy /\ Busy' = Busy \cup {t}
    BY <2>1, <2>3 DEF Busy, TypeOK
  <2>7. Cardinality(Busy') = Cardinality(Busy) + 1
    BY <2>6, BusyFinite, FS_AddElement
  <2>8. PendingCounts'
    BY <2>1, <2>2, <2>7, BusyFinite DEF PendingCounts
  <2>9. KidsOfBusy'
    BY <2>1, <2>3 DEF KidsOfBusy, TypeOK
  <2> QED
    BY <2>1, <2>5, <2>8, <2>9 DEF QuietAlone, QuietInactive, SleepsOnWork, Alone
<1>2. CASE \E i \in Instances : ScheduleInstance(t, i)
  <2>1. PICK i \in Instances : ScheduleInstance(t, i)
    BY <1>2
  <2>2. i \in Maps /\ schedule_update(i) /\ UNCHANGED <<activated, job>>
    BY <2>1 DEF ScheduleInstance, Maps
  <2>3. /\ pending' \in Nat /\ queue' \in Seq(Maps) /\ skipped' \subseteq Maps
        /\ PendingCounts' /\ QuietInactive' /\ pending' >= pending
    BY <2>2, ScheduleCounts
  <2>4. TypeOK'
    BY <2>1, <2>3 DEF ScheduleInstance, worldVars, TypeOK
  <2>5. job[t] # NoMap
    BY <2>1 DEF ScheduleInstance, KidsOfBusy
  <2>6. pending > 0
    BY <2>5, BusyIsPending
  <2>7. KidsOfBusy'
    BY <2>1 DEF ScheduleInstance, KidsOfBusy, TypeOK
  <2> QED
    BY <2>1, <2>3, <2>4, <2>6, <2>7
       DEF ScheduleInstance, worldVars, QuietAlone, SleepsOnWork, Alone, TypeOK
<1>3. CASE \E i \in Instances : DestroyInstance(t, i)
  BY <1>3 DEF DestroyInstance, worldVars, tickVars, TypeOK, PendingCounts, Busy,
     QuietAlone, QuietInactive, SleepsOnWork, KidsOfBusy, Alone
<1>4. CASE \E i \in Instances : KeepInstance(t, i)
  BY <1>4 DEF KeepInstance, worldVars, tickVars, TypeOK, Maps, PendingCounts,
     Busy, QuietAlone, QuietInactive, SleepsOnWork, KidsOfBusy, Alone
<1>5. CASE update_finished(t)
  <2>1. /\ job[t] # NoMap /\ kids[t] = {}
        /\ pending' = CountDown
        /\ world' = Broadcast
        /\ updated' = updated \cup {job[t]}
        /\ job' = [job EXCEPT ![t] = NoMap]
        /\ UNCHANGED <<todo, live, queue, activated, kids, exited, skipped>>
    BY <1>5 DEF update_finished
  <2>2. pending > 0 /\ pending \in Nat
    BY <2>1, BusyIsPending DEF TypeOK
  <2>3. pending' = pending - 1
    BY <2>1, <2>2 DEF CountDown
  <2>4. TypeOK'
    BY <2>1, <2>2, <2>3 DEF TypeOK, Broadcast
  <2>5. t \in Busy /\ Busy' = Busy \ {t}
    BY <2>1 DEF Busy, TypeOK
  <2>6. Cardinality(Busy') = Cardinality(Busy) - 1
    BY <2>5, BusyFinite, FS_RemoveElement
  <2>7. PendingCounts'
    <3>1. Len(queue) \in Nat /\ queue' = queue
      BY <2>1 DEF TypeOK
    <3> QED
      BY <2>2, <2>3, <2>6, <3>1, BusyFinite DEF PendingCounts
  <2>8. KidsOfBusy'
    BY <2>1 DEF KidsOfBusy, TypeOK
  <2> QED
    BY <2>1, <2>2, <2>3, <2>4, <2>7, <2>8
       DEF Broadcast, QuietAlone, QuietInactive, SleepsOnWork, Alone
<1>6. CASE Exit(t)
  BY <1>6 DEF Exit, worldVars, tickVars, TypeOK, PendingCounts, Busy, QuietAlone,
     QuietInactive, SleepsOnWork, KidsOfBusy, Alone
<1> QED
  BY <1>1, <1>2, <1>3, <1>4, <1>5, <1>6 DEF Worker

\* Every step, stuttering included, preserves the invariant.
LEMMA InvNext == Inv /\ [Next]_vars => Inv'
<1> SUFFICES ASSUME Inv, [Next]_vars PROVE Inv'
  OBVIOUS
<1>1. CASE World
  BY <1>1, InvWorld
<1>2. CASE \E t \in Threads : Worker(t)
  BY <1>2, InvWorker
<1>3. CASE UNCHANGED vars
  BY <1>3 DEF vars, Inv, TypeOK, PendingCounts, Busy, QuietAlone, QuietInactive,
     SleepsOnWork, KidsOfBusy, Alone
<1> QED
  BY <1>1, <1>2, <1>3 DEF Next, Terminated

\* The invariant holds in every reachable state.
THEOREM Invariance == Spec => []Inv
<1> QED
  BY InvInit, InvNext, PTL DEF Spec

-----------------------------------------------------------------------------
(* What it gives.                                                          *)

\* The variables of the map updater keep their types.
THEOREM TypeCorrect == Spec => []TypeOK
<1>1. Inv => TypeOK
  BY DEF Inv
<1> QED
  BY <1>1, Invariance, PTL

\* pending_requests is the number of requests queued or executed, whatever the
\* number of threads and the size of the queue (schedule_update, update_finished).
THEOREM CounterExact == Spec => []PendingCounts
<1>1. Inv => PendingCounts
  BY DEF Inv
<1> QED
  BY <1>1, Invariance, PTL

\* While the world thread handles sessions, runs DelayedUpdate or unloads maps,
\* no map update is running or queued (MapUpdater::wait).
THEOREM MutualExclusion == Spec => []Exclusive
<1>1. Inv => Exclusive
  BY NothingPending DEF Inv, Exclusive, QuietAlone
<1> QED
  BY <1>1, Invariance, PTL

\* The world thread sleeps on m_condition only while a request that will wake it
\* is queued or executed (MapUpdater::wait, update_finished).
THEOREM WakeupNotLost == Spec => []NoLostWakeup
<1>1. Inv => NoLostWakeup
  <2> SUFFICES ASSUME Inv, world = "blocked", Busy = {} PROVE Queued # {}
    BY DEF NoLostWakeup
  <2>1. Cardinality(Busy) = 0
    BY BusyFinite
  <2>2. Len(queue) \in Nat /\ Len(queue) > 0
    BY <2>1 DEF Inv, TypeOK, SleepsOnWork, PendingCounts
  <2>3. queue[1] \in Queued
    BY <2>2 DEF Queued
  <2> QED
    BY <2>3
<1> QED
  BY <1>1, Invariance, PTL

-----------------------------------------------------------------------------
(* Once in a tick.                                                         *)

Jobs == {job[t] : t \in Busy}

\* No map is queued twice.
Injective == \A n, k \in 1..Len(queue) : queue[n] = queue[k] => n = k

\* The maps this tick has come to.
Reached == Queued \cup Jobs \cup updated

\* No map is in two places: EachMapOnce but for its last conjunct.
NoneTwice ==
    /\ Injective
    /\ \A t, u \in Busy : job[t] = job[u] => t = u
    /\ \A t \in Busy : job[t] \notin Queued \cup updated
    /\ Queued \cap updated = {}

\* The loop of MapManager::Update has not come to the maps it has left, and it has
\* none left when it is over.
LoopAhead ==
    /\ todo # {} => world = "schedule"
    /\ todo \cap Reached = {}

\* A worker walks instances of the map it updates that exist.
KidsOwned ==
    \A t \in Busy : \A i \in kids[t] : i \in live /\ Owner[i] = job[t]

\* An instance is reached only through its owner's update, once that update has
\* passed it, and exists as long as a request refers to it.
InstanceAfterOwner ==
    \A i \in Instances \cap Reached :
        /\ i \in Queued \cup Jobs => i \in live
        /\ Owner[i] \notin todo \cup Queued
        /\ \A t \in Busy : i \notin kids[t]

\* Nothing is forgotten during a tick: what was neither reached nor skipped is
\* still to come, in the loop, in a worker's walk, or behind its owner.
NoneForgotten ==
    world \in {"schedule", "wait", "blocked", "delayed"} =>
        /\ BaseMaps \subseteq todo \cup Reached \cup skipped
        /\ \A i \in live : \/ i \in Reached \cup skipped
                           \/ \E t \in Busy : i \in kids[t]
                           \/ Owner[i] \in todo \cup Queued \cup skipped

\* The second inductive invariant, on top of Inv: neither EachMapOnce nor
\* NoDeletedMap says where the maps are that have not been reached.
TickInv ==
    /\ NoneTwice
    /\ LoopAhead
    /\ KidsOwned
    /\ InstanceAfterOwner
    /\ NoneForgotten

\* With nothing pending no worker has a map and no request is queued.
LEMMA QuietReached ==
    ASSUME TypeOK, PendingCounts, pending = 0
    PROVE  Queued = {} /\ Busy = {} /\ Jobs = {} /\ Reached = updated
BY NothingPending DEF Queued, Jobs, Reached

\* schedule_update appends the map to the queue or skips it.
LEMMA ScheduleQueues ==
    ASSUME TypeOK, NEW m \in Maps, schedule_update(m)
    PROVE  \/ /\ Queued' = Queued \cup {m} /\ skipped' = skipped
              /\ Injective /\ m \notin Queued => Injective'
           \/ /\ Queued' = Queued /\ skipped' = skipped \cup {m}
              /\ Injective => Injective'
<1>1. CASE activated /\ ~Full
  <2>1. queue' = Append(queue, m) /\ skipped' = skipped
    BY <1>1 DEF schedule_update
  <2>2. /\ Len(queue) \in Nat /\ Len(queue') = Len(queue) + 1
        /\ \A n \in 1..Len(queue) : queue'[n] = queue[n]
        /\ queue'[Len(queue) + 1] = m
    BY <2>1 DEF TypeOK
  <2>3. Queued' = Queued \cup {m}
    <3>1. Queued' \subseteq Queued \cup {m}
      BY <2>2 DEF Queued
    <3>2. Queued \subseteq Queued' /\ m \in Queued'
      BY <2>2 DEF Queued
    <3> QED
      BY <3>1, <3>2
  <2>4. ASSUME Injective, m \notin Queued PROVE Injective'
    BY <2>2, <2>4 DEF Injective, Queued
  <2> QED
    BY <2>1, <2>3, <2>4
<1>2. CASE ~(activated /\ ~Full)
  BY <1>2 DEF schedule_update, Queued, Injective
<1> QED
  BY <1>1, <1>2

\* What is left of the queue when a worker has taken its first request.
LEMMA DequeueRest ==
    ASSUME TypeOK, queue # <<>>, queue' = Tail(queue), Injective
    PROVE  /\ Queued = Queued' \cup {Head(queue)}
           /\ Head(queue) \notin Queued'
           /\ Injective'
<1>1. /\ Len(queue) \in Nat \ {0} /\ Len(queue') = Len(queue) - 1
      /\ \A n \in 1..Len(queue') : queue'[n] = queue[n + 1]
      /\ Head(queue) = queue[1]
  BY DEF TypeOK
<1>2. Queued' \subseteq Queued /\ Head(queue) \in Queued
  BY <1>1 DEF Queued
<1>3. Queued \subseteq Queued' \cup {Head(queue)}
  <2> SUFFICES ASSUME NEW n \in 1..Len(queue), n # 1 PROVE queue[n] \in Queued'
    BY <1>1 DEF Queued
  <2>1. n - 1 \in 1..Len(queue') /\ queue'[n - 1] = queue[n]
    BY <1>1
  <2> QED
    BY <2>1 DEF Queued
<1>4. Head(queue) \notin Queued'
  BY <1>1 DEF Queued, Injective
<1>5. Injective'
  BY <1>1 DEF Injective
<1> QED
  BY <1>2, <1>3, <1>4, <1>5

-----------------------------------------------------------------------------
\* It holds before the first tick.
LEMMA TickInit == Init => TickInv
<1> SUFFICES ASSUME Init PROVE TickInv
  OBVIOUS
<1>1. Queued = {} /\ Busy = {} /\ Jobs = {} /\ Reached = {}
  BY DEF Init, Queued, Busy, Jobs, Reached
<1>2. NoneTwice
  BY <1>1 DEF Init, NoneTwice, Injective
<1> QED
  BY <1>1, <1>2 DEF Init, TickInv, LoopAhead, KidsOwned, InstanceAfterOwner, NoneForgotten

\* A step that leaves the requests alone and does not start or end a tick
\* preserves it.
LEMMA TickStays ==
    ASSUME TickInv, UNCHANGED <<todo, live, queue, job, kids, updated, skipped>>,
           todo # {} => world' = world,
           world' \in {"schedule", "wait", "blocked", "delayed"}
              => world \in {"schedule", "wait", "blocked", "delayed"}
    PROVE  TickInv'
<1>1. UNCHANGED <<Queued, Busy, Jobs, Reached, Injective>>
  BY DEF Queued, Busy, Jobs, Reached, Injective
<1>2. NoneTwice' /\ KidsOwned' /\ InstanceAfterOwner'
  BY <1>1 DEF TickInv, NoneTwice, KidsOwned, InstanceAfterOwner
<1>3. LoopAhead' /\ NoneForgotten'
  BY <1>1 DEF TickInv, LoopAhead, NoneForgotten
<1> QED
  BY <1>2, <1>3 DEF TickInv

\* The world thread gives a map of its loop to the workers, or skips it.
LEMMA TickScheduleMap ==
    ASSUME Inv, TickInv, NEW m \in BaseMaps, ScheduleMap(m)
    PROVE  TickInv'
<1>1. /\ world = "schedule" /\ m \in todo /\ todo' = todo \ {m}
      /\ schedule_update(m) /\ m \in Maps /\ TypeOK
      /\ UNCHANGED <<world, live, activated, job, kids, exited, updated>>
  BY DEF ScheduleMap, Advance, Maps, Inv
<1>2. Busy' = Busy /\ Jobs' = Jobs
  BY <1>1 DEF Busy, Jobs
<1>3. m \notin Reached /\ m \notin Queued /\ m \notin Jobs /\ m \notin updated
  BY <1>1 DEF TickInv, LoopAhead, Reached
<1>4. \/ Queued' = Queued \cup {m} /\ skipped' = skipped /\ Injective'
      \/ Queued' = Queued /\ skipped' = skipped \cup {m} /\ Injective'
  BY <1>1, <1>3, ScheduleQueues DEF TickInv, NoneTwice
<1>5. Reached' \subseteq Reached \cup {m} /\ Reached \subseteq Reached'
  BY <1>1, <1>2, <1>4 DEF Reached
<1>6. NoneTwice'
  BY <1>1, <1>2, <1>3, <1>4 DEF TickInv, NoneTwice, Jobs
<1>7. LoopAhead'
  BY <1>1, <1>5 DEF TickInv, LoopAhead
<1>8. KidsOwned'
  BY <1>1, <1>2 DEF TickInv, KidsOwned
<1>9. InstanceAfterOwner'
  <2> SUFFICES ASSUME NEW i \in Instances, i \in Reached'
               PROVE  /\ i \in Queued' \cup Jobs' => i \in live'
                      /\ Owner[i] \notin todo' \cup Queued'
                      /\ \A t \in Busy' : i \notin kids'[t]
    BY DEF InstanceAfterOwner
  <2>1. i # m
    BY MapUpdaterAssumption
  <2>2. i \in Reached
    BY <1>5, <2>1
  <2>3. Owner[i] \notin todo \cup Queued
    BY <2>2 DEF TickInv, InstanceAfterOwner
  <2>4. Owner[i] # m
    BY <1>1, <2>3
  <2> QED
    BY <1>1, <1>2, <1>4, <2>1, <2>2, <2>3, <2>4 DEF TickInv, InstanceAfterOwner
<1>10. NoneForgotten'
  <2>1. m \in Reached' \cup skipped'
    BY <1>4 DEF Reached
  <2>2. BaseMaps \subseteq todo' \cup Reached' \cup skipped'
    BY <1>1, <1>4, <1>5, <2>1 DEF TickInv, NoneForgotten
  <2>3. ASSUME NEW i \in live
        PROVE  \/ i \in Reached' \cup skipped'
               \/ \E t \in Busy' : i \in kids'[t]
               \/ Owner[i] \in todo' \cup Queued' \cup skipped'
    <3>1. CASE i \in Reached \cup skipped
      BY <1>4, <1>5, <3>1
    <3>2. CASE \E t \in Busy : i \in kids[t]
      BY <1>1, <1>2, <3>2
    <3>3. CASE Owner[i] \in todo \cup Queued \cup skipped
      BY <1>1, <1>4, <3>3
    <3> QED
      BY <1>1, <3>1, <3>2, <3>3 DEF TickInv, NoneForgotten
  <2> QED
    BY <1>1, <2>2, <2>3 DEF NoneForgotten
<1> QED
  BY <1>6, <1>7, <1>8, <1>9, <1>10 DEF TickInv

\* Without workers the world thread updates a map and its instances itself.
LEMMA TickUpdateMapDirectly ==
    ASSUME Inv, TickInv, NEW m \in BaseMaps, UpdateMapDirectly(m)
    PROVE  TickInv'
<1>1. /\ world = "schedule" /\ ~activated /\ m \in todo /\ todo' = todo \ {m}
      /\ UNCHANGED <<world, pending, queue, activated, job, kids, exited>>
  BY DEF UpdateMapDirectly, Advance
<1>2. PICK gone \in SUBSET Children(m), kept \in SUBSET Children(m) :
        /\ live' = live \ gone
        /\ updated' = updated \cup {m} \cup (Children(m) \ (gone \cup kept))
        /\ skipped' = skipped \cup kept
  BY DEF UpdateMapDirectly, UpdatedDirectly
<1>3. Queued = {} /\ Busy = {} /\ Jobs = {} /\ Reached = updated
  BY <1>1, QuietReached DEF Inv, QuietInactive
<1>4. Queued' = {} /\ Busy' = {} /\ Jobs' = {} /\ Reached' = updated'
  BY <1>1, <1>3 DEF Queued, Busy, Jobs, Reached
<1>5. \A i \in Children(m) : i \in Instances /\ i \in live /\ Owner[i] = m
  BY DEF Children, Inv, TypeOK
<1>6. NoneTwice'
  BY <1>1, <1>4 DEF TickInv, NoneTwice, Injective
<1>7. LoopAhead'
  <2>1. todo \subseteq BaseMaps
    BY DEF Inv, TypeOK
  <2> QED
    BY <1>1, <1>2, <1>3, <1>4, <1>5, <2>1, MapUpdaterAssumption DEF TickInv, LoopAhead
<1>8. KidsOwned'
  BY <1>4 DEF KidsOwned
<1>9. InstanceAfterOwner'
  <2> SUFFICES ASSUME NEW i \in Instances, i \in updated' PROVE Owner[i] \notin todo'
    BY <1>4 DEF InstanceAfterOwner
  <2>1. i # m
    BY MapUpdaterAssumption
  <2>2. CASE i \in updated
    BY <1>1, <1>3, <2>2 DEF TickInv, InstanceAfterOwner
  <2>3. CASE i \in Children(m)
    BY <1>1, <1>5, <2>3
  <2> QED
    BY <1>2, <2>1, <2>2, <2>3
<1>10. NoneForgotten'
  <2>1. BaseMaps \subseteq todo' \cup Reached' \cup skipped'
    BY <1>1, <1>2, <1>3, <1>4 DEF TickInv, NoneForgotten
  <2>2. ASSUME NEW i \in live'
        PROVE  i \in Reached' \cup skipped' \/ Owner[i] \in todo' \cup skipped'
    <3>1. CASE Owner[i] = m
      BY <1>2, <1>4, <2>2, <3>1 DEF Children
    <3>2. CASE Owner[i] # m
      BY <1>1, <1>2, <1>3, <1>4, <2>2, <3>2 DEF TickInv, NoneForgotten
    <3> QED
      BY <3>1, <3>2
  <2> QED
    BY <2>1, <2>2 DEF NoneForgotten
<1> QED
  BY <1>6, <1>7, <1>8, <1>9, <1>10 DEF TickInv

\* Every step of the world thread preserves it.
LEMMA TickWorld == Inv /\ TickInv /\ World => TickInv'
<1> SUFFICES ASSUME Inv, TickInv, World PROVE TickInv'
  OBVIOUS
<1>q. ASSUME Alone PROVE Queued = {} /\ Busy = {} /\ Jobs = {} /\ Reached = updated
  BY <1>q, QuietReached DEF Inv, QuietAlone
<1>e. ASSUME Alone, UNCHANGED <<queue, job>>
      PROVE  Queued' = {} /\ Busy' = {} /\ Jobs' = {} /\ Reached' = updated'
  BY <1>q, <1>e DEF Queued, Busy, Jobs, Reached
<1>1. CASE \E i \in Instances : CreateInstance(i)
  <2>1. /\ world = "sessions"
        /\ UNCHANGED <<world, todo, queue, job, kids, updated, skipped>>
    BY <1>1 DEF CreateInstance, worldVars, tickVars
  <2>2. Queued' = {} /\ Busy' = {} /\ Jobs' = {} /\ Reached' = updated'
    BY <1>e, <2>1 DEF Alone
  <2>3. todo = {} /\ Reached = updated
    BY <1>q, <2>1 DEF TickInv, LoopAhead, Alone
  <2> QED
    BY <2>1, <2>2, <2>3 DEF TickInv, NoneTwice, Injective, LoopAhead, KidsOwned,
       InstanceAfterOwner, NoneForgotten
<1>2. CASE StartTick
  <2>1. /\ world = "sessions" /\ world' = "schedule" /\ todo' = BaseMaps
        /\ updated' = {} /\ UNCHANGED <<live, queue, job, kids>>
    BY <1>2 DEF StartTick
  <2>2. Queued' = {} /\ Busy' = {} /\ Jobs' = {} /\ Reached' = {}
    BY <1>e, <2>1 DEF Alone
  <2>3. \A i \in live : Owner[i] \in BaseMaps
    BY MapUpdaterAssumption DEF Inv, TypeOK
  <2> QED
    BY <2>1, <2>2, <2>3 DEF TickInv, NoneTwice, Injective, LoopAhead, KidsOwned,
       InstanceAfterOwner, NoneForgotten
<1>3. CASE \E m \in BaseMaps : ScheduleMap(m)
  BY <1>3, TickScheduleMap
<1>4. CASE \E m \in BaseMaps : UpdateMapDirectly(m)
  BY <1>4, TickUpdateMapDirectly
<1>5. CASE EndSchedule
  BY <1>5, TickStays DEF EndSchedule, LoopDone, tickVars
<1>6. CASE Wait \/ DelayedUpdate
  BY <1>6, TickStays DEF Wait, DelayedUpdate, tickVars, TickInv, LoopAhead
<1>7. CASE UnloadAll
  <2>1. /\ world = "sessions" /\ world' \in {"unloading", "stopped"} /\ live' = {}
        /\ UNCHANGED <<todo, queue, job, kids, updated, skipped>>
    BY <1>7 DEF UnloadAll, tickVars
  <2>2. Queued' = {} /\ Busy' = {} /\ Jobs' = {} /\ Reached' = updated'
    BY <1>e, <2>1 DEF Alone
  <2>3. todo = {}
    BY <2>1 DEF TickInv, LoopAhead
  <2> QED
    BY <2>1, <2>2, <2>3 DEF TickInv, NoneTwice, Injective, LoopAhead, KidsOwned,
       InstanceAfterOwner, NoneForgotten
<1>8. CASE DeactivateWait \/ Deactivate \/ Join
  BY <1>8, TickStays DEF DeactivateWait, Deactivate, Join, tickVars, TickInv, LoopAhead
<1> QED
  BY <1>1, <1>2, <1>3, <1>4, <1>5, <1>6, <1>7, <1>8 DEF World

\* A worker takes a request: the map was queued and is now being updated, and its
\* instances, which were behind it, are ahead of the worker.
LEMMA TickDequeue ==
    ASSUME Inv, TickInv, NEW t \in Threads, Dequeue(t)
    PROVE  TickInv'
<1> DEFINE m == Head(queue)
<1>1. /\ queue # <<>> /\ job[t] = NoMap
      /\ job' = [job EXCEPT ![t] = m]
      /\ kids' = [kids EXCEPT ![t] = Children(m)]
      /\ queue' = Tail(queue)
      /\ UNCHANGED <<world, todo, live, updated, skipped>>
  BY DEF Dequeue, worldVars, tickVars
<1>2. /\ Queued = Queued' \cup {m} /\ m \notin Queued' /\ Injective'
  BY <1>1, DequeueRest DEF Inv, TickInv, NoneTwice
<1>3. m \in Maps /\ m # NoMap /\ m \in Queued
  BY <1>1, <1>2, MapUpdaterAssumption DEF Inv, TypeOK, Maps
<1>4. /\ t \notin Busy /\ Busy' = Busy \cup {t} /\ job'[t] = m /\ kids'[t] = Children(m)
      /\ \A u \in Busy : job'[u] = job[u] /\ kids'[u] = kids[u] /\ u # t
  BY <1>1, <1>3 DEF Busy, Inv, TypeOK
<1>5. Jobs' = Jobs \cup {m}
  BY <1>4 DEF Jobs
<1>6. Reached' = Reached /\ Queued' \cup Jobs' = Queued \cup Jobs
  BY <1>1, <1>2, <1>5 DEF Reached
<1> HIDE DEF m
<1>7. NoneTwice'
  BY <1>1, <1>2, <1>3, <1>4 DEF TickInv, NoneTwice
<1>8. LoopAhead'
  BY <1>1, <1>6 DEF TickInv, LoopAhead
<1>9. KidsOwned'
  BY <1>1, <1>4 DEF TickInv, KidsOwned, Children
<1>10. InstanceAfterOwner'
  <2> SUFFICES ASSUME NEW i \in Instances, i \in Reached
               PROVE  /\ i \in Queued' \cup Jobs' => i \in live'
                      /\ Owner[i] \notin todo' \cup Queued'
                      /\ \A u \in Busy' : i \notin kids'[u]
    BY <1>6 DEF InstanceAfterOwner
  <2>1. Owner[i] # m
    BY <1>3 DEF TickInv, InstanceAfterOwner
  <2> QED
    BY <1>1, <1>2, <1>4, <1>6, <2>1 DEF TickInv, InstanceAfterOwner, Children
<1>11. NoneForgotten'
  <2> SUFFICES ASSUME world \in {"schedule", "wait", "blocked", "delayed"},
                      NEW i \in live, Owner[i] = m
               PROVE  i \in kids'[t]
    BY <1>1, <1>2, <1>4, <1>6 DEF TickInv, NoneForgotten
  <2> QED
    BY <1>4 DEF Children
<1> QED
  BY <1>7, <1>8, <1>9, <1>10, <1>11 DEF TickInv

\* A worker comes to an instance of the map it updates: the instance exists, has not
\* been reached, and is on no other worker's way.
LEMMA WalkedInstance ==
    ASSUME Inv, TickInv, NEW t \in Threads, NEW i \in kids[t]
    PROVE  /\ t \in Busy
           /\ i \in Instances /\ i \in live /\ Owner[i] = job[t]
           /\ i \notin Reached
           /\ Owner[i] \notin todo \cup Queued
           /\ \A u \in Busy : i \in kids[u] => u = t
<1>1. t \in Busy
  BY DEF Busy, Inv, KidsOfBusy
<1>2. i \in live /\ Owner[i] = job[t]
  BY <1>1 DEF TickInv, KidsOwned
<1>3. i \in Instances
  BY <1>2 DEF Inv, TypeOK
<1>4. i \notin Reached
  BY <1>1, <1>3 DEF TickInv, InstanceAfterOwner
<1>5. job[t] \in Reached /\ job[t] \notin Queued
  BY <1>1 DEF TickInv, NoneTwice, Reached, Jobs
<1>6. Owner[i] \notin todo \cup Queued
  BY <1>2, <1>5 DEF TickInv, LoopAhead
<1>7. ASSUME NEW u \in Busy, i \in kids[u] PROVE u = t
  BY <1>1, <1>2, <1>7 DEF TickInv, KidsOwned, NoneTwice
<1> QED
  BY <1>1, <1>2, <1>3, <1>4, <1>6, <1>7

\* It schedules the instance,
LEMMA TickScheduleInstance ==
    ASSUME Inv, TickInv, NEW t \in Threads, NEW i \in Instances, ScheduleInstance(t, i)
    PROVE  TickInv'
<1>1. /\ i \in kids[t] /\ kids' = [kids EXCEPT ![t] = @ \ {i}]
      /\ schedule_update(i) /\ i \in Maps
      /\ UNCHANGED <<world, todo, live, job, updated>>
  BY DEF ScheduleInstance, worldVars, Maps
<1>2. Busy' = Busy /\ Jobs' = Jobs
  BY <1>1 DEF Busy, Jobs
<1>3. /\ t \in Busy /\ i \in live /\ Owner[i] = job[t] /\ i \notin Reached
      /\ Owner[i] \notin todo \cup Queued /\ \A u \in Busy : i \in kids[u] => u = t
  BY <1>1, WalkedInstance
<1>4. \A u \in Busy : kids'[u] = kids[u] \ {i}
  BY <1>1, <1>3 DEF Busy, Inv, TypeOK
<1>5. \/ Queued' = Queued \cup {i} /\ skipped' = skipped /\ Injective'
      \/ Queued' = Queued /\ skipped' = skipped \cup {i} /\ Injective'
  BY <1>1, <1>3, ScheduleQueues DEF Inv, TickInv, NoneTwice, Reached
<1>6. Reached \subseteq Reached' /\ Reached' \subseteq Reached \cup {i}
  BY <1>1, <1>2, <1>5 DEF Reached
<1>7. NoneTwice'
  <2>1. \A u \in Busy : job[u] # i
    BY <1>3 DEF Reached, Jobs
  <2>2. i \notin updated
    BY <1>3 DEF Reached
  <2>3. \A u \in Busy' : job'[u] \notin Queued' \cup updated'
    BY <1>1, <1>2, <1>5, <2>1 DEF TickInv, NoneTwice
  <2>4. Queued' \cap updated' = {}
    BY <1>1, <1>5, <2>2 DEF TickInv, NoneTwice
  <2>5. \A u, v \in Busy' : job'[u] = job'[v] => u = v
    BY <1>1, <1>2 DEF TickInv, NoneTwice
  <2> QED
    BY <1>5, <2>3, <2>4, <2>5 DEF NoneTwice
<1>8. LoopAhead'
  <2>1. i \notin todo
    BY MapUpdaterAssumption DEF Inv, TypeOK
  <2> QED
    BY <1>1, <1>6, <2>1 DEF TickInv, LoopAhead
<1>9. KidsOwned'
  BY <1>1, <1>2, <1>4 DEF TickInv, KidsOwned
<1>10. InstanceAfterOwner'
  <2> SUFFICES ASSUME NEW j \in Instances, j \in Reached'
               PROVE  /\ j \in Queued' \cup Jobs' => j \in live'
                      /\ Owner[j] \notin todo' \cup Queued'
                      /\ \A u \in Busy' : j \notin kids'[u]
    BY DEF InstanceAfterOwner
  <2>1. Owner[j] # i
    BY MapUpdaterAssumption
  <2>2. CASE j = i
    BY <1>1, <1>2, <1>3, <1>4, <1>5, <2>1, <2>2
  <2>3. CASE j # i
    BY <1>1, <1>2, <1>4, <1>5, <1>6, <2>1, <2>3 DEF TickInv, InstanceAfterOwner
  <2> QED
    BY <2>2, <2>3
<1>11. NoneForgotten'
  <2>1. i \in Reached' \cup skipped'
    BY <1>5 DEF Reached
  <2> QED
    BY <1>1, <1>2, <1>4, <1>5, <1>6, <2>1 DEF TickInv, NoneForgotten
<1> QED
  BY <1>7, <1>8, <1>9, <1>10, <1>11 DEF TickInv

\* deletes it, or keeps it without an update.
LEMMA TickPassInstance ==
    ASSUME Inv, TickInv, NEW t \in Threads, NEW i \in Instances,
           DestroyInstance(t, i) \/ KeepInstance(t, i)
    PROVE  TickInv'
<1>1. /\ i \in kids[t] /\ kids' = [kids EXCEPT ![t] = @ \ {i}]
      /\ UNCHANGED <<world, todo, queue, job, updated>>
      /\ \/ live' = live \ {i} /\ skipped' = skipped
         \/ live' = live /\ skipped' = skipped \cup {i}
  BY DEF DestroyInstance, KeepInstance, worldVars, tickVars
<1>2. UNCHANGED <<Queued, Busy, Jobs, Reached, Injective>>
  BY <1>1 DEF Queued, Busy, Jobs, Reached, Injective
<1>3. /\ t \in Busy /\ i \notin Reached /\ \A u \in Busy : i \in kids[u] => u = t
  BY <1>1, WalkedInstance
<1>4. \A u \in Busy : kids'[u] = kids[u] \ {i}
  BY <1>1, <1>3 DEF Busy, Inv, TypeOK
<1>5. NoneTwice' /\ LoopAhead' /\ KidsOwned'
  BY <1>1, <1>2, <1>4 DEF TickInv, NoneTwice, LoopAhead, KidsOwned
<1>6. InstanceAfterOwner'
  BY <1>1, <1>2, <1>3, <1>4 DEF TickInv, InstanceAfterOwner, Reached
<1>7. NoneForgotten'
  <2> SUFFICES ASSUME world \in {"schedule", "wait", "blocked", "delayed"}
               PROVE  /\ BaseMaps \subseteq todo' \cup Reached' \cup skipped'
                      /\ \A k \in live' :
                            \/ k \in Reached' \cup skipped'
                            \/ \E u \in Busy' : k \in kids'[u]
                            \/ Owner[k] \in todo' \cup Queued' \cup skipped'
    BY <1>1 DEF NoneForgotten
  <2>1. BaseMaps \subseteq todo' \cup Reached' \cup skipped'
    BY <1>1, <1>2 DEF TickInv, NoneForgotten
  <2>2. \A k \in live' : k # i \/ k \in skipped'
    BY <1>1
  <2>3. \A k \in live :
           \/ k \in Reached \cup skipped
           \/ \E u \in Busy : k \in kids[u]
           \/ Owner[k] \in todo \cup Queued \cup skipped
    BY DEF TickInv, NoneForgotten
  <2>4. ASSUME NEW k \in live', k # i
        PROVE  \/ k \in Reached' \cup skipped'
               \/ \E u \in Busy' : k \in kids'[u]
               \/ Owner[k] \in todo' \cup Queued' \cup skipped'
    <3>1. k \in live /\ skipped \subseteq skipped'
      BY <1>1
    <3> QED
      BY <1>1, <1>2, <1>4, <2>3, <2>4, <3>1
  <2> QED
    BY <2>1, <2>2, <2>4
<1> QED
  BY <1>5, <1>6, <1>7 DEF TickInv

\* The update of a map ends when all its instances have been passed.
LEMMA TickFinished ==
    ASSUME Inv, TickInv, NEW t \in Threads, update_finished(t)
    PROVE  TickInv'
<1>1. /\ job[t] # NoMap /\ kids[t] = {}
      /\ world' = Broadcast /\ updated' = updated \cup {job[t]}
      /\ job' = [job EXCEPT ![t] = NoMap]
      /\ UNCHANGED <<todo, live, queue, kids, skipped>>
  BY DEF update_finished
<1>2. /\ t \in Busy /\ Busy' = Busy \ {t} /\ \A u \in Busy' : job'[u] = job[u]
  BY <1>1 DEF Busy, Inv, TypeOK
<1>3. Queued' = Queued /\ Injective' = Injective /\ Jobs' \subseteq Jobs
  BY <1>1, <1>2 DEF Queued, Injective, Jobs
<1>4. Reached' = Reached
  <2>1. \A x \in Jobs : x = job[t] \/ x \in Jobs'
    BY <1>2 DEF Jobs
  <2> QED
    BY <1>1, <1>2, <1>3, <2>1 DEF Reached, Jobs
<1>5. NoneTwice'
  BY <1>1, <1>2, <1>3 DEF TickInv, NoneTwice
<1>6. LoopAhead'
  BY <1>1, <1>4 DEF TickInv, LoopAhead, Broadcast
<1>7. KidsOwned'
  BY <1>1, <1>2 DEF TickInv, KidsOwned
<1>8. InstanceAfterOwner'
  BY <1>1, <1>2, <1>3, <1>4 DEF TickInv, InstanceAfterOwner
<1>9. NoneForgotten'
  BY <1>1, <1>2, <1>3, <1>4 DEF TickInv, NoneForgotten, Broadcast
<1> QED
  BY <1>5, <1>6, <1>7, <1>8, <1>9 DEF TickInv

\* Every step preserves it.
LEMMA TickNext == Inv /\ TickInv /\ [Next]_vars => TickInv'
<1> SUFFICES ASSUME Inv, TickInv, [Next]_vars PROVE TickInv'
  OBVIOUS
<1>1. CASE World
  BY <1>1, TickWorld
<1>2. ASSUME NEW t \in Threads, Worker(t) PROVE TickInv'
  <2>1. CASE Exit(t)
    BY <2>1, TickStays DEF Exit, worldVars, tickVars
  <2> QED
    BY <1>2, <2>1, TickDequeue, TickScheduleInstance, TickPassInstance, TickFinished
       DEF Worker
<1>3. CASE UNCHANGED vars
  BY <1>3, TickStays DEF vars
<1> QED
  BY <1>1, <1>2, <1>3 DEF Next, Terminated

\* It holds in every reachable state.
THEOREM TickInvariance == Spec => []TickInv
<1> QED
  BY TickInit, TickNext, Invariance, PTL DEF Spec

\* In a tick every map is updated once: none by two workers or twice, and none is
\* forgotten but those a full queue refused, their instances, and the instances
\* that could not be unloaded (MapManager::Update, MapInstanced::Update).
THEOREM UpdatedOnce == Spec => []EachMapOnce
<1>1. Inv /\ TickInv => EachMapOnce
  <2> SUFFICES ASSUME Inv, TickInv PROVE EachMapOnce
    OBVIOUS
  <2>1. ASSUME world = "delayed", NEW m \in Present
        PROVE  \/ m \in updated \cup skipped
               \/ m \in live /\ Owner[m] \in skipped
    <3>1. Queued = {} /\ Busy = {} /\ Reached = updated
      BY <2>1, QuietReached DEF Inv, QuietAlone, Alone
    <3>2. todo = {}
      BY <2>1 DEF TickInv, LoopAhead
    <3> QED
      BY <2>1, <3>1, <3>2 DEF TickInv, NoneForgotten, Present
  <2> QED
    BY <2>1 DEF EachMapOnce, TickInv, NoneTwice, Injective
<1> QED
  BY <1>1, Invariance, TickInvariance, PTL

\* No request, and no worker's walk over the instances of a map, refers to a map
\* that DestroyInstance or UnloadAll deleted.
THEOREM RequestsValid == Spec => []NoDeletedMap
<1>1. Inv /\ TickInv => NoDeletedMap
  <2> SUFFICES ASSUME Inv, TickInv PROVE NoDeletedMap
    OBVIOUS
  <2>1. Queued \cup Jobs \subseteq Maps
    BY DEF Queued, Jobs, Busy, Inv, TypeOK
  <2>2. Queued \cup Jobs \subseteq Present
    BY <2>1 DEF TickInv, InstanceAfterOwner, Reached, Present, Maps
  <2> QED
    BY <2>2 DEF NoDeletedMap, Jobs, TickInv, KidsOwned
<1> QED
  BY <1>1, Invariance, TickInvariance, PTL
=============================================================================
