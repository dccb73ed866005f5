----------------------------- MODULE MapUpdater -----------------------------
(***************************************************************************)
(* The map-update machinery of the worldserver: one world thread           *)
(* (WorldRunnable::run -> World::Update -> MapManager::Update) hands every  *)
(* map to a pool of worker threads (DelayExecutor::svc), waits until all    *)
(* of them are done (MapUpdater::wait) and then works on the maps alone.    *)
(* A MapInstanced is itself updated by a worker, which destroys or          *)
(* schedules the instances it owns from inside its own update.             *)
(*                                                                         *)
(* Every critical section of MapUpdater::m_mutex is one action.            *)
(***************************************************************************)
EXTENDS Naturals, Sequences, FiniteSets

CONSTANTS
    BaseMaps,   \* keys of MapManager::i_maps
    Instances,  \* instance maps that may come to exist
    Owner,      \* Owner[i]: the MapInstanced whose m_InstancedMaps holds i
    Threads,    \* worker threads, if MapUpdate.Threads is not zero
    HighWater,  \* requests at which the ACE activation queue is full
    NoMap       \* a worker with nothing to do

ASSUME MapUpdaterAssumption ==
    /\ NoMap \notin BaseMaps \cup Instances
    /\ BaseMaps \cap Instances = {}
    /\ Owner \in [Instances -> BaseMaps]
    /\ IsFiniteSet(Threads)
    /\ HighWater \in Nat

Maps == BaseMaps \cup Instances

VARIABLES
    world,      \* where the world thread is
    todo,       \* maps MapManager::Update's loop has not reached yet
    live,       \* instance maps that exist
    pending,    \* MapUpdater::pending_requests
    queue,      \* DelayExecutor::queue_, oldest request first
    activated,  \* DelayExecutor::activated_, and its queue's state
    job,        \* job[t]: the map worker t is updating, or NoMap
    kids,       \* kids[t]: instances the MapInstanced update of t has left
    exited,     \* workers that left DelayExecutor::svc
    updated,    \* maps whose update ended in this tick
    skipped     \* maps that this tick decided not to update

vars == <<world, todo, live, pending, queue, activated, job, kids, exited,
          updated, skipped>>

worldVars == <<world, todo>>
tickVars  == <<updated, skipped>>

Children(m) == {i \in live : Owner[i] = m}

\* Every map a tick should reach.
Present == BaseMaps \cup live

(* The full queue is only detected when cur_bytes_ >= high_water_mark_.    *)
Full == Len(queue) >= HighWater

-----------------------------------------------------------------------------

TypeOK ==
    /\ world \in {"sessions", "schedule", "wait", "blocked", "delayed",
                  "unloading", "closing", "joining", "stopped"}
    /\ todo \subseteq BaseMaps
    /\ live \subseteq Instances
    /\ pending \in Nat
    /\ queue \in Seq(Maps)
    /\ activated \in BOOLEAN
    /\ job \in [Threads -> Maps \cup {NoMap}]
    /\ kids \in [Threads -> SUBSET Instances]
    /\ exited \subseteq Threads
    /\ updated \subseteq Maps
    /\ skipped \subseteq Maps

\* MapManager::Initialize has run: the workers are started, or MapUpdate.Threads
\* is zero and there are none.
Init ==
    /\ world = "sessions"
    /\ todo = {}
    /\ live = {}
    /\ pending = 0
    /\ queue = <<>>
    /\ activated \in BOOLEAN
    /\ job = [t \in Threads |-> NoMap]
    /\ kids = [t \in Threads |-> {}]
    /\ exited = IF activated THEN {} ELSE Threads
    /\ updated = {}
    /\ skipped = {}

-----------------------------------------------------------------------------
\* Mutant: a refused request stays counted.
schedule_update_Leak(m) ==
    /\ pending' = pending + 1
    /\ IF activated /\ ~Full
       THEN queue' = Append(queue, m) /\ UNCHANGED skipped
       ELSE skipped' = skipped \cup {m} /\ UNCHANGED queue

(* MapUpdater::schedule_update, whoever calls it: the counter goes up       *)
(* before the request is visible to a worker and comes back down when the   *)
(* queue refuses it (full, since the timeout is zero).                      *)
schedule_update(m) ==
    IF activated /\ ~Full
    THEN /\ pending' = pending + 1
         /\ queue' = Append(queue, m)
         /\ UNCHANGED skipped
    ELSE /\ skipped' = skipped \cup {m}
         /\ UNCHANGED <<pending, queue>>

-----------------------------------------------------------------------------
(* The world thread.                                                       *)

\* World::UpdateSessions lets a player enter a map (CreateInstanceForPlayer).
CreateInstance(i) ==
    /\ world = "sessions"
    /\ i \in Instances \ live
    /\ live' = live \cup {i}
    /\ UNCHANGED <<worldVars, pending, queue, activated, job, kids, exited, tickVars>>

\* MapManager::Update: i_timer passed, the loop over i_maps begins.
StartTick ==
    /\ world = "sessions"
    /\ world' = "schedule"
    /\ todo' = BaseMaps
    /\ updated' = {}
    /\ skipped' = {}
    /\ UNCHANGED <<live, pending, queue, activated, job, kids, exited>>

\* What the loop has left after its turn for m (++iter), and when it ends.
Advance_Not(m) == todo
Advance(m) == todo \ {m}

LoopDone == todo = {}

\* One turn of that loop with m_updater activated.
ScheduleMap(m) ==
    /\ world = "schedule"
    /\ activated
    /\ m \in todo
    /\ todo' = Advance(m)
    /\ schedule_update(m)
    /\ UNCHANGED <<world, live, activated, job, kids, exited, updated>>

\* The maps Map::Update reaches from m when the instances in gone are not updated.
UpdatedDirectly(m, gone) == {m} \cup (Children(m) \ gone)

\* One turn of that loop with no workers: iter->second->Update, in which a
\* MapInstanced unloads the instances gone (and spares the ones in kept, whose
\* players could not be removed) and updates the others.
UpdateMapDirectly(m) ==
    /\ world = "schedule"
    /\ ~activated
    /\ m \in todo
    /\ todo' = Advance(m)
    /\ \E gone \in SUBSET Children(m) : \E kept \in SUBSET (Children(m) \ gone) :
         /\ live' = live \ gone
         /\ updated' = updated \cup UpdatedDirectly(m, gone \cup kept)
         /\ skipped' = skipped \cup kept
    /\ UNCHANGED <<world, pending, queue, activated, job, kids, exited>>

\* The loop is over; wait() is called only if the updater is activated.
EndSchedule ==
    /\ world = "schedule"
    /\ LoopDone
    /\ world' = IF activated THEN "wait" ELSE "delayed"
    /\ UNCHANGED <<todo, live, pending, queue, activated, job, kids, exited, tickVars>>

\* MapUpdater::wait under m_mutex: leave, or release the mutex and sleep.
Wait ==
    /\ world = "wait"
    /\ world' = IF pending > 0 THEN "blocked" ELSE "delayed"
    /\ UNCHANGED <<todo, live, pending, queue, activated, job, kids, exited, tickVars>>

\* DelayedUpdate of every map, the object accessor and the transports.
DelayedUpdate ==
    /\ world = "delayed"
    /\ world' = "sessions"
    /\ UNCHANGED <<todo, live, pending, queue, activated, job, kids, exited, tickVars>>

\* World::IsStopped: WorldRunnable::run leaves its loop, MapManager::UnloadAll
\* deletes every map.
UnloadAll ==
    /\ world = "sessions"
    /\ world' = IF activated THEN "unloading" ELSE "stopped"
    /\ live' = {}
    /\ UNCHANGED <<todo, pending, queue, activated, job, kids, exited, tickVars>>

\* MapUpdater::deactivate: its wait() ...
DeactivateWait ==
    /\ world = "unloading"
    /\ pending = 0
    /\ world' = "closing"
    /\ UNCHANGED <<todo, live, pending, queue, activated, job, kids, exited, tickVars>>

\* ... then DelayExecutor::deactivate closes the queue ...
Deactivate ==
    /\ world = "closing"
    /\ activated' = FALSE
    /\ world' = "joining"
    /\ UNCHANGED <<todo, live, pending, queue, job, kids, exited, tickVars>>

\* ... and joins the workers.
Join ==
    /\ world = "joining"
    /\ exited = Threads
    /\ world' = "stopped"
    /\ UNCHANGED <<todo, live, pending, queue, activated, job, kids, exited, tickVars>>

-----------------------------------------------------------------------------
(* A worker thread: DelayExecutor::svc.                                    *)

Dequeue(t) ==
    /\ t \notin exited
    /\ job[t] = NoMap
    /\ activated
    /\ queue # <<>>
    /\ job' = [job EXCEPT ![t] = Head(queue)]
    /\ kids' = [kids EXCEPT ![t] = Children(Head(queue))]
    /\ queue' = Tail(queue)
    /\ UNCHANGED <<worldVars, live, pending, activated, exited, tickVars>>

\* MapInstanced::Update, an instance that is not due for unloading.
ScheduleInstance(t, i) ==
    /\ i \in kids[t]
    /\ kids' = [kids EXCEPT ![t] = @ \ {i}]
    /\ schedule_update(i)
    /\ UNCHANGED <<worldVars, live, activated, job, exited, updated>>

\* Mutant: the iterator stays on the erased instance.
DestroyInstance_Stay(t, i) ==
    /\ i \in kids[t]
    /\ live' = live \ {i}
    /\ UNCHANGED <<worldVars, pending, queue, activated, job, kids, exited, tickVars>>

\* MapInstanced::Update, CanUnload: DestroyInstance deletes the instance ...
DestroyInstance(t, i) ==
    /\ i \in kids[t]
    /\ kids' = [kids EXCEPT ![t] = @ \ {i}]
    /\ live' = live \ {i}
    /\ UNCHANGED <<worldVars, pending, queue, activated, job, exited, tickVars>>

\* ... or keeps it, because its players could not be removed.
KeepInstance(t, i) ==
    /\ i \in kids[t]
    /\ kids' = [kids EXCEPT ![t] = @ \ {i}]
    /\ skipped' = skipped \cup {i}
    /\ UNCHANGED <<worldVars, live, pending, queue, activated, job, exited, updated>>

\* --pending_requests, unless it is zero.
CountDown == IF pending = 0 THEN 0 ELSE pending - 1

\* The broadcast makes a sleeping world thread look at the counter again.
Broadcast_NoRecheck == IF world = "blocked" THEN "delayed" ELSE world
Broadcast_Missing == world
Broadcast == IF world = "blocked" /\ pending # 0 THEN "wait" ELSE world

\* MapUpdateRequest::call: Map::Update returned, update_finished under m_mutex
\* counts down and wakes the world thread.
update_finished(t) ==
    /\ job[t] # NoMap
    /\ kids[t] = {}
    /\ pending' = CountDown
    /\ world' = Broadcast
    /\ updated' = updated \cup {job[t]}
    /\ job' = [job EXCEPT ![t] = NoMap]
    /\ UNCHANGED <<todo, live, queue, activated, kids, exited, skipped>>

\* Mutant: svc tries to dequeue for ever.
Exit_Never(t) == t \notin exited /\ job[t] = NoMap /\ ~activated /\ UNCHANGED vars

\* dequeue() fails on a deactivated queue: svc returns.
Exit(t) ==
    /\ t \notin exited
    /\ job[t] = NoMap
    /\ ~activated
    /\ exited' = exited \cup {t}
    /\ UNCHANGED <<worldVars, live, pending, queue, activated, job, kids, tickVars>>

-----------------------------------------------------------------------------

World ==
    \/ \E i \in Instances : CreateInstance(i)
    \/ StartTick
    \/ \E m \in BaseMaps : ScheduleMap(m)
    \/ \E m \in BaseMaps : UpdateMapDirectly(m)
    \/ EndSchedule
    \/ Wait
    \/ DelayedUpdate
    \/ UnloadAll
    \/ DeactivateWait
    \/ Deactivate
    \/ Join

Worker(t) ==
    \/ Dequeue(t)
    \/ \E i \in Instances : ScheduleInstance(t, i)
    \/ \E i \in Instances : DestroyInstance(t, i)
    \/ \E i \in Instances : KeepInstance(t, i)
    \/ update_finished(t)
    \/ Exit(t)

Terminated == world = "stopped" /\ exited = Threads /\ UNCHANGED vars

Next == World \/ (\E t \in Threads : Worker(t)) \/ Terminated

Spec == Init /\ [][Next]_vars

(* The scheduler runs every thread that can run; World::IsStopped and the   *)
(* arrival of players are up to the environment and get no fairness.       *)
Fairness ==
    /\ WF_vars(\E m \in BaseMaps : ScheduleMap(m) \/ UpdateMapDirectly(m))
    /\ WF_vars(EndSchedule)
    /\ WF_vars(Wait)
    /\ WF_vars(DelayedUpdate)
    /\ WF_vars(DeactivateWait)
    /\ WF_vars(Deactivate)
    /\ WF_vars(Join)
    /\ \A t \in Threads : WF_vars(Worker(t))

FairSpec == Spec /\ Fairness
-----------------------------------------------------------------------------
(* Correctness.                                                            *)

Busy == {t \in Threads : job[t] # NoMap}

Queued == {queue[n] : n \in 1..Len(queue)}

\* The world thread works on sessions, on all maps at once, or on unloading.
Alone == world \in {"sessions", "delayed", "unloading", "closing", "joining",
                    "stopped"}

\* pending_requests counts exactly the requests that are queued or being
\* executed, so update_finished never meets its "BUG, report to devs" branch
\* (MapUpdater::schedule_update, update_finished).
PendingCounts == pending = Len(queue) + Cardinality(Busy)

\* While the world thread handles sessions, runs DelayedUpdate or unloads maps,
\* no worker is inside a map update and none can start one, although a worker
\* schedules further updates from inside MapInstanced::Update (MapUpdater::wait).
Exclusive == Alone => queue = <<>> /\ Busy = {}

\* The world thread never sleeps on m_condition with nobody left to wake it
\* (MapUpdater::wait against update_finished's broadcast).
NoLostWakeup == world = "blocked" => Queued # {} \/ Busy # {}

\* Every map is updated once in a tick.  Never twice or by two workers at once: the
\* queued requests, the running updates and the finished ones are all for different
\* maps.  And when DelayedUpdate starts none was forgotten, except those whose
\* request a full queue refused, the instances of such a map, and the instances
\* whose players could not be removed (MapManager::Update, MapInstanced::Update).
EachMapOnce ==
    /\ \A n, k \in 1..Len(queue) : queue[n] = queue[k] => n = k
    /\ \A t, u \in Busy : job[t] = job[u] => t = u
    /\ \A t \in Busy : job[t] \notin Queued \cup updated
    /\ Queued \cap updated = {}
    /\ world = "delayed" =>
          \A m \in Present :
             \/ m \in updated \cup skipped
             \/ m \in live /\ Owner[m] \in skipped

\* A request never refers to a map that DestroyInstance or UnloadAll deleted,
\* and MapInstanced::Update only walks instances that still exist.
NoDeletedMap ==
    /\ Queued \subseteq Present
    /\ \A t \in Busy : job[t] \in Present /\ kids[t] \subseteq live

\* The world thread never waits for the workers for ever.  A tick that begins ends:
\* they finish and wait() returns.  Once UnloadAll begins, MapUpdater::deactivate
\* closes the queue, every worker leaves svc and the world thread joins them all.
WorldThreadReturns ==
    /\ world = "schedule" ~> world = "delayed"
    /\ world = "unloading" ~> (world = "stopped" /\ exited = Threads)
=============================================================================
