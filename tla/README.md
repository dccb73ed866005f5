# TLA+ models of the FaceCore server

FaceCore is a game server (a TrinityCore 3.3.5a fork in C++). This directory
holds TLA+ models of the machinery its game rules run on: the threads that
update maps, the database layer, the list of sessions with its login queue, the
life of one session with its packets and of the socket under it, the allocator of
instance ids, the instance saves that bind players and parties to copies of a
dungeon, and the battleground queue. TLC checks the models on small instances;
TLAPS proves the safety properties of seven of them for every size.

Paths below are relative to `src/src/server/`.

## 1. The system and its parts

`authserver` hands out session keys. `worldserver` has one *world thread*
(`WorldRunnable::run`), which in every tick updates sessions, then all maps,
then a number of managers; *network threads* that read packets and create
sessions; *map threads* that update maps in parallel within a tick; *database
workers*, one per asynchronous connection; and threads for the console, remote
access and SOAP, which enqueue commands for the world thread; those of remote
access also query the login database, and nobody waits for them at shutdown.

| Part | State it keeps | Operations | Who meets whom |
|---|---|---|---|
| Map updater (`game/Maps/MapUpdater.cpp`, `shared/Threading/DelayExecutor.cpp`) | request queue, `pending_requests`, condition, worker threads | `schedule_update`, `wait`, `update_finished`, `deactivate`, `svc` | world thread and map threads |
| Map manager and instance lists (`game/Maps/MapManager.cpp`, `MapInstanced.cpp`) | base maps, instances per map, ids in use, next id | `Update`, `CreateInstance*`, `DestroyInstance`, `UnloadAll`, `GenerateInstanceId`, `FreeInstanceId` | world thread and map threads |
| Database connection (`shared/Database/MySQLConnection.cpp`, `Transaction.cpp`) | handle, errno, transaction on the server | `Execute`, `ExecuteTransaction`, reconnect, `Close` | one thread and a server that may go away |
| Database pool (`shared/Database/DatabaseWorkerPool.h`, `DatabaseWorker.cpp`) | operation queue, connections and their mutexes | `Execute`, `AsyncQuery`, `CommitTransaction`, `Direct*`, `Query`, `KeepAlive`, `Close` | every thread of the core, and the workers |
| Session list and login queue (`game/World/World.cpp`) | `m_sessions`, `addSessQueue`, `m_QueuedPlayer`, `m_disconnects`, limit | `AddSession`, `AddSession_`, `RemoveQueuedPlayer`, `UpdateSessions` | network threads and world thread |
| Session (`game/Server/WorldSession.cpp`) | receive queue, player, logout flags | `QueuePacket`, `Update`, `LogoutPlayer` | network, map and world threads |
| Socket (`game/Server/WorldSocket.cpp`) | output buffer and queue, input reassembly, reference count | `open`, `SendPacket`, `handle_*`, `Update`, `CloseSocket` | network threads and everybody who sends |
| Instance saves (`game/Instances/InstanceSaveMgr.cpp`, `InstanceMap` in `game/Maps/Map.cpp`) | saves, binds of players and groups, scheduled resets | `AddInstanceSave`, `BindToInstance`, `AddPlayerToMap`, `ScheduleReset`, `_ResetInstance`, `LoadInstances` | handlers, groups, timers, restart |
| Battleground queue (`game/Battlegrounds/`) | queued groups, invitations, invited counters | `AddGroup`, `RemovePlayer`, `BattlegroundQueueUpdate`, remove events, `Battleground::Update` | world thread, delayed events |
| Dungeon finder (`game/DungeonFinding/`) | queue, role checks, proposals, boots | join, answer, time out | world thread |
| Groups, trade, guilds, mail, auctions, calendar | members, offers, banks, bids | handlers | mostly the world thread |
| Grid states, event processor, motion stack | timers, pending events, generators | `Update` and re-entrant callbacks | one map thread |
| Spells, entities, AI, scripts | the game rules | | |

What makes the system hard: a worker schedules further map updates while the
world thread is already waiting for the workers; instances are deleted while
requests hold references to maps; the queue of map updates refuses requests when
it is full and the queue of the database blocks; links to the database drop in
the middle of transactions; map threads free ids in one shared bit vector
without a lock; network threads add sessions that replace sessions of the same
account; three threads share a session's packets while its player logs in, moves
between maps and leaves; several threads write to one socket while another flushes
or closes it; binds are kept by players, by the group, by the save and by three
tables at once, and must agree after any logout, reset or restart; an invitation
to a battleground is recorded in four places; and everything must come to a stop
in the right order.

The correctness properties each part owes are the ones named in section 3; the
`hazards` of `PROJECT.json` list where the code is exposed, part by part; those
that no property covers are at the end of the list of runs.

## 2. Modules

| Module | Models |
|---|---|
| `MapUpdater` | world thread, map threads and the queue between them, with creation and destruction of instances, shutdown, and the variant without threads |
| `MySQLConnection` | a connection that executes transactions, the retry and reconnect logic, and the server session behind it |
| `TransactionStore` | what callers are promised of transactions; `MySQLConnection` implements it |
| `DatabaseWorkerPool` | callers, queue, workers, direct connections, `KeepAlive` and `Close` |
| `InstanceIds` | `MapManager`'s allocator of instance ids |
| `LoginQueue` | `World`'s session list and login queue |
| `SessionPackets` | one `WorldSession` with its receive queue and the closing side of its socket: network, world and map thread, login, transfer, logout, deletion |
| `WorldSocket` | one `WorldSocket` from `open` to its last reference, with the network thread that serves it and the threads that send |
| `InstanceSaves` | saves, binds, copies, resets and rows of one dungeon for one party, with restart |
| `BattlegroundQueue` | the queue of one battleground type and bracket and the battlegrounds it fills |
| `MC*` | constants and symmetry for the runs |
| `*Proofs` | the theorems about the module of that name; `WorldOutputProofs` is about `WorldSocket` too (section 4) |

A definition `Name_Suffix` with the comment "Mutant", or that stands right before
`Name`, is a plausible bug in `Name`. Each property of a passing run is known to
fail with one of them (`mutants` in `PROJECT.json`).

How they fit together: `MapUpdater` gives the phases that `InstanceIds` takes for
granted (its `maps` phase is the time between the first `schedule_update` and the
return of `wait`; `MutualExclusion` proves that the world thread's allocation
never overlaps it). One `Call` of `DatabaseWorkerPool`, and one use of a direct
connection, is a whole execution in `MySQLConnection`. `SessionPackets` takes from
`MapUpdater` that world and map threads never update a session at once, from
`LoginQueue` that a session leaves the login queue at some time or never, and from
`DatabaseWorkerPool` that an enqueued query is answered. `WorldSocket` has the
socket's whole side of the hand-over that `SessionPackets` sees from the
session's; it keeps of the session only that it exists. `InstanceSaves` uses the
allocator as a set of used ids, which `UniqueInsideVector` of `InstanceIds`
justifies but for multiples of 32, and takes from `MapUpdater` that its handlers
and map updates never overlap.

### MapUpdater

`world` is where the world thread is: `sessions` (everything outside the map
tick), `schedule` (the loop over `i_maps`), `wait`, `blocked` (asleep on
`m_condition`), `delayed` (`DelayedUpdate`, object accessor, transports), and the
steps of shutdown. `queue` is the ACE activation queue, `job[t]` the map that
worker `t` updates, `kids[t]` the instances a running `MapInstanced::Update` has
still to visit. Each critical section of `m_mutex` is one action: the counter goes
up and the request becomes visible in one step because `schedule_update` holds
the mutex around both, and `update_finished` counts down and broadcasts in one.
`Full` stands for ACE's high-water mark; a request refused by it is recorded in
`skipped`. `Init` leaves open whether `MapUpdate.Threads` is zero. The content of
a map update is left out.

### MySQLConnection and TransactionStore

`pc` is the statement `ExecuteTransaction` is at; each statement is one round
trip with the outcomes a server can produce: done and answered, done and the
answer lost, not sent because the link is dead, refused, or chosen as the victim
of a deadlock. Any statement can be refused, also START TRANSACTION and COMMIT,
whose results `ExecuteTransaction` ignores. `broken` is the time inside
`_HandleMySQLErrno`, where `Open` may succeed, find no server, or connect and fail
to prepare the statements; `m_prepareError` is never reset, so after one such
failure every reconnection fails the statement on a living link. `errno` is what
`GetLastError` returns: every successful statement clears it. `inTrx`, `work` and
`durable` are the server: outside a transaction a query is permanent at once,
because `Open` sets `autocommit`. The server is external and modelled from how the
code uses it; a COMMIT or ROLLBACK it refuses is taken to end the transaction.
Errors that abort the process (outdated schema, parse errors) are left out, and so
are the entries of `m_stmts` a failed preparation leaves behind. `cut`,
`unstarted`, `unstored`, `losses` and `errors` are history.

`TransactionStore` is what `CommitTransaction` promises: a transaction takes
effect completely and once, or not at all, and its answer says which.
`MySQLConnection` implements it (`Promise == INSTANCE TransactionStore WITH ...`)
under a mapping that shows a transaction whose START TRANSACTION failed, or whose
link dropped before COMMIT, as one not executed, and one whose COMMIT was refused as
one that failed. What the code really does to the cut ones is the subject of
`transactions_lost_link`; a refused COMMIT makes `ExecuteTransaction` return true with
nothing stored (`MySQLConnection.cpp`, `Transaction.cpp`).

### DatabaseWorkerPool

Operations are numbered in the order they enter the queue; `applied` is the order
in which they take effect. `Enqueue` blocks at the high-water mark.
`GetFreeConnection` is one step per connection tried, `++i % num_cons` included;
`KeepAlive` walks the same mutexes and then enqueues one ping per worker. `Close`
follows the source's order: close (and flush) the queue, then wait for and delete
each worker, then the synchronous connections. `Master::Run` joins the world
thread, which has joined the network threads, before it closes the pools; the
`Remote` callers are the threads of `RASocket`, which query the login database
directly and which nobody joins, so they may be inside the pool while it closes.
What such a thread finds then is undefined and not followed further: callers take
no step once the pool is closed. `EscapeString` is a state of its own: it uses the
handle of the first synchronous connection without its mutex.

### InstanceIds

The bits of `vector<bool>`, its size and its capacity (libstdc++'s growth is
external), `_nextInstanceId`, and the set of ids really in use. The world thread
registers, generates and frees in single steps. A map thread's `FreeInstanceId`
is four steps, because nothing guards it: compare, set the next id, load the word
that holds the bit, store it. The chunk of 32 and the word of 64 bits are the
constants `Chunk` and `WordBits`, of which the first divides the second. The overflow of the 32-bit id is left out.

### LoginQueue

Sessions are pairs of an account and a copy, so that a new session of an account
can meet the old one. `AddSession_` is one action with all it calls: the old
session leaves the queue (which may let somebody in), is deleted and replaced,
and the newcomer is counted, queued or let in. `DropSession` calls
`RemoveQueuedPlayer` twice, as the source does. `HasRecentlyDisconnected` keeps
the source's order of arguments of `difftime`; the time that has passed is an
input. Packets to the client are left out.

### SessionPackets

The client's packets are numbered in the order sent; `Streams` gives their kinds.
A kind stands for the opcodes with one `SessionStatus` and `PacketProcessing`,
with those apart whose handlers change the session: character list, login,
logout, its cancellation, the end of a transfer. `thread` says whose turn it is
(`World::UpdateSessions` or `Map::Update`), `pc` where that thread is in `Update`.
One turn of the packet loop is two actions, `TakePacket` and what becomes of the
packet, so the network thread can add packets in between; `empty`, `peek` and
`next` are one step because only this thread takes packets out. `ReceivePacket`
and `QueuePacket` are apart because `closing_` is tested without the lock.
`CloseSocket` is one step: between its two critical sections the network thread
could only queue a packet it might have queued before. `handle_close` is two.
`player` is `in` or `out` of the world, `far` is `mSemaphoreTeleport_Far`; which
teleports happen, whether a destination can be entered, and whether times have
passed are inputs. `LogoutPlayer` is one step with the transfers it finishes, and
is taken to find a homebind it can enter; that it saves the player is left out, and
so are Warden, the other query
callbacks, and `LogoutPlayer(false)` when an account is deleted by command.

### WorldSocket

Bytes are units; an outgoing packet is a run of units that carry its number,
which is also its place in the cipher stream of the headers. A step is what one
thread does under one acquisition of `m_OutBufferLock` or `m_SessionLock`.
`accept` is where `open` stands, in the acceptor's thread: the socket is in the
network thread's list before its buffer is allocated. `net` is where
`ReactorRunnable::svc` stands: in the reactor (`handle_input`, `handle_output`,
`handle_close`) or in the loop that calls `Update` and drops closed sockets. The
kernel takes any part of what it is offered, or nothing. `handler` is the
reactor's registration, `refs` the reference count. Input is reassembled from
headers and payloads across reads of `RecvSize`; the client sends a login, a ping
and a packet for the session. `awaited`, `wire`, `refused` and `dropped` are
history. The account checks of `HandleAuthSession` are an input, the cryptography
is left out, and so is a second CMSG_AUTH_SESSION on one connection. A login that
throws half-way leaks its session with the session's reference, as in the code. Where
`handle_input` and the packet log test `m_Session` without `m_SessionLock` and then
use it, test and use are two steps, and a pointer cleared in between may crash the
server (`PeekSession`). `SendPacket` tests and uses it under `m_OutBufferLock` with
`closing_` unset, and whoever clears it has set `closing_` under that lock before.

### InstanceSaves

`w` is one record: saves, binds of players and of the group, the party with its
leader and the players that are linked to it, who is online, the players on each
copy's list, transfers under way, logins under way, pending binds, scheduled events,
used ids, the rows of `instance`, `character_instance`, `group_instance` and
`characters.instance_id`. Handlers are compositions of operators named after the
functions they call, because those functions call each other in several orders; each
handler is one action. A far teleport takes two: while it is under way `FindPlayer`
does not find the player, who is still on the old copy's list, and every test that
uses one or the other sees the difference, as in the code. A login takes two as well:
`LoginRequest` has the rows read, `Login` is `HandlePlayerLogin` with what was read,
which may be stale by then: a bind may name a copy that was reset meanwhile, and the
group may be one the player was put out of. `heroic` is chosen at the start. `Crash`
may come at any time and leaves the rows; `Restart` cleans them as `LoadInstances` does
and loads the groups' binds; where a player stood is the last saved place. Statements
to the database take effect in order (one asynchronous connection,
`OvertakenOnlyInFlight`). Time is left out: events are due and timers run out at
any moment. There is one difficulty, so the difficulty a player has set and the
spawn mode of the map do not differ; the commands with which game masters unbind
players are left out.

### BattlegroundQueue

`q` is one record: the queued groups, the premade and normal queue of each team,
the queue slots of the players, the battlegrounds with their invited counters and
players, the list of battlegrounds with free slots, and the removal events.
`BattlegroundQueueUpdate` is one action with all it does: filling running
battlegrounds (`FillPlayersToBG` with its balancing by `KickGroup`), premade and
normal matches, starting battlegrounds, moving premade groups on. The counters
are unsigned: a decrement below zero wraps (`Wrap`). The time of an invitation is
a stamp kept in the group and in the event, which is how `IsPlayerInvited` tells
an old event from a new one. `place` says whether `FindPlayer` finds a player.
`skipped` is history: an invitation did not find its player. `EndNow` is a
battleground that ends before it began, because it has no map or cannot be set up. A premade counts the
members of a party that are offline, as the code does. The removal for the Inactive
aura, which happens in a map update, is taken as one operation like any other
departure. `TeleportTo` into the battleground is taken to succeed: its result is
ignored (`BattlegroundMgr.cpp:901`). Two updates of the manager are taken to have
different times, as `getMSTime` gives them when more than a millisecond passes;
stamps of equal times could not be told apart. Arenas, ratings, skirmishes, the
testing mode, jumping from one battleground into another and the reminder event are
left out.

## 3. Runs

Deadlock is checked except in `world_socket`, where a socket that is gone is the
end, and `battleground_queue`, where the bounded joins and moves run out. State
counts are distinct states, up to symmetry where a run uses it.

**map_updater** (`MapUpdater.cfg`; 2 base maps, 3 instances of one of them,
2 workers or none, queue bound 2; 7977 states). `PendingCounts`: the counter is
exactly the queued plus the running requests. `Exclusive`: while the world thread
is not in the map phase no worker is in a map, or can be. `NoLostWakeup`: it never
sleeps with nobody to wake it. `EachMapOnce`: each map is updated at most once per
tick and never forgotten, other than by a full queue. `NoDeletedMap`: no request
refers to a deleted map. `WorldThreadReturns`: every tick ends, and shutdown joins
every worker. The bounds let the queue be full, let both workers be inside updates
while a third request waits, and let an instance be created, updated and destroyed
in any order.

**transactions** (`MySQLConnection.cfg`; transactions of 0, 1 and 2 queries, at
most 3 lost links and 3 refused statements; 206112 states). `NoTransactionLeft`: no
transaction stays open between tasks. `RepeatedOnlyByLoss`: repetition costs a
lost link each. `KeepsPromise`: the connection implements `TransactionStore`.
`TaskEnds`: every task ends. Three losses allow the later ones to hit the repeated
statement, the reconnection and the next transaction; three refusals allow START
TRANSACTION, a query or a preparation, and COMMIT to fail in one behaviour.

**database_pool** (`DatabaseWorkerPool.cfg`; 2 callers and one of remote access, 1 or 2
workers, 2 synchronous connections, queue bound 2, 3 operations; 74904 states).
`OvertakenOnlyInFlight`: what order of statements can be relied on: only those in the
hands of workers are overtaken, fewer than there are workers, with one worker none.
`ExecutedOnce`: nothing twice, nothing both executed and dropped. `LockedByUser`: a
direct connection belongs to the one caller that uses it. `DeletedUnused`: `Close`
deletes no worker that runs, and nobody but remote access is in the pool meanwhile.
`EventuallyExecuted`, `EnqueueReturns`: liveness, of the operations and of the callers
that `Enqueue` blocks. A queue of 2 with 3 operations makes callers block; two
callers and two connections let `KeepAlive` meet direct users.

**instance_ids** (`InstanceIds.cfg`; chunk 2, word 4, ids up to 5, 2 map threads,
4 sets of saved ids; 305161 states). `UniqueInsideVector`: races on the bit vector
never unmark an id in use, and an id is given twice only if it is a multiple of
the chunk. `LowestIfAlone`: one thread alone keeps the next id the lowest. Five
ids cross two chunk boundaries and one word boundary.

**login_queue** (`LoginQueue.cfg`; 2 players and a game master, 2 sessions each,
limit 1 or 2 with one change; 1395164 states). `NoDanglingSession`: no list holds
a deleted session, so the unsigned differences of sizes do not wrap.
`SlotsFilledToLimit`: nobody waits while there is room, and those without
privilege do not exceed the limit. `NoOvertaking`: while the limit stays, a
newcomer without privilege is let in only when nobody waits. Two sessions per account are what replacing a session needs.

**session_packets** (`SessionPackets.cfg`; 8 streams of 4 packets; 233172
states). `OrderKept`: packets are handled in order, but for those put back, and
these are passed only by packets that need no player or that came while `Update`
was putting packets back. `NoDanglingPacket`: nothing queued was deleted.
`PlayerChangesInWorldThread`: login and logout never happen in a map thread, and the
answer to a login query never replaces a player that is there.
`PacketsTaken`, `SessionRemoved`: liveness. Four packets are enough for two to be
put back, one to arrive meanwhile and one to follow, and for login, logout,
character list and a second login.

**world_socket** (`WorldSocket.cfg`; world thread and one map thread, buffer 2,
high-water mark 3, packets of 2 and 3 units, the session sends while fewer than 3
packets were encrypted, reads of 3 units; 515418 states). `WireInOrder`: the client
gets the units in the order they were encrypted, except after the ignored
`enqueue_head` of `WorldSocket.cpp:390`; a gap in the cipher stream is only ever
seen while the socket is closing or about to. `ReferencesHeld`: the count is the
number of holders, and whoever is inside a method is one. `NoUpdateBeforeBuffer`:
`m_OutBuffer` is not used before it exists. `NoUseAfterDelete`: under
`m_SessionLock` the network thread never finds a session that is gone; the uses
without the lock are in the model (`PeekSession`) and may meet one, although
`WorldSocket.h:180` says of the lock that it protects `m_Session`. `OutputFlushed`,
`SocketFreed`: liveness. The sizes make a packet fit the buffer exactly, exceed it,
and fill the queue to its mark. A session left behind when `HandleAuthSession`
throws (`leaked`) keeps its reference for ever.

**instance_saves** (`InstanceSaves.cfg`; 2 players, 2 ids, 1 event per id, 1 row
per player, 2 for the group, 1 player at a time that is logging in, on the way in or
has a lock to answer; 595433 states). `LinksMatch`: binds and saves point at each other, and a save
exists exactly while somebody is listed. `StrangersOnlyByLogin`: whoever stays in a
copy shares it with the party only; the one step that can break this is the login of
a player with a group, which looks at nobody in the copy. `IdsStayUsed`: an id that a
save, a row or a player in the copy still has becomes free for a new copy in two ways
only, by the reset of a copy with players in it and by a login whose rows were read
before the copy was reset. `PermBindKept`: nobody else's action takes an online
player's permanent bind. Two players make a leader and a member, a party that
disbands, and two strangers; two ids let one be reset and reused while the other is
bound, and two rows let a group be bound to a second copy. The bounds cut behaviours
that schedule a copy twice, bind one player to more copies, or have two logins under
way. Three players are out of reach of a run.

**battleground_queue** (`BattlegroundQueue.cfg`; 2 players a team, at least 1 and
at most 2 per team, invitation type 1, 2 battlegrounds, 3 joins, 1 refusal, teleport or
logout; 388803 states). `CountExact`: the invited counters are exactly the players
inside, on the way or invited. `NoDeadInvitation`: no invitation leads to a
deleted battleground. `RunningBalanced`: filling a running battleground never
gives a team over one more than the other. These hold as long as every invitation
found its player. `QueueConsistent`: groups, lists, players and slots agree. Three
joins give a premade or a match with one left to fill in; one departure at any
point is what the counters must survive.

Runs that show a disagreement between the code and what a comment says of it
(`findings` in `PROJECT.json` quote the lines):

- **transactions_lost_link** (`AllOrNothing`): a link that drops inside a
  transaction leaves part of it permanent, with autocommit, and reports success.
- **instance_saves_schedule** (`ScheduledWhenEmpty`): a scheduled reset is not
  cancelled when a player enters, because the player is on the map's list before
  the attempt to cancel it.
- **battleground_expiry** (`ExpiryPending`): a player between two maps when the
  group is invited has no event that would withdraw the invitation.

Other places where the code does something its authors may not have meant, met
while modelling, and why no run is about them:

- kept in a model as written, with no line of the repository to hold against it:
  ROLLBACK clears the errno that the retry after a deadlock looks at
  (`Transaction.cpp:80`); an account that disconnected once counts as recently
  disconnected for ever (`World.cpp:304`); the reset flag of a loaded group bind
  is a count read as its opposite (`GroupMgr.cpp:229`); a refused login's response
  is dropped with the socket (`WorldSocket.cpp:792`); a logout frees an invited
  place without an update of the queue (`WorldSession.cpp:464`); a failed
  reconnection leaves a connection without a handle, against the assertion of its
  destructor (`MySQLConnection.cpp:61`);
- behaviours of a model that the property about them allows: ids that are
  multiples of 32 (`MapManager.cpp:432`), two threads freeing ids at once
  (`MapManager.cpp:443`), packets leaked after one was put back
  (`WorldSession.cpp:302`), saves dropped when the pool closes
  (`DatabaseWorkerPool.h:112`), the ignored `enqueue_head` (`WorldSocket.cpp:390`), the
  threads of remote access that are in the pool while it closes, although a comment
  says that "there can be no concurrent access at this point"
  (`DatabaseWorkerPool.h:129`), a refused COMMIT reported as success, a login with
  rows that are stale, a reset that frees the id of a copy with players
  (`MapInstanced.cpp:176`: "Seems it is now possible");
- below or beside the abstraction: no synchronous connection is a division by zero
  (`DatabaseWorkerPool.h:497`); clients that keep arriving keep `UpdateSessions`
  in its first loop (`World.cpp:2618`); a homebind that cannot be entered keeps a
  logout in its loop (`WorldSession.cpp:470`); a save deletes the mutex it holds
  (`InstanceSaveMgr.h:84`); reset events keep ids in 16 bits
  (`InstanceSaveMgr.h:138`); only the first row of respawn times is read
  (`InstanceSaveMgr.cpp:345`); two players leaving together leave a copy without
  an unload timer (`Map.cpp:2518`); a `uint8` index over scheduled updates
  (`BattlegroundMgr.cpp:117`); recursive removal of a rated group
  (`BattlegroundQueue.cpp:402`); `AddEvent` ignores that events are being aborted
  (`EventProcessor.cpp:88`).

### Fairness

`MapUpdater` and `DatabaseWorkerPool` assume weak fairness of each thread's
steps: the operating system runs threads that can run, a map update returns, a
statement returns. Nothing is assumed of what the environment decides (players
arriving, the server being stopped, callers starting operations).
`MySQLConnection` assumes weak fairness of the client thread alone; the server
may stay away for ever. `SessionPackets` assumes weak fairness of the updating
threads together (the tick goes on, `WorldThreadReturns`), of the network thread,
and of the login query's answer (`EventuallyExecuted`); closing, kicking, teleports
and the end of the login queue need not happen. `WorldSocket` assumes weak fairness
of `open`, of what the network thread does outside the reactor's wait, of the threads
that are closing a socket or deleting its session, and of the update that finds the
socket closed; and strong fairness of `handle_output` while the handler is registered
for writing (the kernel accepts bytes again and again as long as the peer reads).
Nothing is assumed of the peer's answer to a close: `CloseSocket` closes only the
writing half, so the reactor may keep its reference for ever, and `SocketFreed` says
so. The other modules have only safety properties and no fairness.

## 4. Proofs

Every theorem below is proved by TLAPS for all values of the constants that
satisfy the named assumption of its module (finite sets where something is
counted, bounds that are numbers, sentinels that are not values). Each module of
proofs has one inductive invariant `Inv` with `Init => Inv` and
`Inv /\ [Next]_vars => Inv'`, checked by TLC on the instance of the run before it was
proved, and derives the theorems from it. None of the properties is inductive as
it stands; what each needs besides is the argument why the code is right.

**MapUpdaterProofs**: `TypeCorrect` (`TypeOK`), `CounterExact` (`PendingCounts`),
`MutualExclusion` (`Exclusive`), `WakeupNotLost` (`NoLostWakeup`), `UpdatedOnce`
(`EachMapOnce`), `RequestsValid` (`NoDeletedMap`). Nothing in `Exclusive` keeps `wait`
from returning while a request is queued, or `update_finished` from leaving the
world thread asleep. The missing link is the counter: `PendingCounts` makes it
exact; `QuietAlone` and `QuietInactive` say that it is zero while the world thread
works alone or the updater is closed; `SleepsOnWork` that it is positive while the
world thread sleeps; `KidsOfBusy` that only a running update schedules instances,
which is why a nested `schedule_update` never happens at zero. A second invariant,
`TickInv`, is about one tick: a map is in one of the loop's rest, the queue, a
worker's hands or the updated ones (`NoneTwice`, `LoopAhead`), an instance is reached
only after its owner and by the worker that has the owner (`KidsOwned`,
`InstanceAfterOwner`), and what was scheduled is not lost (`NoneForgotten`). An
instance is destroyed only by the walk over its own owner, which has not reached it
yet, so no request can refer to it.

**DatabaseWorkerPoolProofs**: `ConnectionsExclusive` (`LockedByUser`), `OperationsOnce`
(`ExecutedOnce`), `QueueOrder` (`OvertakenOnlyInFlight`), `CloseSafe`
(`DeletedUnused`). The queue holds the last numbers issued, in order
(`QueueNumbered`), and whatever was taken comes before all that is left
(`TakenBefore`); so nothing that waits can be behind something that was executed.
The worker that executed an operation has nothing since, or a later one
(`SomeoneAhead`), which bounds how many are overtaken. `CloseInv` follows the order of
`Close`, and says what remote access can be doing meanwhile. Nothing is dropped while
a caller is enqueueing.

**MySQLConnectionProofs**: `NoneLeftOpen` (`NoTransactionLeft`), `RepeatsBounded`
(`RepeatedOnlyByLoss`) and `PromiseKept`, the refinement of `TransactionStore`
(`Spec => KeepsPromise`): initial states map to initial states and every step to a
step of the store or a stutter. A transaction is `Lost` when its link was cut or it was
never started. `SessionInv` ties handle, link and open transaction together,
`CurrentInv` says that until it is lost a transaction has exactly the queries sent so
far, `StoredInv` what is permanent of every transaction, finished or lost. The lemma
`NeverRetried` is a fact about the code that the proof turned up: the ROLLBACK after a
deadlock replaces the errno, so the five retries after error 1213
(`Transaction.cpp:80`) never happen, and `tries = 0` is part of the invariant.

**SessionPacketsProofs**: `PacketsValid` (`NoDanglingPacket`), `HandledInOrder`
(`OrderKept`), `PlayerSafe` (the action property `PlayerChangesInWorldThread`), for
streams of any packets and any length. A packet is in one place at most
(`PlaceInv`). For the order one needs to know how far `Update` still has to look:
`QueueOrder(m)` says that the first `m` packets are in order, and that those behind
were put back in this loop or came since; `firstDelayed` marks the place. `PlayerInv`
has why packets are put back by the world thread alone, and why the map thread
never handles one that could take the player away; it also has that a login query is
under way only while there is no player.

**InstanceIdsProofs**: `IdsUnique` (`UniqueInsideVector`), `LowestReused`
(`LowestIfAlone`), for any number of map threads and any chunk that divides the word
(32 and 64 in the code). A thread that is about to store a word has in it the bit of
every id in use that shares the word (`VectorInv`): ids are generated by the world
thread only when no thread is between load and store. `LowestInv` accounts for every
id below the next one and for every bit that is set. Where the code searches for the
lowest bit that is clear, the proof takes the least element of a set of numbers
(`LeastOf`, from the well-foundedness of `<`).

**LoginQueueProofs**: `ListsValid` (`NoDanglingSession`), `PlacesFilled`
(`SlotsFilledToLimit`), `QueueRespected` (the action property `NoOvertaking`), for
any accounts, limits and number of sessions. `ListsInv` has what makes counting
possible: a session is listed under its own account and nothing is twice in a list,
so the active sessions are the listed less the queued (`ActiveCount`).
`RemovedFacts` says what one call of `RemoveQueuedPlayer` does to the numbers,
`WithoutFacts` what the two calls for one dropped session do together: the second
call counts the leaver again and may let a second player in, but never beyond the
limit. `RestFacts` and `AddCounts` do the same for the three ways `AddSession_` can
go. Nobody passes the queue because with somebody waiting the places are filled,
and `AddSession_` compares with active and queued sessions together.

**WorldOutputProofs**: `OutputInOrder`, that the client gets what `SendPacket`
accepted, in that order and without a hole, unless the ignored `enqueue_head` has
dropped a block; for any sizes, senders, clients and portions the kernel takes. The
invariant is that the units still awaited are those of the buffer and then those of
the queue's blocks, until a block is dropped or an error was found. Flattening a
queue of any length would need an induction over data, so `Laid` states it with the
places where the blocks end; `BufferPacket`, `QueuePacketInLine`, `TakeBuffer`,
`TakeBlock` and `EmptyBlock` say what one step does to them. (`Laid` has no bound on
those places, so TLC checks `WireInOrder` and not this invariant.)

**WorldSocketProofs**: `CountIsHolders` (`ReferencesHeld`), `BufferBeforeUpdate`
(`NoUpdateBeforeBuffer`), `SessionAlive` (`NoUseAfterDelete`), `GapClosed`
(`GapWhileClosing`) and, with `OutputInOrder`, `WireOrdered` (`WireInOrder`), for any
number of map threads, all sizes and any client that logs in at most once. `OpenInv`
follows `open`: `m_OutActive` is set until the buffer is there, which is all that
keeps `Update` away from it. `HolderInv` says that whoever is in a method of the
socket holds a reference, so that `refs` can be compared with the holders step by
step. `SessionInv` has why the early return of `CloseSocket` does no harm: a closing
socket whose `m_Session` is set has a thread that is about to clear it. `LoginFirst`
says that a login meets no earlier session. `GapInv` follows a refused packet to the
close that answers it.

Only model-checked, and why:

- all liveness properties (`WorldThreadReturns`, `EventuallyExecuted`,
  `EnqueueReturns`, `TaskEnds`, `PacketsTaken`, `SessionRemoved`, `OutputFlushed`,
  `SocketFreed`): temporal reasoning under fairness, and `ENABLED`, are out of the
  prover's reach;
- the properties of `InstanceSaves` and `BattlegroundQueue`: their handlers are
  compositions of operators on one record that fold over sets of players and
  sequences of groups, induction over data again;
- the three violated properties, which are about the code as it is.

`TypeOK`, where a module has it, documents the ranges of its variables; the
invariants of the proofs contain what they need of it. No module declares a
recursive operator.

## 5. Not modelled, and the plan

Out of reach or without protocol: spells, entities, AI and scripts (game rules
over database content), collision and path finding, the cryptography of
authentication, the consoles, the extraction tools. `PROJECT.json` lists every
part with the reason.

Of the parts that are modelled, left out are: raids, loot rolls and ready checks of
groups; several dungeons and difficulties at once, warnings and the arithmetic of
reset times; arenas, skirmishes and ratings; grid loading and unloading; the
handlers that leave a session's control state alone.

Next, most important first:

1. Trade's accept protocol, the dungeon finder's proposals and role checks, group
   loot rolls.
2. The event processor with re-entrant additions and abortion; grid states.
3. The authentication server's order of commands per connection.
4. Proofs about the part of `InstanceSaves` that concerns one player at a time.
