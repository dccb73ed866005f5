------------------------- MODULE DatabaseWorkerPool -------------------------
(***************************************************************************)
(* A DatabaseWorkerPool: asynchronous operations pass through one           *)
(* ACE_Activation_Queue to the DatabaseWorker threads, each with its own    *)
(* connection; direct operations borrow one of the synchronous connections  *)
(* by trying their mutexes in turn; KeepAlive pings both kinds; Close ends  *)
(* it all after the threads that Master::Run joins have exited, and whatever *)
(* the threads of remote access, which nobody joins, are doing.             *)
(*                                                                         *)
(* What an operation does to the database is one step here; module          *)
(* MySQLConnection opens that step up for a transaction.                    *)
(***************************************************************************)
EXTENDS Naturals, Sequences, FiniteSets

CONSTANTS
    Callers,    \* threads of the core that use the pool
    Remote,     \* those among them that serve a RASocket
    MaxAsync,   \* most asynchronous connections, each with a DatabaseWorker
    NumSync,    \* synchronous connections
    HighWater,  \* operations at which the activation queue is full
    MaxOps,     \* bound: operations the callers enqueue
    NoOne       \* holder of a connection nobody has locked

ASSUME PoolAssumption ==
    /\ NoOne \notin Callers
    /\ IsFiniteSet(Callers)
    /\ Remote \subseteq Callers
    /\ MaxAsync \in Nat \ {0}
    /\ NumSync \in Nat \ {0}
    /\ HighWater \in Nat \ {0}
    /\ MaxOps \in Nat

Syncs == 0..(NumSync - 1)

VARIABLES
    numAsync,   \* _connectionCount[IDX_ASYNC], from WorkerThreads
    at,         \* at[c]: what caller c is doing in the pool
    idx,        \* idx[c]: the loop variable of GetFreeConnection or KeepAlive,
                \* 0 when c is in neither
    owed,       \* owed[c]: operations c still has to enqueue
    kind,       \* kind[c]: what they are
    lock,       \* lock[s]: who holds m_Mutex of synchronous connection s
    queue,      \* _queue, oldest operation first
    issued,     \* operations enqueued so far; an operation's number is its rank
    job,        \* job[w]: the operation worker w executes (number 0: none)
    applied,    \* numbers of the statements executed, in order of effect
    closing,    \* where DatabaseWorkerPool::Close is
    exited,     \* workers whose svc returned
    deleted,    \* workers (and connections) Close deleted
    dropped,    \* the operations Close flushed
    spent       \* operations callers began to enqueue

callerVars == <<at, idx, owed, kind, spent>>
queueVars  == <<queue, issued>>
workerVars == <<job, applied, exited>>
closeVars  == <<numAsync, closing, deleted, dropped>>
vars == <<callerVars, lock, queueVars, workerVars, closeVars>>

Workers == 1..numAsync

Op(n, k) == [num |-> n, kind |-> k]
Idle == Op(0, "none")

Kinds == {"none", "stmt", "ping"}
Ops == [num : Nat, kind : Kinds]

Full == Len(queue) >= HighWater

TypeOK ==
    /\ numAsync \in 1..MaxAsync
    /\ at \in [Callers -> {"idle", "push", "find", "using", "ping", "pinging",
                           "escaping", "stopped"}]
    /\ idx \in [Callers -> 0..NumSync]
    /\ owed \in [Callers -> 0..MaxOps]
    /\ kind \in [Callers -> Kinds]
    /\ lock \in [Syncs -> Callers \cup {NoOne}]
    /\ queue \in Seq(Ops)
    /\ issued \in Nat
    /\ job \in [Workers -> Ops]
    /\ applied \in Seq(Nat)
    /\ closing \in {"open", "workers", "sync", "closed"}
    /\ exited \subseteq Workers
    /\ deleted \subseteq Workers
    /\ dropped \subseteq Ops
    /\ spent \in 0..MaxOps

\* DatabaseWorkerPool::Open succeeded: every worker waits for work.
Init ==
    /\ numAsync \in 1..MaxAsync
    /\ at = [c \in Callers |-> "idle"]
    /\ idx = [c \in Callers |-> 0]
    /\ owed = [c \in Callers |-> 0]
    /\ kind = [c \in Callers |-> "none"]
    /\ lock = [s \in Syncs |-> NoOne]
    /\ queue = <<>>
    /\ issued = 0
    /\ job = [w \in Workers |-> Idle]
    /\ applied = <<>>
    /\ closing = "open"
    /\ exited = {}
    /\ deleted = {}
    /\ dropped = {}
    /\ spent = 0

-----------------------------------------------------------------------------
(* Asynchronous operations.                                                *)

\* c is about to call Enqueue n times.
BeginEnqueue(c, n, k) ==
    /\ at' = [at EXCEPT ![c] = "push"]
    /\ owed' = [owed EXCEPT ![c] = n]
    /\ kind' = [kind EXCEPT ![c] = k]

\* Execute, AsyncQuery, DelayQueryHolder, CommitTransaction: one task each.
Execute(c) ==
    /\ at[c] = "idle"
    /\ c \notin Remote
    /\ spent < MaxOps
    /\ spent' = spent + 1
    /\ BeginEnqueue(c, 1, "stmt")
    /\ UNCHANGED <<idx, lock, queueVars, workerVars, closeVars>>

\* The queue with an operation enqueued.
Enqueued_AtHead(op) == <<op>> \o queue
Enqueued(op) == Append(queue, op)

\* What c does once one of its operations is enqueued.
AfterEnqueue(c) == IF owed[c] = 1 THEN "idle" ELSE "push"

\* Enqueue: blocks, without a timeout, while the queue is full.
Enqueue(c) ==
    /\ at[c] = "push"
    /\ ~Full
    /\ issued' = issued + 1
    /\ queue' = Enqueued(Op(issued + 1, kind[c]))
    /\ owed' = [owed EXCEPT ![c] = @ - 1]
    /\ at' = [at EXCEPT ![c] = AfterEnqueue(c)]
    /\ kind' = IF owed[c] = 1 THEN [kind EXCEPT ![c] = "none"] ELSE kind
    /\ UNCHANGED <<idx, spent, lock, workerVars, closeVars>>

\* There is an operation to take, and the queue once it was taken.
HasWork_NotLast == Len(queue) > 1
HasWork == queue # <<>>

Taken_Peek == queue
Taken == Tail(queue)

\* DatabaseWorker::svc takes the oldest operation ...
Dequeue(w) ==
    /\ w \notin exited
    /\ job[w] = Idle
    /\ closing = "open"
    /\ HasWork
    /\ job' = [job EXCEPT ![w] = Head(queue)]
    /\ queue' = Taken
    /\ UNCHANGED <<callerVars, lock, issued, applied, exited, closeVars>>

\* ... executes it on its connection and deletes it ...
Call(w) ==
    /\ job[w] # Idle
    /\ applied' = IF job[w].kind = "stmt" THEN Append(applied, job[w].num)
                                          ELSE applied
    /\ job' = [job EXCEPT ![w] = Idle]
    /\ UNCHANGED <<callerVars, lock, queueVars, exited, closeVars>>

\* ... and returns once the queue is closed.
WorkerExits(w) ==
    /\ w \notin exited
    /\ job[w] = Idle
    /\ closing # "open"
    /\ exited' = exited \cup {w}
    /\ UNCHANGED <<callerVars, lock, queueVars, job, applied, closeVars>>

-----------------------------------------------------------------------------
(* Direct operations.                                                      *)

\* DirectExecute, Query, DirectCommitTransaction call GetFreeConnection.
Direct(c) ==
    /\ at[c] = "idle"
    /\ at' = [at EXCEPT ![c] = "find"]
    /\ UNCHANGED <<idx, owed, kind, spent, lock, queueVars, workerVars, closeVars>>

\* GetFreeConnection: ++i % num_cons, then LockIfReady.
GetFreeConnection(c) ==
    LET s == (idx[c] + 1) % NumSync IN
    /\ at[c] = "find"
    /\ idx' = [idx EXCEPT ![c] = s]
    /\ IF lock[s] = NoOne
       THEN /\ lock' = [lock EXCEPT ![s] = c]
            /\ at' = [at EXCEPT ![c] = "using"]
       ELSE UNCHANGED <<lock, at>>
    /\ UNCHANGED <<owed, kind, spent, queueVars, workerVars, closeVars>>

\* Mutant: a path of the caller returns without Unlock.
Unlock_Missing(c) ==
    /\ at[c] = "using"
    /\ at' = [at EXCEPT ![c] = "idle"]
    /\ UNCHANGED <<idx, owed, kind, spent, lock, queueVars, workerVars, closeVars>>

\* The statement is done on every path of the caller: Unlock.
Unlock(c) ==
    /\ at[c] = "using"
    /\ lock' = [lock EXCEPT ![idx[c]] = NoOne]
    /\ idx' = [idx EXCEPT ![c] = 0]
    /\ at' = [at EXCEPT ![c] = "idle"]
    /\ UNCHANGED <<owed, kind, spent, queueVars, workerVars, closeVars>>

\* EscapeString reads the handle of the first synchronous connection, without its
\* mutex.
EscapeString(c) ==
    /\ at[c] = "idle"
    /\ c \notin Remote
    /\ at' = [at EXCEPT ![c] = "escaping"]
    /\ UNCHANGED <<idx, owed, kind, spent, lock, queueVars, workerVars, closeVars>>

Escaped(c) ==
    /\ at[c] = "escaping"
    /\ at' = [at EXCEPT ![c] = "idle"]
    /\ UNCHANGED <<idx, owed, kind, spent, lock, queueVars, workerVars, closeVars>>

-----------------------------------------------------------------------------
(* KeepAlive.                                                              *)

KeepAlive(c) ==
    /\ at[c] = "idle"
    /\ c \notin Remote
    /\ spent + numAsync <= MaxOps
    /\ spent' = spent + numAsync
    /\ at' = [at EXCEPT ![c] = "ping"]
    /\ UNCHANGED <<idx, owed, kind, lock, queueVars, workerVars, closeVars>>

\* A synchronous connection that is in use is not pinged.
PingIfReady(c) ==
    /\ at[c] = "ping"
    /\ idx[c] < NumSync
    /\ IF lock[idx[c]] = NoOne
       THEN /\ lock' = [lock EXCEPT ![idx[c]] = c]
            /\ at' = [at EXCEPT ![c] = "pinging"]
            /\ UNCHANGED idx
       ELSE /\ idx' = [idx EXCEPT ![c] = @ + 1]
            /\ UNCHANGED <<lock, at>>
    /\ UNCHANGED <<owed, kind, spent, queueVars, workerVars, closeVars>>

PingDone(c) ==
    /\ at[c] = "pinging"
    /\ lock' = [lock EXCEPT ![idx[c]] = NoOne]
    /\ at' = [at EXCEPT ![c] = "ping"]
    /\ idx' = [idx EXCEPT ![c] = @ + 1]
    /\ UNCHANGED <<owed, kind, spent, queueVars, workerVars, closeVars>>

\* One PingOperation per asynchronous connection.
PingWorkers(c) ==
    /\ at[c] = "ping"
    /\ idx[c] = NumSync
    /\ BeginEnqueue(c, numAsync, "ping")
    /\ idx' = [idx EXCEPT ![c] = 0]
    /\ UNCHANGED <<spent, lock, queueVars, workerVars, closeVars>>

-----------------------------------------------------------------------------
(* Shutdown: Master::Run joins the world thread, which has joined the        *)
(* network threads, and the remote listeners, then calls Close.             *)

ThreadEnds(c) ==
    /\ at[c] = "idle"
    /\ at' = [at EXCEPT ![c] = "stopped"]
    /\ UNCHANGED <<idx, owed, kind, spent, lock, queueVars, workerVars, closeVars>>

\* Master::Run joins these before it closes the pool.
Joined == Callers \ Remote

\* _queue->queue()->close() deactivates the queue and flushes it.
CloseQueue ==
    /\ closing = "open"
    /\ \A c \in Joined : at[c] = "stopped"
    /\ closing' = "workers"
    /\ dropped' = {queue[n] : n \in 1..Len(queue)}
    /\ queue' = <<>>
    /\ UNCHANGED <<callerVars, lock, issued, workerVars, numAsync, deleted>>

\* worker->wait() has returned.
Waited_Not(w) == TRUE
Waited(w) == w \in exited

\* Per asynchronous connection, in order: wait for its worker, delete both.
CloseWorker(w) ==
    /\ closing = "workers"
    /\ deleted = 1..(w - 1)
    /\ Waited(w)
    /\ deleted' = deleted \cup {w}
    /\ closing' = IF w = numAsync THEN "sync" ELSE closing
    /\ UNCHANGED <<callerVars, lock, queueVars, workerVars, numAsync, dropped>>

\* The synchronous connections are closed without locking them; delete _queue.  What
\* a thread that still uses them does then is undefined; the process is ending.
CloseSync ==
    /\ closing = "sync"
    /\ closing' = "closed"
    /\ UNCHANGED <<callerVars, lock, queueVars, workerVars, numAsync, deleted, dropped>>

-----------------------------------------------------------------------------

Caller(c) ==
    \/ Enqueue(c) \/ GetFreeConnection(c) \/ Unlock(c) \/ Escaped(c)
    \/ PingIfReady(c) \/ PingDone(c) \/ PingWorkers(c)

CallerStarts(c) ==
    Execute(c) \/ Direct(c) \/ EscapeString(c) \/ KeepAlive(c) \/ ThreadEnds(c)

Worker(w) == Dequeue(w) \/ Call(w) \/ WorkerExits(w)

Closer == CloseQueue \/ (\E w \in Workers : CloseWorker(w)) \/ CloseSync

Next ==
    \/ \E c \in Callers : closing # "closed" /\ (Caller(c) \/ CallerStarts(c))
    \/ \E w \in Workers : Worker(w)
    \/ Closer
    \/ closing = "closed" /\ UNCHANGED vars

Spec == Init /\ [][Next]_vars

(* Threads that can run do; which operation a caller starts, and whether it *)
(* starts one, is its own business.                                         *)
Fairness ==
    /\ \A c \in Callers : WF_vars(Caller(c))
    /\ \A w \in 1..MaxAsync : WF_vars(w \in Workers /\ Worker(w))
    /\ WF_vars(Closer)

FairSpec == Spec /\ Fairness

-----------------------------------------------------------------------------
(* Correctness.                                                            *)

Waiting == {queue[n].num : n \in 1..Len(queue)}
Executing == {job[w].num : w \in Workers} \ {0}
Dropped == {op.num : op \in dropped}
Done == {applied[n] : n \in 1..Len(applied)}

\* A statement is overtaken only while a worker executes it: when one has taken
\* effect, all that were enqueued before it have taken effect too or are being
\* executed, and not by every worker, so it has overtaken fewer than numAsync and
\* with a single worker none (DatabaseWorker::svc).
OvertakenOnlyInFlight ==
    \A n \in Done :
        /\ \A k \in 1..n : k \notin Waiting \cup Dropped
        /\ \E w \in Workers : job[w].num \notin 1..n

\* No operation is executed twice, by two workers, or both executed and dropped.
ExecutedOnce ==
    /\ \A n, k \in 1..Len(applied) : applied[n] = applied[k] => n = k
    /\ \A v, w \in Workers : job[v] = job[w] /\ job[v] # Idle => v = w
    /\ Done \cap (Executing \cup Waiting \cup Dropped) = {}
    /\ Executing \cap (Waiting \cup Dropped) = {}

\* A locked synchronous connection is locked by the one caller that is using or
\* pinging it, and every caller using one holds its lock: no two callers send
\* statements on one connection and none stays locked for ever ("Must be matched
\* with t->Unlock()").  EscapeString, which reads a handle without the lock, is
\* outside this protocol.
LockedByUser ==
    /\ \A s \in Syncs : lock[s] # NoOne =>
          at[lock[s]] \in {"using", "pinging"} /\ idx[lock[s]] = s
    /\ \A c \in Callers : at[c] \in {"using", "pinging"} => lock[idx[c]] = c

\* "there can be no concurrent access at this point", as far as it is true: Close
\* deletes a worker with its connection when the worker has left svc, and from the
\* time it closes the queue nobody enqueues, pings or escapes and nobody but a thread
\* of remote access has a synchronous connection (DatabaseWorkerPool::Close).
DeletedUnused ==
    /\ deleted \subseteq exited
    /\ closing \in {"sync", "closed"} => exited = Workers /\ queue = <<>>
    /\ closing # "open" =>
          /\ \A c \in Callers : at[c] \in {"idle", "find", "using", "stopped"}
          /\ \A s \in Syncs : lock[s] \in Remote \cup {NoOne}

\* An operation that was enqueued is executed, unless the pool is closed first
\* (DatabaseWorker::svc).
EventuallyExecuted ==
    \A n \in 1..MaxOps : n \in Waiting ~> (n \notin Waiting \cup Executing)

\* A caller that Enqueue blocks at the high-water mark goes on, once the others have
\* enqueued what they had: the workers never leave a full queue alone.
EnqueueReturns == \A c \in Callers : at[c] = "push" ~> at[c] # "push"

=============================================================================
