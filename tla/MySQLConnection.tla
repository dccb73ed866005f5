-------------------------- MODULE MySQLConnection ---------------------------
(***************************************************************************)
(* One MySQLConnection executing transactions, with the server session it  *)
(* talks to.  TransactionTask::Execute (asynchronous worker) and            *)
(* DatabaseWorkerPool::DirectCommitTransaction (synchronous caller) run the *)
(* same protocol: ExecuteTransaction, and a retry loop for errno 1213.      *)
(*                                                                         *)
(* Every Execute(sql) is one round trip that the server may answer, refuse, *)
(* or drop with the connection before or after doing the work.  A dropped   *)
(* connection is reopened by _HandleMySQLErrno, which repeats the           *)
(* statement, and only the statement, on the new session, unless Open()     *)
(* could not prepare the statements again.                                  *)
(***************************************************************************)
EXTENDS Naturals

CONSTANTS
    Tasks,          \* transactions handed to this connection
    Size,           \* Size[t]: the number of queries Append put into t
    loopBreaker,    \* retries after a deadlock (5 in the code)
    MaxLosses,      \* bound: how often the link may drop
    MaxErrors,      \* bound: how often the server refuses a statement
    NoTask

ASSUME ConnectionAssumption ==
    /\ NoTask \notin Tasks
    /\ Size \in [Tasks -> Nat]
    /\ loopBreaker \in Nat
    /\ MaxLosses \in Nat
    /\ MaxErrors \in Nat

ER_LOCK_DEADLOCK == 1213
ER_OTHER == 1062    \* ER_DUP_ENTRY, or another errno that is only logged
CR_SERVER_GONE_ERROR == 2006

VARIABLES
    task,       \* the transaction being executed, or NoTask
    pc,         \* the statement ExecuteTransaction is at
    itr,        \* its position in m_queries
    tries,      \* executions of the retry loop so far
    broken,     \* Execute met a dead link and is in _HandleMySQLErrno
    handle,     \* m_Mysql is not NULL
    prepareError, \* m_prepareError, which nothing resets
    errno,      \* mysql_errno of the handle
    serverUp,   \* the server accepts connections
    link,       \* the handle has a living session
    inTrx,      \* the session has an open transaction
    work,       \* queries that transaction holds
    durable,    \* durable[t][n]: times query n of t was made permanent
    result,     \* what the execution of t returned
    losses,     \* links dropped so far
    errors,     \* statements refused so far
    cut,        \* transactions whose link dropped between START and COMMIT
    unstarted,  \* transactions whose START TRANSACTION failed
    unstored    \* transactions whose COMMIT was refused

clientVars == <<task, pc, itr, tries, broken, handle, prepareError, errno, result>>
sessionVars == <<link, inTrx, work, durable>>
failures == <<unstarted, unstored>>
ghostVars  == <<losses, errors, cut, failures>>
vars == <<clientVars, serverUp, sessionVars, ghostVars>>

Queries(t) == 1..Size[t]

None(t) == [n \in Queries(t) |-> 0]
Once(t) == [n \in Queries(t) |-> 1]

TypeOK ==
    /\ task \in Tasks \cup {NoTask}
    /\ pc \in {"idle", "begin", "query", "commit", "rollback", "failed", "closed",
              "aborted"}
    /\ pc \in {"idle", "closed", "aborted"} <=> task = NoTask
    /\ itr \in Nat
    /\ tries \in 0..loopBreaker
    /\ broken \in BOOLEAN
    /\ handle \in BOOLEAN
    /\ prepareError \in BOOLEAN
    /\ errno \in {0, ER_LOCK_DEADLOCK, ER_OTHER, CR_SERVER_GONE_ERROR}
    /\ serverUp \in BOOLEAN
    /\ link \in BOOLEAN
    /\ inTrx \in BOOLEAN
    /\ work \subseteq Nat
    /\ \A t \in Tasks : durable[t] \in [Queries(t) -> Nat]
    /\ result \in [Tasks -> {"none", "true", "false"}]
    /\ losses \in 0..MaxLosses
    /\ errors \in 0..MaxErrors
    /\ cut \cup unstarted \cup unstored \subseteq Tasks

\* Open() succeeded at startup.
Init ==
    /\ task = NoTask
    /\ pc = "idle"
    /\ itr = 0
    /\ tries = 0
    /\ broken = FALSE
    /\ handle = TRUE
    /\ prepareError = FALSE
    /\ errno = 0
    /\ serverUp = TRUE
    /\ link = TRUE
    /\ inTrx = FALSE
    /\ work = {}
    /\ durable = [t \in Tasks |-> None(t)]
    /\ result = [t \in Tasks |-> "none"]
    /\ losses = 0
    /\ errors = 0
    /\ cut = {}
    /\ unstarted = {}
    /\ unstored = {}

-----------------------------------------------------------------------------
(* What the server does with the statement ExecuteTransaction is at.        *)
(* Outside a transaction a query is permanent at once (mysql_autocommit 1). *)

MadePermanent(qs) ==
    [durable EXCEPT ![task] =
        [n \in Queries(task) |-> IF n \in qs THEN @[n] + 1 ELSE @[n]]]

DurableAfter ==
    CASE pc \in {"begin", "commit"}   -> MadePermanent(work)
      [] pc = "query" /\ ~inTrx       -> MadePermanent({itr})
      [] OTHER                        -> durable

InTrxAfter == pc = "begin" \/ (pc = "query" /\ inTrx)

WorkAfter == IF pc = "query" /\ inTrx THEN work \cup {itr} ELSE {}

(* The session ends: whatever its transaction held is rolled back.          *)
SessionEnds ==
    /\ link' = FALSE
    /\ inTrx' = FALSE
    /\ work' = {}
    /\ losses' = losses + 1
    /\ cut' = IF pc \in {"query", "commit"} THEN cut \cup {task} ELSE cut

-----------------------------------------------------------------------------
\* Cleanup: the task lets go of the transaction.
Cleanup == NoTask

\* Where a query that fails sends ExecuteTransaction.
AfterRefusal_NoRollback == "failed"
AfterRefusal_Commit == "commit"
AfterRefusal == "rollback"

(* ExecuteTransaction after Execute returned ok at the current statement.   *)
(* The results of START TRANSACTION, ROLLBACK and COMMIT are ignored.       *)
Continue(ok) ==
    \/ /\ pc = "begin"
       /\ pc' = "query"
       /\ itr' = 1
       /\ UNCHANGED <<task, result>>
    \/ /\ pc = "query"
       /\ ok
       /\ pc' = IF itr < Size[task] THEN "query" ELSE "commit"
       /\ itr' = itr + 1
       /\ UNCHANGED <<task, result>>
    \/ /\ pc = "query"
       /\ ~ok
       /\ pc' = AfterRefusal
       /\ UNCHANGED <<task, itr, result>>
    \/ /\ pc = "rollback"
       /\ pc' = "failed"
       /\ UNCHANGED <<task, itr, result>>
    \/ /\ pc = "commit"
       /\ pc' = "idle"
       /\ task' = Cleanup
       /\ result' = [result EXCEPT ![task] = "true"]
       /\ UNCHANGED itr

InExecute == pc \in {"begin", "query", "commit", "rollback"}

Sending == InExecute /\ handle /\ ~broken

\* The worker takes the next transaction; an empty one is not executed.
StartTask(t) ==
    /\ pc = "idle"
    /\ result[t] = "none"
    /\ task' = t
    /\ pc' = IF Size[t] = 0 THEN "failed" ELSE "begin"
    /\ tries' = 0
    /\ UNCHANGED <<itr, broken, handle, prepareError, errno, result, serverUp,
                   sessionVars, ghostVars>>

\* Execute: the server did it and said so.
Answered ==
    /\ Sending
    /\ link
    /\ errno' = 0
    /\ durable' = DurableAfter
    /\ inTrx' = InTrxAfter
    /\ work' = WorkAfter
    /\ Continue(TRUE)
    /\ UNCHANGED <<tries, broken, handle, prepareError, serverUp, link, ghostVars>>

\* Execute: the server did it, but the link dropped before the answer.
AnswerLost ==
    /\ Sending
    /\ link
    /\ losses < MaxLosses
    /\ durable' = DurableAfter
    /\ SessionEnds
    /\ errno' = CR_SERVER_GONE_ERROR
    /\ broken' = TRUE
    /\ UNCHANGED <<task, pc, itr, tries, handle, prepareError, result, serverUp,
                   errors, failures>>

\* Execute: the link was already dead when the statement was sent.
SendFailed ==
    /\ Sending
    /\ ~link
    /\ errno' = CR_SERVER_GONE_ERROR
    /\ broken' = TRUE
    /\ UNCHANGED <<task, pc, itr, tries, handle, prepareError, result, serverUp,
                   sessionVars, ghostVars>>

\* Execute: the query lost a lock cycle; InnoDB rolls the transaction back.
Deadlock ==
    /\ Sending
    /\ link
    /\ pc = "query"
    /\ errors < MaxErrors
    /\ errors' = errors + 1
    /\ errno' = ER_LOCK_DEADLOCK
    /\ inTrx' = FALSE
    /\ work' = {}
    /\ Continue(FALSE)
    /\ UNCHANGED <<tries, broken, handle, prepareError, serverUp, link, durable,
                   losses, cut, failures>>

\* Execute: the server refuses the statement on a living link.  A query leaves the
\* transaction open; START TRANSACTION opens none, COMMIT and ROLLBACK end it.
Refused ==
    /\ Sending
    /\ link
    /\ errors < MaxErrors
    /\ errors' = errors + 1
    /\ errno' = ER_OTHER
    /\ inTrx' = (inTrx /\ pc = "query")
    /\ work' = IF pc = "query" THEN work ELSE {}
    /\ unstarted' = IF pc = "begin" THEN unstarted \cup {task} ELSE unstarted
    /\ unstored' = IF pc = "commit" /\ inTrx THEN unstored \cup {task} ELSE unstored
    /\ Continue(FALSE)
    /\ UNCHANGED <<tries, broken, handle, prepareError, serverUp, link, durable,
                   losses, cut>>

\* Execute returns false at once when m_Mysql is NULL.
NoHandle ==
    /\ InExecute
    /\ ~handle
    /\ ~broken
    /\ Continue(FALSE)
    /\ UNCHANGED <<tries, broken, handle, prepareError, errno, serverUp,
                   sessionVars, ghostVars>>

\* Mutant: the queries are sent again from the first one.
Reconnect_FromFirst ==
    /\ broken
    /\ serverUp
    /\ ~prepareError
    /\ broken' = FALSE
    /\ link' = TRUE
    /\ errno' = 0
    /\ pc' = IF pc = "commit" THEN "query" ELSE pc
    /\ itr' = 1
    /\ UNCHANGED <<task, tries, handle, prepareError, result, serverUp, inTrx, work,
                   durable, ghostVars>>

\* _HandleMySQLErrno: Open() succeeds, and the statement is tried again.
Reconnect ==
    /\ broken
    /\ serverUp
    /\ ~prepareError
    /\ broken' = FALSE
    /\ link' = TRUE
    /\ errno' = 0
    /\ UNCHANGED <<task, pc, itr, tries, handle, prepareError, result, serverUp,
                   inTrx, work, durable, ghostVars>>

\* _HandleMySQLErrno: Open() connects, but PrepareStatements fails, or failed once
\* before.  The new handle has no connection error, so the recursive call ends in
\* the default branch and the statement fails on a living link.
ReconnectUnprepared ==
    /\ broken
    /\ serverUp
    /\ \/ prepareError /\ UNCHANGED errors
       \/ ~prepareError /\ errors < MaxErrors /\ errors' = errors + 1
    /\ prepareError' = TRUE
    /\ broken' = FALSE
    /\ link' = TRUE
    /\ errno' = 0
    /\ unstarted' = IF pc = "begin" THEN unstarted \cup {task} ELSE unstarted
    /\ Continue(FALSE)
    /\ UNCHANGED <<tries, handle, serverUp, inTrx, work, durable, losses, cut,
                   unstored>>

\* _HandleMySQLErrno: Open() connects, but the link drops while the statements are
\* prepared, which is a connection error again.
PrepareLost ==
    /\ broken
    /\ serverUp
    /\ losses < MaxLosses
    /\ losses' = losses + 1
    /\ prepareError' = TRUE
    /\ UNCHANGED <<task, pc, itr, tries, broken, handle, errno, result, serverUp,
                   sessionVars, errors, cut, failures>>

\* Mutant: reconnecting is tried for ever.
ReconnectFailed_Again == broken /\ ~serverUp /\ UNCHANGED vars

\* _HandleMySQLErrno: Open() leaves m_Mysql NULL, whose mysql_errno is not a
\* connection error, so the recursive call ends in the default branch.
ReconnectFailed ==
    /\ broken
    /\ ~serverUp
    /\ broken' = FALSE
    /\ handle' = FALSE
    /\ errno' = 0
    /\ Continue(FALSE)
    /\ UNCHANGED <<tries, prepareError, serverUp, sessionVars, ghostVars>>

\* TransactionTask::Execute after ExecuteTransaction returned false: start the
\* retry loop on errno 1213, stay in it until its end, else clean up.
AfterFailure ==
    /\ pc = "failed"
    /\ IF tries < loopBreaker /\ (tries > 0 \/ errno = ER_LOCK_DEADLOCK)
       THEN /\ pc' = "begin"
            /\ tries' = tries + 1
            /\ UNCHANGED <<task, result>>
       ELSE /\ pc' = "idle"
            /\ task' = Cleanup
            /\ result' = [result EXCEPT ![task] = "false"]
            /\ UNCHANGED tries
    /\ UNCHANGED <<itr, broken, handle, prepareError, errno, serverUp, sessionVars,
                   ghostVars>>

\* DatabaseWorkerPool::Close, after the worker has ended.  The destructor asserts
\* that there is a handle.
Close ==
    /\ pc = "idle"
    /\ pc' = IF handle THEN "closed" ELSE "aborted"
    /\ link' = FALSE
    /\ UNCHANGED <<task, itr, tries, broken, handle, prepareError, errno, result,
                   serverUp, inTrx, work, durable, ghostVars>>

-----------------------------------------------------------------------------
(* The server (external).                                                  *)

DropLink ==
    /\ link
    /\ losses < MaxLosses
    /\ SessionEnds
    /\ UNCHANGED <<clientVars, serverUp, durable, errors, failures>>

ServerStops ==
    /\ serverUp
    /\ ~link
    /\ serverUp' = FALSE
    /\ UNCHANGED <<clientVars, sessionVars, ghostVars>>

ServerStarts ==
    /\ ~serverUp
    /\ serverUp' = TRUE
    /\ UNCHANGED <<clientVars, sessionVars, ghostVars>>

Client ==
    \/ Answered \/ AnswerLost \/ SendFailed \/ Deadlock \/ Refused \/ NoHandle
    \/ Reconnect \/ ReconnectUnprepared \/ PrepareLost \/ ReconnectFailed
    \/ AfterFailure
    \/ \E t \in Tasks : StartTask(t)

Next ==
    \/ Client
    \/ Close
    \/ DropLink \/ ServerStops \/ ServerStarts
    \/ pc \in {"closed", "aborted"} /\ UNCHANGED vars

Spec == Init /\ [][Next]_vars

(* The worker thread keeps running; the server's faults are not forced.     *)
FairSpec == Spec /\ WF_vars(Client)
-----------------------------------------------------------------------------
(* Correctness.                                                            *)

\* Between transactions the session has no transaction open, so the next task
\* neither commits nor loses what an earlier one left behind, although the
\* result of ROLLBACK is ignored (RollbackTransaction).
NoTransactionLeft ==
    pc \in {"idle", "failed", "closed", "aborted"} => ~inTrx /\ work = {}

\* A query becomes permanent more often than once only through dropped links: each
\* of them repeats it at most once, and the first is spent on losing the transaction,
\* unless START TRANSACTION had failed and there was none (Execute "Try again").
RepeatedOnlyByLoss ==
    \A t \in Tasks : \A n \in Queries(t) :
        durable[t][n] <= CASE t \in unstarted -> losses + 1
                           [] t \in cut \ unstarted -> losses
                           [] OTHER -> 1

\* Every transaction the worker takes is finished: reconnecting and retrying
\* never keep it for ever (TransactionTask::Execute, _HandleMySQLErrno).
TaskEnds == \A t \in Tasks : task = t ~> result[t] # "none"

\* "automatically rollback if not commited. (Autocommit=0)": whatever happens to
\* the connection, the queries of a finished transaction are all permanent or
\* all absent (DatabaseWorkerPool::BeginTransaction).
AllOrNothing ==
    \A t \in Tasks : result[t] # "none" => durable[t] \in {None(t), Once(t)}

\* What is promised to the callers of transactions, and the part of the state that
\* keeps it.  A transaction whose START TRANSACTION failed, or whose link dropped
\* between START TRANSACTION and COMMIT, has no transaction on the server and is
\* seen as one that was not executed; one whose COMMIT was refused is seen as one
\* that failed, although ExecuteTransaction returns true.
Uncut(f, missing(_)) ==
    [t \in Tasks |-> IF t \in cut \cup unstarted THEN missing(t) ELSE f[t]]
Unanswered(t) == "none"
Meant ==
    [t \in Tasks |-> IF t \in unstored /\ result[t] = "true" THEN "false" ELSE result[t]]

Promise == INSTANCE TransactionStore
             WITH durable <- Uncut(durable, None),
                  result <- Uncut(Meant, Unanswered)

\* The connection implements the promised store for every transaction that did not
\* lose its START TRANSACTION: it takes effect completely and once, or not at all,
\* and the value returned says which unless COMMIT was refused, whatever is refused,
\* deadlocked, retried or not prepared again, and whatever is lost before, after or
\* in other transactions (ExecuteTransaction, TransactionTask::Execute).
KeepsPromise == Promise!Spec
=============================================================================
