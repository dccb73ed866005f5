----------------------- MODULE MySQLConnectionProofs -----------------------
(***************************************************************************)
(* Proofs about MySQLConnection for all transactions and every number of    *)
(* dropped links and refused statements: no transaction is left open        *)
(* between tasks, a query is repeated only by dropped links, and the        *)
(* connection implements TransactionStore for the transactions that keep    *)
(* their START TRANSACTION.                                                 *)
(***************************************************************************)
EXTENDS MySQLConnection, TLAPS

\* The transactions that have no transaction on the server.
Lost == cut \cup unstarted

\* How often a query of a lost transaction may have become permanent.
Repeats(t) == IF t \in unstarted THEN losses + 1 ELSE losses

\* The session and the handle.  The ROLLBACK that follows a deadlock replaces
\* errno, so it is 1213 only until then and AfterFailure finds no deadlock.
SessionInv ==
    /\ errno = ER_LOCK_DEADLOCK => pc = "rollback" /\ handle /\ ~broken
    /\ tries = 0
    /\ broken => InExecute /\ handle /\ ~link
    /\ ~handle => ~link
    /\ ~link => ~inTrx
    /\ ~inTrx => work = {}
    /\ pc \in {"idle", "begin", "failed", "closed", "aborted"} => ~inTrx

\* The transaction being executed: until it is lost the session has exactly the
\* queries sent so far, afterwards it has no transaction at all.
CurrentInv ==
    /\ task # NoTask => result[task] = "none" /\ task \notin unstored
    /\ pc = "begin" => task \notin Lost /\ Size[task] > 0
    /\ pc = "query" => itr \in Queries(task)
    /\ pc = "query" /\ task \notin Lost /\ handle => inTrx /\ work = 1..(itr - 1)
    /\ pc = "commit" /\ task \notin Lost => inTrx /\ work = Queries(task)
    /\ pc \in {"query", "commit"} /\ task \in Lost => ~inTrx

\* What is permanent.
StoredInv ==
    /\ durable = [t \in Tasks |-> durable[t]]
    /\ \A t \in Tasks \ Lost :
          durable[t] = IF Meant[t] = "true" THEN Once(t) ELSE None(t)
    /\ \A t \in unstored : result[t] = "true"
    /\ \A t \in Lost : t = task \/ result[t] # "none"
    /\ \A t \in Lost : Repeats(t) > 0
    /\ \A t \in Lost : \A n \in Queries(t) : durable[t][n] <= Repeats(t)
    /\ pc = "query" /\ task \in Lost =>
          /\ durable[task][itr] < Repeats(task)
          /\ \A n \in Queries(task) : n > itr => durable[task][n] = 0

\* The inductive invariant.
Inv ==
    /\ TypeOK
    /\ SessionInv
    /\ CurrentInv
    /\ StoredInv

-----------------------------------------------------------------------------
\* Open establishes the invariant.
LEMMA InvInit == Init => Inv
<1> SUFFICES ASSUME Init PROVE Inv
  OBVIOUS
<1> USE ConnectionAssumption
<1>1. \A t \in Tasks : durable[t] = None(t) /\ durable[t] \in [Queries(t) -> Nat]
  BY DEF Init, None, Queries
<1>2. TypeOK
  <2>1. result \in [Tasks -> {"none", "true", "false"}]
    BY DEF Init
  <2>2. tries \in 0..loopBreaker /\ losses \in 0..MaxLosses /\ errors \in 0..MaxErrors
    BY DEF Init
  <2> QED
    BY <1>1, <2>1, <2>2 DEF Init, TypeOK
<1>3. SessionInv /\ CurrentInv
  BY DEF Init, SessionInv, CurrentInv, ER_LOCK_DEADLOCK
<1>4. StoredInv
  BY <1>1 DEF Init, StoredInv, Lost, Meant
<1> QED
  BY <1>2, <1>3, <1>4 DEF Inv

-----------------------------------------------------------------------------
(* What the server makes permanent.                                        *)

\* MadePermanent counts the queries in qs once more.
LEMMA Permanent ==
    ASSUME Inv, task \in Tasks, NEW qs
    PROVE  /\ MadePermanent(qs) = [t \in Tasks |-> MadePermanent(qs)[t]]
           /\ \A t \in Tasks : t # task => MadePermanent(qs)[t] = durable[t]
           /\ MadePermanent(qs)[task] \in [Queries(task) -> Nat]
           /\ \A n \in Queries(task) :
                 MadePermanent(qs)[task][n] =
                    IF n \in qs THEN durable[task][n] + 1 ELSE durable[task][n]
<1> DEFINE f == [n \in Queries(task) |->
                    IF n \in qs THEN durable[task][n] + 1 ELSE durable[task][n]]
<1>1. MadePermanent(qs) = [durable EXCEPT ![task] = f]
  BY DEF MadePermanent
<1>2. f \in [Queries(task) -> Nat]
  BY DEF Inv, TypeOK
<1>3. durable = [t \in Tasks |-> durable[t]]
  BY DEF Inv, StoredInv
<1> HIDE DEF f
<1>4. /\ MadePermanent(qs) = [t \in Tasks |-> IF t = task THEN f ELSE durable[t]]
  BY <1>1, <1>3
<1> QED
  BY <1>2, <1>4 DEF f

\* A statement touches only the transaction it belongs to.  Until that is lost,
\* nothing but COMMIT makes queries permanent, and COMMIT all of them once; when it
\* is, each query is made permanent as it is sent.
LEMMA ServerEffect ==
    ASSUME Inv, Sending, link
    PROVE  /\ task \in Tasks
           /\ DurableAfter = [t \in Tasks |-> DurableAfter[t]]
           /\ \A t \in Tasks : t # task => DurableAfter[t] = durable[t]
           /\ DurableAfter[task] \in [Queries(task) -> Nat]
           /\ task \notin Lost =>
                 DurableAfter[task] = IF pc = "commit" THEN Once(task) ELSE None(task)
           /\ task \in Lost => \A n \in Queries(task) :
                 DurableAfter[task][n] =
                    IF pc = "query" /\ n = itr THEN durable[task][n] + 1
                                               ELSE durable[task][n]
<1>1. task \in Tasks /\ pc \in {"begin", "query", "commit", "rollback"} /\ handle
  BY DEF Inv, TypeOK, Sending, InExecute
<1>2. /\ durable = [t \in Tasks |-> durable[t]]
      /\ durable[task] \in [Queries(task) -> Nat]
      /\ task \notin Lost => durable[task] = None(task)
  <2>1. task \notin Lost => durable[task] = None(task)
    BY <1>1, ConnectionAssumption DEF Inv, CurrentInv, StoredInv, Meant
  <2> QED
    BY <1>1, <2>1 DEF Inv, TypeOK, StoredInv
<1>3. CASE pc = "begin" \/ (pc = "commit" /\ task \in Lost)
  <2>1. work = {} /\ DurableAfter = MadePermanent({})
    BY <1>3 DEF Inv, SessionInv, CurrentInv, DurableAfter
  <2>2. \A n \in Queries(task) : DurableAfter[task][n] = durable[task][n]
    BY <1>1, <2>1, Permanent
  <2>3. DurableAfter[task] = durable[task]
    BY <1>1, <1>2, <2>1, <2>2, Permanent
  <2> QED
    BY <1>1, <1>2, <1>3, <2>1, <2>3, Permanent
<1>4. CASE pc = "commit" /\ task \notin Lost
  <2>1. work = Queries(task) /\ DurableAfter = MadePermanent(work)
    BY <1>4 DEF Inv, CurrentInv, DurableAfter
  <2>2. \A n \in Queries(task) : DurableAfter[task][n] = 1
    BY <1>1, <1>2, <1>4, <2>1, Permanent DEF None
  <2>3. DurableAfter[task] = Once(task)
    BY <1>1, <2>1, <2>2, Permanent DEF Once
  <2> QED
    BY <1>1, <1>4, <2>1, <2>3, Permanent
<1>5. CASE pc = "query" /\ ~inTrx
  <2>1. task \in Lost /\ DurableAfter = MadePermanent({itr})
    BY <1>1, <1>5 DEF Inv, CurrentInv, DurableAfter
  <2> QED
    BY <1>1, <1>5, <2>1, Permanent
<1>6. CASE (pc = "query" /\ inTrx) \/ pc = "rollback"
  <2>1. DurableAfter = durable /\ (task \in Lost => pc # "query")
    BY <1>6 DEF Inv, CurrentInv, DurableAfter
  <2> QED
    BY <1>1, <1>2, <1>6, <2>1
<1> QED
  BY <1>1, <1>3, <1>4, <1>5, <1>6

-----------------------------------------------------------------------------
(* Types.                                                                  *)

\* ExecuteTransaction stays at its statements, and lets go of the transaction
\* when it returns.
LEMMA ContinueType ==
    ASSUME Inv, NEW ok \in BOOLEAN, Continue(ok)
    PROVE  /\ task \in Tasks
           /\ task' \in Tasks \cup {NoTask}
           /\ pc' \in {"idle", "query", "commit", "rollback", "failed"}
           /\ pc' \in {"idle", "closed", "aborted"} <=> task' = NoTask
           /\ itr' \in Nat
           /\ result' \in [Tasks -> {"none", "true", "false"}]
BY ConnectionAssumption DEF Inv, TypeOK, Continue, AfterRefusal, Cleanup

\* A dropped link is counted, and the transaction it cuts off is noted.
LEMMA EndType ==
    ASSUME Inv, SessionEnds, losses < MaxLosses, UNCHANGED unstarted
    PROVE  /\ link' = FALSE /\ inTrx' = FALSE /\ work' = {}
           /\ losses' = losses + 1 /\ losses' \in 0..MaxLosses
           /\ cut' \subseteq Tasks
           /\ Lost \subseteq Lost' /\ Lost' \subseteq Lost \cup {task}
           /\ Lost' \subseteq Tasks
           /\ pc \in {"query", "commit"} => task \in Lost'
           /\ pc \notin {"query", "commit"} => Lost' = Lost
<1>1. pc \in {"query", "commit"} => task \in Tasks
  BY DEF Inv, TypeOK
<1> QED
  BY <1>1, ConnectionAssumption DEF Inv, TypeOK, SessionEnds, Lost

\* Every step keeps the types.
LEMMA TypeNext == Inv /\ [Next]_vars => TypeOK'
<1> SUFFICES ASSUME Inv, [Next]_vars PROVE TypeOK'
  OBVIOUS
<1> USE ConnectionAssumption DEF clientVars, sessionVars, ghostVars, failures
<1>1. TypeOK
  BY DEF Inv
<1>2. ASSUME Sending, link, durable' = DurableAfter
      PROVE  \A t \in Tasks : durable'[t] \in [Queries(t) -> Nat]
  BY <1>1, <1>2, ServerEffect DEF TypeOK
<1>3. CASE Answered
  <2>1. work' \subseteq Nat
    BY <1>1, <1>3 DEF Answered, WorkAfter, TypeOK
  <2>2. inTrx' \in BOOLEAN
    BY <1>3 DEF Answered, InTrxAfter
  <2> QED
    BY <1>1, <1>2, <1>3, <2>1, <2>2, ContinueType DEF Answered, TypeOK
<1>4. CASE AnswerLost
  BY <1>1, <1>2, <1>4, EndType DEF AnswerLost, TypeOK
<1>5. CASE SendFailed
  BY <1>1, <1>5 DEF SendFailed, TypeOK
<1>6. CASE Deadlock \/ Refused
  <2>1. Continue(FALSE)
    BY <1>6 DEF Deadlock, Refused
  <2>2. errors' = errors + 1 /\ errors < MaxErrors
    BY <1>6 DEF Deadlock, Refused
  <2>3. errors' \in 0..MaxErrors
    BY <1>1, <2>2 DEF TypeOK
  <2>4. /\ inTrx' \in BOOLEAN /\ work' \subseteq Nat
        /\ errno' \in {ER_LOCK_DEADLOCK, ER_OTHER}
        /\ UNCHANGED <<tries, broken, handle, prepareError, serverUp, link, durable,
                       losses, cut>>
    BY <1>1, <1>6 DEF Deadlock, Refused, TypeOK
  <2>5. /\ unstarted' \subseteq unstarted \cup {task}
        /\ unstored' \subseteq unstored \cup {task}
    BY <1>6 DEF Deadlock, Refused
  <2> QED
    BY <1>1, <2>1, <2>3, <2>4, <2>5, ContinueType DEF TypeOK
<1>7. CASE NoHandle
  BY <1>1, <1>7, ContinueType DEF NoHandle, TypeOK
<1>8. CASE Reconnect
  BY <1>1, <1>8 DEF Reconnect, TypeOK
<1>9. CASE ReconnectFailed
  BY <1>1, <1>9, ContinueType DEF ReconnectFailed, TypeOK
<1>16. CASE ReconnectUnprepared
  <2>1. Continue(FALSE) /\ unstarted' \subseteq unstarted \cup {task}
    BY <1>16 DEF ReconnectUnprepared
  <2>2. errors' \in 0..MaxErrors
    BY <1>1, <1>16 DEF ReconnectUnprepared, TypeOK
  <2> QED
    BY <1>1, <1>16, <2>1, <2>2, ContinueType DEF ReconnectUnprepared, TypeOK
<1>17. CASE PrepareLost
  BY <1>1, <1>17 DEF PrepareLost, TypeOK
<1>10. CASE AfterFailure
  BY <1>1, <1>10 DEF AfterFailure, Cleanup, TypeOK
<1>11. ASSUME NEW t \in Tasks, StartTask(t) PROVE TypeOK'
  BY <1>1, <1>11 DEF StartTask, TypeOK
<1>12. CASE Close
  BY <1>1, <1>12 DEF Close, TypeOK
<1>13. CASE DropLink
  BY <1>1, <1>13, EndType DEF DropLink, TypeOK
<1>14. CASE ServerStops \/ ServerStarts
  <2>1. /\ serverUp' \in BOOLEAN
        /\ UNCHANGED <<clientVars, sessionVars, ghostVars>>
    BY <1>14 DEF ServerStops, ServerStarts
  <2> QED
    BY <1>1, <2>1 DEF TypeOK
<1>15. CASE UNCHANGED vars
  BY <1>1, <1>15 DEF vars, TypeOK
<1> QED
  BY <1>3, <1>4, <1>5, <1>6, <1>7, <1>8, <1>9, <1>10, <1>11, <1>12, <1>13,
     <1>14, <1>15, <1>16, <1>17 DEF Next, Client

-----------------------------------------------------------------------------
(* The session.                                                            *)

\* Every step keeps SessionInv.
LEMMA SessionNext == Inv /\ [Next]_vars => SessionInv'
<1> SUFFICES ASSUME TypeOK, SessionInv, [Next]_vars PROVE SessionInv'
  BY DEF Inv
<1> USE DEF clientVars, sessionVars, ghostVars, SessionInv, InExecute,
            ER_LOCK_DEADLOCK, ER_OTHER, CR_SERVER_GONE_ERROR
<1>1. CASE Answered
  <2>1. /\ errno' = 0 /\ handle /\ link /\ ~broken
        /\ inTrx' = InTrxAfter /\ work' = WorkAfter
        /\ UNCHANGED <<tries, broken, handle, link>>
    BY <1>1 DEF Answered, Sending
  <2>3. inTrx' => pc \in {"begin", "query"}
    BY <2>1 DEF InTrxAfter
  <2>4. ~inTrx' => work' = {}
    BY <2>1 DEF InTrxAfter, WorkAfter
  <2>5. pc \in {"begin", "query"} => pc' \in {"query", "commit"}
    BY <1>1 DEF Answered, Continue
  <2> QED
    BY <2>1, <2>3, <2>4, <2>5
<1>2. CASE AnswerLost \/ SendFailed
  BY <1>2 DEF AnswerLost, SendFailed, Sending, SessionEnds
<1>3. CASE Deadlock
  BY <1>3 DEF Deadlock, Sending, Continue, AfterRefusal
<1>13. CASE Refused
  <2>1. /\ errno' = ER_OTHER /\ handle /\ link /\ ~broken
        /\ inTrx' => inTrx /\ pc = "query"
        /\ ~inTrx' => work' = {}
        /\ UNCHANGED <<tries, broken, handle, link>>
    BY <1>13 DEF Refused, Sending, TypeOK
  <2>2. pc = "query" => pc' = "rollback"
    BY <1>13 DEF Refused, Continue, AfterRefusal
  <2> QED
    BY <2>1, <2>2
<1>14. CASE ReconnectUnprepared
  BY <1>14 DEF ReconnectUnprepared, Continue, AfterRefusal
<1>15. CASE PrepareLost
  BY <1>15 DEF PrepareLost
<1>4. CASE NoHandle
  BY <1>4 DEF NoHandle, Continue, AfterRefusal
<1>5. CASE Reconnect
  BY <1>5 DEF Reconnect
<1>6. CASE ReconnectFailed
  BY <1>6 DEF ReconnectFailed, Continue, AfterRefusal
<1>7. CASE AfterFailure
  BY <1>7 DEF AfterFailure
<1>8. ASSUME NEW t \in Tasks, StartTask(t) PROVE SessionInv'
  BY <1>8 DEF StartTask
<1>9. CASE Close
  BY <1>9 DEF Close
<1>10. CASE DropLink
  BY <1>10 DEF DropLink, SessionEnds
<1>11. CASE ServerStops \/ ServerStarts
  BY <1>11 DEF ServerStops, ServerStarts
<1>12. CASE UNCHANGED vars
  BY <1>12 DEF vars
<1> QED
  BY <1>1, <1>2, <1>3, <1>4, <1>5, <1>6, <1>7, <1>8, <1>9, <1>10, <1>11, <1>12,
     <1>13, <1>14, <1>15 DEF Next, Client

-----------------------------------------------------------------------------
(* The transaction being executed.                                         *)

\* With no transaction retried, AfterFailure always gives up.
LEMMA NeverRetried ==
    ASSUME Inv, AfterFailure
    PROVE  /\ pc = "failed" /\ pc' = "idle" /\ task \in Tasks /\ task' = NoTask
           /\ result' = [result EXCEPT ![task] = "false"]
           /\ UNCHANGED <<durable, cut, losses, unstarted, unstored>>
<1>1. tries = 0 /\ errno # ER_LOCK_DEADLOCK /\ pc = "failed" /\ task \in Tasks
  BY DEF AfterFailure, Inv, SessionInv, TypeOK
<1> QED
  BY <1>1 DEF AfterFailure, Cleanup, sessionVars, ghostVars, failures

\* At COMMIT a link that is gone has been noted.
LEMMA LostAtCommit ==
    ASSUME Inv, pc = "commit", ~link
    PROVE  task \in Lost
BY DEF Inv, SessionInv, CurrentInv

\* Every step keeps CurrentInv.
LEMMA CurrentNext == Inv /\ [Next]_vars => CurrentInv'
<1> SUFFICES ASSUME Inv, [Next]_vars PROVE CurrentInv'
  OBVIOUS
<1> USE ConnectionAssumption DEF clientVars, sessionVars, ghostVars, failures
<1>1. TypeOK /\ SessionInv /\ CurrentInv
  BY DEF Inv
<1>2. ASSUME pc' \in {"rollback", "failed"}, UNCHANGED <<task, result, unstored>>
      PROVE  CurrentInv'
  BY <1>1, <1>2 DEF CurrentInv
<1>3. ASSUME pc' = "idle", task' = NoTask PROVE CurrentInv'
  BY <1>3 DEF CurrentInv
<1>4. ASSUME pc = "begin", pc' = "query", itr' = 1, UNCHANGED <<task, result, unstored>>,
             task \in Lost' => ~inTrx',
             task \notin Lost' => ~handle' \/ (inTrx' /\ work' = {})
      PROVE  CurrentInv'
  <2>1. 1 \in Queries(task)
    BY <1>1, <1>4 DEF CurrentInv, TypeOK, Queries
  <2>2. 1..(1 - 1) = {}
    OBVIOUS
  <2> QED
    BY <1>1, <1>4, <2>1, <2>2 DEF CurrentInv, Queries
<1>15. pc = "begin" => task \notin Lost
  BY <1>1 DEF CurrentInv
<1>5. ASSUME UNCHANGED <<task, pc, itr, handle, result, inTrx, work, Lost, unstored>>
      PROVE  CurrentInv'
  BY <1>1, <1>5 DEF CurrentInv, Queries
<1>6. CASE Answered
  <2>1. /\ handle /\ inTrx' = InTrxAfter /\ work' = WorkAfter
        /\ Continue(TRUE) /\ UNCHANGED <<handle, Lost, unstored>>
    BY <1>6 DEF Answered, Sending, Lost
  <2>2. CASE pc = "begin"
    <3>1. inTrx' /\ work' = {} /\ pc' = "query" /\ itr' = 1 /\ UNCHANGED <<task, result>>
      BY <2>1, <2>2 DEF InTrxAfter, WorkAfter, Continue
    <3> QED
      BY <1>4, <1>15, <2>1, <2>2, <3>1
  <2>3. CASE pc = "query"
    <3>1. /\ pc' = IF itr < Size[task] THEN "query" ELSE "commit"
          /\ itr' = itr + 1 /\ UNCHANGED <<task, result>>
      BY <2>1, <2>3 DEF Continue
    <3>2. itr \in 1..Size[task] /\ Size[task] \in Nat /\ task \in Tasks
      BY <1>1, <2>3 DEF CurrentInv, TypeOK, Queries
    <3>3. CASE task \in Lost
      <4>1. ~inTrx'
        BY <1>1, <2>1, <2>3, <3>3 DEF CurrentInv, InTrxAfter
      <4>2. itr' \in Queries(task) \/ pc' = "commit"
        BY <3>1, <3>2 DEF Queries
      <4> QED
        BY <1>1, <2>1, <3>1, <3>3, <4>1, <4>2 DEF CurrentInv, Queries
    <3>4. CASE task \notin Lost
      <4>1. inTrx /\ work = 1..(itr - 1) /\ inTrx' /\ work' = work \cup {itr}
        BY <1>1, <2>1, <2>3, <3>4 DEF CurrentInv, InTrxAfter, WorkAfter
      <4>2. work' = 1..itr /\ itr' - 1 = itr
        BY <3>1, <3>2, <4>1
      <4>3. CASE itr < Size[task]
        BY <1>1, <2>1, <3>1, <3>2, <3>4, <4>1, <4>2, <4>3 DEF CurrentInv, Queries
      <4>4. CASE itr = Size[task]
        BY <1>1, <2>1, <3>1, <3>2, <3>4, <4>1, <4>2, <4>4 DEF CurrentInv, Queries
      <4> QED
        BY <3>2, <4>3, <4>4
    <3> QED
      BY <3>3, <3>4
  <2>4. CASE pc \in {"commit", "rollback"}
    BY <1>2, <1>3, <2>1, <2>4 DEF Continue, Cleanup
  <2> QED
    BY <1>6, <2>2, <2>3, <2>4 DEF Answered, Sending, InExecute
<1>7. CASE (AnswerLost \/ DropLink)
  <2>1. /\ SessionEnds /\ losses < MaxLosses
        /\ UNCHANGED <<task, pc, itr, handle, result, unstarted, unstored>>
    BY <1>7 DEF AnswerLost, DropLink
  <2> QED
    BY <1>1, <2>1, EndType DEF CurrentInv, Queries
<1>8. CASE Deadlock
  <2>1. pc' = "rollback" /\ UNCHANGED <<task, result, unstored>>
    BY <1>8 DEF Deadlock, Continue, AfterRefusal
  <2> QED
    BY <1>2, <2>1
<1>16. CASE Refused \/ ReconnectUnprepared
  <2>1. Continue(FALSE)
    BY <1>16 DEF Refused, ReconnectUnprepared
  <2>2. pc # "commit" => UNCHANGED unstored
    BY <1>16 DEF Refused, ReconnectUnprepared
  <2>3. CASE pc = "begin"
    <3>1. ~inTrx'
      <4>1. CASE Refused
        BY <2>3, <4>1 DEF Refused
      <4>2. CASE ReconnectUnprepared
        BY <1>1, <2>3, <4>2 DEF ReconnectUnprepared, SessionInv
      <4> QED
        BY <1>16, <4>1, <4>2
    <3>3. task \in Lost'
      BY <1>16, <2>3 DEF Refused, ReconnectUnprepared, Lost
    <3>2. pc' = "query" /\ itr' = 1 /\ UNCHANGED <<task, result>>
      BY <2>1, <2>3 DEF Continue
    <3> QED
      BY <1>4, <2>2, <2>3, <3>1, <3>2, <3>3
  <2>4. CASE pc # "begin"
    BY <1>2, <1>3, <2>1, <2>2, <2>4 DEF Continue, Cleanup, AfterRefusal
  <2> QED
    BY <2>3, <2>4
<1>9. CASE NoHandle \/ ReconnectFailed
  <2>1. Continue(FALSE)
    BY <1>9 DEF NoHandle, ReconnectFailed
  <2>2. ~handle' /\ UNCHANGED <<Lost, unstored>>
    <3>1. CASE NoHandle
      BY <3>1 DEF NoHandle, Lost
    <3>2. CASE ReconnectFailed
      BY <3>2 DEF ReconnectFailed, Lost
    <3> QED
      BY <1>9, <3>1, <3>2
  <2>3. CASE pc = "begin"
    BY <1>4, <1>15, <2>1, <2>2, <2>3 DEF Continue
  <2>4. CASE pc # "begin"
    BY <1>2, <1>3, <2>1, <2>2, <2>4 DEF Continue, Cleanup, AfterRefusal
  <2> QED
    BY <2>3, <2>4
<1>10. CASE SendFailed \/ Reconnect \/ PrepareLost \/ ServerStops \/ ServerStarts
  BY <1>5, <1>10 DEF SendFailed, Reconnect, PrepareLost, ServerStops, ServerStarts, Lost
<1>11. CASE AfterFailure
  BY <1>3, <1>11, NeverRetried
<1>12. ASSUME NEW t \in Tasks, StartTask(t) PROVE CurrentInv'
  <2>1. task = NoTask /\ t # NoTask /\ result[t] = "none"
    BY <1>1, <1>12 DEF StartTask, TypeOK
  <2>2. t \notin Lost /\ t \notin unstored
    BY <2>1 DEF Inv, StoredInv
  <2>3. Size[t] \in Nat
    OBVIOUS
  <2> QED
    BY <1>12, <2>1, <2>2, <2>3 DEF StartTask, CurrentInv, Lost
<1>13. CASE Close
  BY <1>1, <1>13 DEF Close, CurrentInv, TypeOK
<1>14. CASE UNCHANGED vars
  BY <1>5, <1>14 DEF vars, Lost
<1> QED
  BY <1>6, <1>7, <1>8, <1>9, <1>10, <1>11, <1>12, <1>13, <1>14, <1>16 DEF Next, Client

-----------------------------------------------------------------------------
(* What is permanent.                                                      *)

\* A step that makes nothing permanent, returns nothing and loses no transaction.
LEMMA StoredSame ==
    ASSUME Inv, UNCHANGED <<durable, result, cut, unstarted, unstored>>,
           losses' \in {losses, losses + 1},
           task' = task \/ task \notin Lost,
           pc' = "query" => (pc = "query" /\ task' = task /\ itr' = itr) \/ task' \notin Lost
    PROVE  StoredInv'
<1>1. StoredInv /\ TypeOK
  BY DEF Inv
<1>2. Lost' = Lost /\ Meant' = Meant /\ Lost \subseteq Tasks /\ losses \in Nat
  BY <1>1, ConnectionAssumption DEF Lost, Meant, TypeOK
<1>3. \A t \in Lost : Repeats(t) \in Nat /\ Repeats(t)' \in Nat /\ Repeats(t) <= Repeats(t)'
  <2>1. unstarted' = unstarted /\ losses' \in Nat /\ losses <= losses'
    BY <1>2
  <2> QED
    <3>1. CASE losses' = losses
      BY <1>2, <2>1, <3>1 DEF Repeats
    <3>2. CASE losses' = losses + 1
      BY <1>2, <2>1, <3>2 DEF Repeats
    <3> QED
      BY <3>1, <3>2
<1>4. ASSUME NEW t \in Lost, NEW n \in Queries(t) PROVE durable'[t][n] <= Repeats(t)'
  <2>1. durable[t][n] \in Nat /\ durable[t][n] <= Repeats(t)
    BY <1>1, <1>2, <1>4 DEF TypeOK, StoredInv
  <2> QED
    BY <1>3, <2>1
<1>5. \A t \in Lost : Repeats(t)' > 0
  BY <1>1, <1>3 DEF StoredInv
<1>6. ASSUME pc' = "query", task' \in Lost'
      PROVE  /\ durable'[task'][itr'] < Repeats(task)'
             /\ \A n \in Queries(task') : n > itr' => durable'[task'][n] = 0
  <2>1. pc = "query" /\ task' = task /\ itr' = itr /\ task \in Lost
    BY <1>2, <1>6
  <2>2. durable[task][itr] < Repeats(task) /\ durable[task][itr] \in Nat
    BY <1>1, <1>2, <2>1 DEF Inv, StoredInv, TypeOK, CurrentInv
  <2>3. durable[task][itr] < Repeats(task)'
    BY <1>3, <2>1, <2>2
  <2>4. \A n \in Queries(task) : n > itr => durable[task][n] = 0
    BY <1>1, <2>1 DEF StoredInv
  <2> QED
    BY <2>1, <2>3, <2>4 DEF Queries
<1>7. \A t \in Lost' : t = task' \/ result'[t] # "none"
  BY <1>1, <1>2 DEF StoredInv
<1> QED
  BY <1>1, <1>2, <1>4, <1>5, <1>6, <1>7 DEF StoredInv, Queries, Once, None, Repeats

\* START TRANSACTION fails: nothing is permanent yet, and the queries will be one by
\* one.
LEMMA StoredUnstarted ==
    ASSUME Inv, pc = "begin", unstarted' = unstarted \cup {task}, pc' = "query",
           itr' = 1, UNCHANGED <<durable, result, cut, unstored, losses, task>>
    PROVE  StoredInv'
<1>1. StoredInv /\ TypeOK /\ CurrentInv
  BY DEF Inv
<1>2. task \in Tasks /\ task \notin Lost /\ durable[task] = None(task) /\ losses \in Nat
  BY <1>1, ConnectionAssumption DEF TypeOK, CurrentInv, StoredInv, Meant
<1>3. /\ Lost' = Lost \cup {task} /\ Meant' = Meant
      /\ \A t \in Lost : Repeats(t)' = Repeats(t)
      /\ Repeats(task)' = losses + 1
  BY <1>2 DEF Lost, Meant, Repeats
<1>4. \A t \in Lost' : Repeats(t)' > 0
  BY <1>1, <1>2, <1>3 DEF StoredInv
<1>5. \A t \in Lost' : \A n \in Queries(t) : durable'[t][n] <= Repeats(t)'
  BY <1>1, <1>2, <1>3 DEF StoredInv, None
<1>6. /\ durable'[task'][itr'] < Repeats(task)'
      /\ \A n \in Queries(task') : n > itr' => durable'[task'][n] = 0
  <2>1. 1 \in Queries(task)
    BY <1>1, <1>2, ConnectionAssumption DEF CurrentInv, Queries
  <2> QED
    BY <1>2, <1>3, <2>1 DEF None, Queries
<1>7. \A t \in Lost' : t = task' \/ result'[t] # "none"
  BY <1>1, <1>3 DEF StoredInv
<1> QED
  BY <1>1, <1>3, <1>4, <1>5, <1>6, <1>7 DEF StoredInv, Queries, Once, None, Repeats

\* A transaction returns: nothing is permanent if it failed or its COMMIT was refused,
\* everything once if not, unless the transaction was lost.
LEMMA StoredReturn ==
    ASSUME Inv, task \in Tasks, NEW r \in {"true", "false"}, pc' # "query",
           result' = [result EXCEPT ![task] = r], UNCHANGED <<cut, unstarted, losses>>,
           unstored' = unstored \/ (r = "true" /\ unstored' = unstored \cup {task}),
           durable' = [t \in Tasks |-> durable'[t]],
           \A t \in Tasks : t # task => durable'[t] = durable[t],
           task \in Lost => durable'[task] = durable[task],
           task \notin Lost => durable'[task] =
              IF r = "true" /\ task \notin unstored' THEN Once(task) ELSE None(task)
    PROVE  StoredInv'
<1>1. StoredInv /\ TypeOK
  BY DEF Inv
<1>2. Lost' = Lost /\ Lost \subseteq Tasks /\ \A t \in Lost : Repeats(t)' = Repeats(t)
  BY <1>1 DEF Lost, TypeOK, Repeats
<1>3. \A t \in Lost : durable'[t] = durable[t]
  BY <1>2
<1>4. \A t \in Tasks : result'[t] = IF t = task THEN r ELSE result[t]
  BY <1>1 DEF TypeOK
<1>5. \A t \in Tasks : Meant'[t] = IF t # task THEN Meant[t]
                                   ELSE IF task \in unstored' THEN "false" ELSE r
  BY <1>1, <1>4 DEF Meant
<1>6. \A t \in Tasks \ Lost' : durable'[t] = IF Meant'[t] = "true" THEN Once(t) ELSE None(t)
  BY <1>1, <1>2, <1>5 DEF StoredInv
<1>7. \A t \in Lost' : t = task' \/ result'[t] # "none"
  BY <1>1, <1>2, <1>4 DEF StoredInv
<1>8. \A t \in Lost' : \A n \in Queries(t) : durable'[t][n] <= Repeats(t)'
  BY <1>1, <1>2, <1>3 DEF StoredInv
<1>9. \A t \in Lost' : Repeats(t)' > 0
  BY <1>1, <1>2 DEF StoredInv
<1>10. \A t \in unstored' : result'[t] = "true"
  <2>1. task \in unstored' => r = "true"
    BY <1>1, ConnectionAssumption DEF Inv, CurrentInv
  <2> QED
    BY <1>1, <1>4, <2>1 DEF StoredInv, TypeOK
<1> QED
  BY <1>6, <1>7, <1>8, <1>9, <1>10 DEF StoredInv, Once, None, Queries, Repeats

\* A query that was answered is permanent only in a lost transaction, and then once
\* more than before: the number of losses still bounds it.
LEMMA StoredAnswered == Inv /\ Answered => StoredInv'
<1> SUFFICES ASSUME Inv, Answered PROVE StoredInv'
  OBVIOUS
<1>1. /\ Sending /\ link /\ durable' = DurableAfter
      /\ UNCHANGED <<cut, unstarted, unstored, losses>>
  BY DEF Answered, ghostVars, failures
<1>8. Lost' = Lost /\ Lost \subseteq Tasks /\ \A t : Repeats(t)' = Repeats(t)
  BY <1>1 DEF Lost, Repeats, Inv, TypeOK
<1>2. Continue(TRUE)
  BY DEF Answered
<1>3. /\ task \in Tasks
      /\ durable' = [t \in Tasks |-> durable'[t]]
      /\ \A t \in Tasks : t # task => durable'[t] = durable[t]
      /\ durable'[task] \in [Queries(task) -> Nat]
      /\ task \notin Lost =>
            durable'[task] = IF pc = "commit" THEN Once(task) ELSE None(task)
      /\ task \in Lost => \A n \in Queries(task) :
            durable'[task][n] = IF pc = "query" /\ n = itr THEN durable[task][n] + 1
                                                          ELSE durable[task][n]
  BY <1>1, ServerEffect
<1>4. StoredInv /\ TypeOK /\ CurrentInv
  BY DEF Inv
<1>5. durable[task] \in [Queries(task) -> Nat]
  BY <1>3, <1>4 DEF TypeOK
<1>6. CASE pc = "commit"
  <2>1. result' = [result EXCEPT ![task] = "true"] /\ pc' = "idle"
    BY <1>2, <1>6 DEF Continue
  <2>2. task \in Lost => durable'[task] = durable[task]
    BY <1>3, <1>5, <1>6
  <2>3. task \notin unstored'
    BY <1>1, <1>3, <1>4, ConnectionAssumption DEF CurrentInv
  <2> QED
    BY <1>1, <1>3, <1>6, <2>1, <2>2, <2>3, StoredReturn
<1>7. CASE pc # "commit"
  <2>1. UNCHANGED <<task, result>> /\ Meant' = Meant
    BY <1>1, <1>2, <1>7 DEF Continue, Meant
  <2>2. \A t \in Tasks \ Lost' : durable'[t] = IF Meant'[t] = "true" THEN Once(t) ELSE None(t)
    <3>1. Meant[task] # "true"
      BY <1>3, <1>4, ConnectionAssumption DEF CurrentInv, Meant
    <3> QED
      BY <1>3, <1>4, <1>7, <1>8, <2>1, <3>1 DEF StoredInv
  <2>3. ASSUME NEW t \in Lost', NEW n \in Queries(t) PROVE durable'[t][n] <= Repeats(t)'
    <3>1. /\ t \in Lost /\ t \in Tasks /\ durable[t] \in [Queries(t) -> Nat]
          /\ Repeats(t) \in Nat
      BY <1>4, <1>8, <2>3, ConnectionAssumption DEF TypeOK, Repeats
    <3>2. durable[t][n] <= Repeats(t)
      BY <1>4, <2>3, <3>1 DEF StoredInv
    <3>3. CASE t = task /\ pc = "query" /\ n = itr
      <4>1. durable[t][n] < Repeats(t) /\ durable'[t][n] = durable[t][n] + 1
        BY <1>3, <1>4, <2>3, <3>1, <3>3 DEF StoredInv
      <4> QED
        BY <1>8, <2>3, <3>1, <4>1
    <3>4. CASE ~(t = task /\ pc = "query" /\ n = itr)
      <4>1. durable'[t][n] = durable[t][n]
        BY <1>3, <2>3, <3>1, <3>4
      <4> QED
        BY <1>8, <3>2, <4>1
    <3> QED
      BY <3>3, <3>4
  <2>4. ASSUME pc' = "query", task' \in Lost'
        PROVE  /\ durable'[task'][itr'] < Repeats(task)'
               /\ \A n \in Queries(task') : n > itr' => durable'[task'][n] = 0
    <3>1. pc = "query" /\ itr < Size[task] /\ itr' = itr + 1 /\ task \in Lost
      BY <1>2, <1>4, <1>7, <1>8, <2>1, <2>4 DEF Continue, CurrentInv
    <3>2. itr \in Nat \ {0} /\ Size[task] \in Nat /\ Repeats(task) > 0
      BY <1>3, <1>4, <3>1, ConnectionAssumption DEF CurrentInv, Queries, StoredInv
    <3>3. \A n \in Queries(task) : n > itr => durable[task][n] = 0
      BY <1>4, <3>1 DEF StoredInv
    <3>4. \A n \in Queries(task) : n > itr => durable'[task][n] = 0
      BY <1>3, <3>1, <3>2, <3>3 DEF Queries
    <3>5. itr' \in Queries(task) /\ \A n \in Queries(task) : n > itr' => n > itr
      BY <3>1, <3>2 DEF Queries
    <3> QED
      BY <1>8, <2>1, <3>1, <3>2, <3>4, <3>5 DEF Queries
  <2>5. \A t \in Lost' : (t = task' \/ result'[t] # "none") /\ Repeats(t)' > 0
    BY <1>4, <1>8, <2>1 DEF StoredInv
  <2>6. \A t \in unstored' : result'[t] = "true"
    BY <1>1, <1>4, <2>1 DEF StoredInv
  <2> QED
    BY <1>3, <2>1, <2>2, <2>3, <2>4, <2>5, <2>6
       DEF StoredInv, Queries, Once, None, Repeats
<1> QED
  BY <1>6, <1>7

\* A link is dropped, before or after the server made the statement permanent.
LEMMA StoredLost == Inv /\ (AnswerLost \/ DropLink) => StoredInv'
<1> SUFFICES ASSUME Inv, AnswerLost \/ DropLink PROVE StoredInv'
  OBVIOUS
<1>1. /\ UNCHANGED <<task, pc, itr, result, unstarted, unstored>>
      /\ SessionEnds /\ losses < MaxLosses
      /\ \/ Sending /\ link /\ durable' = DurableAfter
         \/ durable' = durable
  BY DEF AnswerLost, DropLink, clientVars, failures
<1>2. StoredInv /\ TypeOK /\ CurrentInv
  BY DEF Inv
<1>3. /\ losses' = losses + 1 /\ losses \in Nat
      /\ Lost \subseteq Lost' /\ Lost' \subseteq Tasks /\ Lost' \subseteq Lost \cup {task}
      /\ pc \in {"query", "commit"} => task \in Lost'
      /\ pc \notin {"query", "commit"} => Lost' = Lost
  BY <1>1, <1>2, EndType, ConnectionAssumption DEF TypeOK
<1>9. /\ Meant' = Meant
      /\ \A t \in Tasks : Repeats(t) \in Nat /\ Repeats(t)' = Repeats(t) + 1
  BY <1>1, <1>3 DEF Meant, Repeats
<1>10. task \in Tasks /\ task \notin Lost => durable[task] = None(task) /\ Meant[task] # "true"
  BY <1>2, ConnectionAssumption DEF CurrentInv, StoredInv, Meant
<1>4. /\ durable' = [t \in Tasks |-> durable'[t]]
      /\ \A t \in Tasks : t # task => durable'[t] = durable[t]
      /\ task \in Tasks /\ task \notin Lost =>
            durable'[task] \in {None(task), Once(task)}
      /\ task \in Tasks /\ task \notin Lost /\ pc # "commit" => durable'[task] = None(task)
      /\ task \in Tasks /\ task \in Lost => \A n \in Queries(task) :
            \/ durable'[task][n] = durable[task][n]
            \/ pc = "query" /\ n = itr /\ durable'[task][n] = durable[task][n] + 1
  <2>1. CASE durable' = durable
    BY <1>2, <1>10, <2>1 DEF StoredInv
  <2>2. CASE Sending /\ link /\ durable' = DurableAfter
    BY <2>2, ServerEffect
  <2> QED
    BY <1>1, <2>1, <2>2
<1>5. \A t \in Tasks \ Lost' : durable'[t] = IF Meant'[t] = "true" THEN Once(t) ELSE None(t)
  <2> SUFFICES ASSUME NEW t \in Tasks \ Lost'
               PROVE  durable'[t] = IF Meant[t] = "true" THEN Once(t) ELSE None(t)
    BY <1>9
  <2>1. CASE t # task
    BY <1>2, <1>3, <1>4, <2>1 DEF StoredInv
  <2>2. CASE t = task
    BY <1>3, <1>4, <1>10, <2>2
  <2> QED
    BY <2>1, <2>2
<1>6. \A t \in Lost' : t = task' \/ result'[t] # "none"
  BY <1>1, <1>2, <1>3 DEF StoredInv
<1>7. ASSUME NEW t \in Lost', NEW n \in Queries(t) PROVE durable'[t][n] <= Repeats(t)'
  <2>1. t \in Tasks /\ durable[t] \in [Queries(t) -> Nat]
    BY <1>2, <1>3 DEF TypeOK
  <2>2. CASE t \in Lost
    <3>1. durable[t][n] <= Repeats(t)
      BY <1>2, <1>7, <2>2 DEF StoredInv
    <3>2. durable'[t][n] = durable[t][n] \/ durable'[t][n] = durable[t][n] + 1
      BY <1>4, <1>7, <2>1, <2>2
    <3> QED
      BY <1>7, <1>9, <2>1, <3>1, <3>2
  <2>3. CASE t \notin Lost
    <3>1. durable'[t] \in {None(t), Once(t)}
      BY <1>3, <1>4, <2>1, <2>3
    <3> QED
      BY <1>7, <1>9, <2>1, <3>1 DEF None, Once
  <2> QED
    BY <2>2, <2>3
<1>8. ASSUME pc' = "query", task' \in Lost'
      PROVE  /\ durable'[task'][itr'] < Repeats(task)'
             /\ \A n \in Queries(task') : n > itr' => durable'[task'][n] = 0
  <2>4. Repeats(task)' = Repeats(task) + 1 /\ Repeats(task) \in Nat
    BY <1>1, <1>3, <1>8, <1>9 DEF Repeats
  <2>1. /\ pc = "query" /\ task \in Tasks /\ itr \in Queries(task)
        /\ durable[task] \in [Queries(task) -> Nat] /\ itr \in Nat
    BY <1>1, <1>2, <1>3, <1>8 DEF CurrentInv, TypeOK
  <2>2. CASE task \notin Lost
    BY <1>1, <1>4, <2>1, <2>2, <2>4 DEF None, Queries
  <2>3. CASE task \in Lost
    <3>1. /\ durable[task][itr] < Repeats(task)
          /\ \A n \in Queries(task) : n > itr => durable[task][n] = 0
      BY <1>2, <2>1, <2>3 DEF StoredInv
    <3>2. durable'[task][itr] \in {durable[task][itr], durable[task][itr] + 1}
      BY <1>4, <2>1, <2>3
    <3>3. durable'[task][itr] < Repeats(task) + 1
      BY <2>1, <2>4, <3>1, <3>2
    <3>4. \A n \in Queries(task) : n > itr => durable'[task][n] = 0
      BY <1>4, <2>1, <2>3, <3>1 DEF Queries
    <3> QED
      BY <1>1, <2>4, <3>3, <3>4 DEF Queries
  <2> QED
    BY <2>2, <2>3
<1>11. \A t \in Lost' : Repeats(t)' > 0
  BY <1>3, <1>9
<1>12. \A t \in unstored' : result'[t] = "true"
  BY <1>1, <1>2 DEF StoredInv
<1> QED
  BY <1>4, <1>5, <1>6, <1>7, <1>8, <1>11, <1>12
     DEF StoredInv, Queries, Once, None, Repeats

\* Every step keeps StoredInv.
LEMMA StoredNext == Inv /\ [Next]_vars => StoredInv'
<1> SUFFICES ASSUME Inv, [Next]_vars PROVE StoredInv'
  OBVIOUS
<1> USE DEF clientVars, sessionVars, ghostVars, failures
<1>1. TypeOK /\ SessionInv /\ CurrentInv /\ StoredInv
  BY DEF Inv
<1>8. Lost \subseteq Tasks /\ losses \in {losses, losses + 1}
  BY <1>1 DEF TypeOK, Lost
<1>2. CASE NoHandle \/ ReconnectFailed
  <2>1. Continue(FALSE)
    BY <1>2 DEF NoHandle, ReconnectFailed
  <2>2. UNCHANGED <<durable, cut, unstarted, unstored, losses>>
    BY <1>2 DEF NoHandle, ReconnectFailed
  <2>3. CASE pc = "commit"
    <3>1. task \in Lost
      BY <1>1, <1>2, <2>3, LostAtCommit DEF NoHandle, ReconnectFailed, SessionInv
    <3>2. task \in Tasks /\ durable = [t \in Tasks |-> durable[t]]
      BY <1>1, <1>8, <3>1 DEF StoredInv
    <3>3. result' = [result EXCEPT ![task] = "true"] /\ pc' = "idle"
      BY <2>1, <2>3 DEF Continue
    <3> QED
      BY <2>2, <3>1, <3>2, <3>3, StoredReturn
  <2>4. CASE pc # "commit"
    <3>1. UNCHANGED <<task, result>> /\ (pc' = "query" => pc = "begin")
      BY <2>1, <2>4 DEF Continue, AfterRefusal
    <3>2. pc = "begin" => task \notin Lost
      BY <1>1 DEF CurrentInv
    <3> QED
      BY <1>8, <2>2, <3>1, <3>2, StoredSame
  <2> QED
    BY <2>3, <2>4
<1>3. CASE Deadlock
  <2>1. pc' = "rollback" /\ UNCHANGED <<task, result>>
    BY <1>3 DEF Deadlock, Continue, AfterRefusal
  <2>2. UNCHANGED <<durable, cut, unstarted, unstored, losses>>
    BY <1>3 DEF Deadlock
  <2> QED
    BY <1>8, <2>1, <2>2, StoredSame
<1>9. CASE Refused \/ ReconnectUnprepared
  <2>1. Continue(FALSE)
    BY <1>9 DEF Refused, ReconnectUnprepared
  <2>2. /\ UNCHANGED <<durable, cut, losses>>
        /\ unstarted' = IF pc = "begin" THEN unstarted \cup {task} ELSE unstarted
        /\ pc # "commit" => UNCHANGED unstored
    BY <1>9 DEF Refused, ReconnectUnprepared
  <2>3. CASE pc = "begin"
    <3>1. pc' = "query" /\ itr' = 1 /\ UNCHANGED <<task, result>>
      BY <2>1, <2>3 DEF Continue
    <3> QED
      BY <2>2, <2>3, <3>1, StoredUnstarted
  <2>4. CASE pc \in {"query", "rollback"}
    <3>1. pc' # "query" /\ UNCHANGED <<task, result>>
      BY <2>1, <2>4 DEF Continue, AfterRefusal
    <3> QED
      BY <1>8, <2>2, <2>4, <3>1, StoredSame
  <2>5. CASE pc = "commit"
    <3>1. /\ result' = [result EXCEPT ![task] = "true"] /\ pc' = "idle"
          /\ task \in Tasks /\ durable = [t \in Tasks |-> durable[t]]
      BY <1>1, <2>1, <2>5 DEF Continue, TypeOK, StoredInv
    <3>2. \/ unstored' = unstored /\ ~inTrx
          \/ unstored' = unstored \cup {task}
      BY <1>1, <1>9, <2>5 DEF Refused, ReconnectUnprepared, SessionInv
    <3>3. task \notin Lost => inTrx /\ durable[task] = None(task)
      BY <1>1, <2>5, <3>1, ConnectionAssumption DEF CurrentInv, StoredInv, Meant
    <3> QED
      BY <2>2, <2>5, <3>1, <3>2, <3>3, StoredReturn
  <2> QED
    BY <2>1, <2>3, <2>4, <2>5 DEF Continue
<1>4. CASE SendFailed \/ Reconnect \/ PrepareLost \/ ServerStops \/ ServerStarts \/ Close
  BY <1>4, <1>8, StoredSame
     DEF SendFailed, Reconnect, PrepareLost, ServerStops, ServerStarts, Close
<1>5. CASE AfterFailure
  <2>1. task \in Tasks /\ result[task] = "none" /\ durable = [t \in Tasks |-> durable[t]]
    BY <1>1, <1>5, NeverRetried, ConnectionAssumption DEF CurrentInv, StoredInv
  <2>2. task \notin Lost => durable[task] = None(task)
    BY <1>1, <2>1 DEF StoredInv, Meant
  <2> QED
    BY <1>5, <2>1, <2>2, NeverRetried, StoredReturn
<1>6. ASSUME NEW t \in Tasks, StartTask(t) PROVE StoredInv'
  <2>1. task \notin Lost
    BY <1>1, <1>6, <1>8, ConnectionAssumption DEF StartTask, TypeOK
  <2> QED
    BY <1>6, <1>8, <2>1, StoredSame DEF StartTask
<1>7. CASE UNCHANGED vars
  BY <1>7, <1>8, StoredSame DEF vars
<1> QED
  BY <1>2, <1>3, <1>4, <1>5, <1>6, <1>7, <1>9, StoredAnswered, StoredLost DEF Next, Client

-----------------------------------------------------------------------------
\* The invariant holds in every state of the connection (MySQLConnection).
THEOREM Invariance == Spec => []Inv
<1>1. Inv /\ [Next]_vars => Inv'
  BY TypeNext, SessionNext, CurrentNext, StoredNext DEF Inv
<1> QED
  BY <1>1, InvInit, PTL DEF Spec

\* Whatever the link and the server do, no transaction is open and no query
\* uncommitted between two tasks, although the result of ROLLBACK is ignored
\* (ExecuteTransaction, RollbackTransaction).
THEOREM NoneLeftOpen == Spec => []NoTransactionLeft
<1>1. Inv => NoTransactionLeft
  BY DEF Inv, SessionInv, NoTransactionLeft
<1> QED
  BY <1>1, Invariance, PTL

\* A query becomes permanent twice only in a transaction that was lost, and at most as
\* often as links dropped, once more when it was never started (Execute,
\* _HandleMySQLErrno).
THEOREM RepeatsBounded == Spec => []RepeatedOnlyByLoss
<1>1. ASSUME Inv, NEW t \in Tasks, NEW n \in Queries(t)
      PROVE  durable[t][n] <= CASE t \in unstarted -> losses + 1
                                [] t \in cut \ unstarted -> losses
                                [] OTHER -> 1
  <2>1. CASE t \in Lost
    <3>1. durable[t][n] <= Repeats(t)
      BY <1>1, <2>1 DEF Inv, StoredInv
    <3> QED
      BY <2>1, <3>1 DEF Repeats, Lost
  <2>2. CASE t \notin Lost
    <3>1. durable[t] \in {Once(t), None(t)}
      BY <1>1, <2>2 DEF Inv, StoredInv
    <3> QED
      BY <1>1, <2>2, <3>1 DEF Once, None, Lost
  <2> QED
    BY <2>1, <2>2
<1>2. Inv => RepeatedOnlyByLoss
  BY <1>1 DEF RepeatedOnlyByLoss
<1> QED
  BY <1>2, Invariance, PTL

-----------------------------------------------------------------------------
(* The connection implements TransactionStore.                             *)

\* The initial states of the connection are initial states of the store.
LEMMA PromiseInit == Init => Promise!Init
<1> SUFFICES ASSUME Init PROVE Promise!Init
  OBVIOUS
<1>1. Uncut(durable, None) = [t \in Tasks |-> None(t)]
  BY DEF Init, Uncut
<1>2. Uncut(Meant, Unanswered) = [t \in Tasks |-> "none"]
  BY DEF Init, Uncut, Meant, Unanswered
<1> QED
  BY <1>1, <1>2 DEF Promise!Init, Promise!None, None, Queries

\* A step that returns nothing for, and makes nothing permanent of, a transaction
\* that is not lost changes nothing in the store.  A transaction that is being lost
\* had nothing permanent.
LEMMA PromiseStutter ==
    ASSUME \A t \in Tasks \ Lost' : durable'[t] = durable[t] /\ Meant'[t] = Meant[t],
           Lost \subseteq Lost',
           \A t \in Lost' \ Lost : durable[t] = None(t) /\ Meant[t] = "none"
    PROVE  UNCHANGED Promise!vars
<1>1. Uncut(durable, None)' = Uncut(durable, None)
  BY DEF Uncut, None, Queries, Lost
<1>2. Uncut(Meant, Unanswered)' = Uncut(Meant, Unanswered)
  BY DEF Uncut, Unanswered, Lost
<1> QED
  BY <1>1, <1>2 DEF Promise!vars

\* A transaction that was not lost is answered with nothing permanent, or with
\* everything made permanent by its COMMIT: a step of the store.
LEMMA PromiseReturn ==
    ASSUME Inv, task \in Tasks \ Lost, NEW r \in {"true", "false"}, UNCHANGED Lost,
           \A t \in Tasks : Meant'[t] = IF t = task THEN r ELSE Meant[t],
           \A t \in Tasks : t # task => durable'[t] = durable[t],
           durable'[task] = IF r = "true" THEN Once(task) ELSE None(task)
    PROVE  Promise!Next
<1> DEFINE d == Uncut(durable, None)
<1> DEFINE a == Uncut(Meant, Unanswered)
<1>1. durable[task] = None(task) /\ Meant[task] = "none"
  BY ConnectionAssumption DEF Inv, CurrentInv, StoredInv, Meant
<1>2. d[task] = None(task) /\ a[task] = "none"
  BY <1>1 DEF Uncut, Lost
<1>3. None(task) = Promise!None(task) /\ Once(task) = Promise!Once(task)
  BY DEF None, Once, Queries, Promise!None, Promise!Once
<1>4. a' = [a EXCEPT ![task] = r]
  BY DEF Uncut, Unanswered, Lost
<1>5. d' = [t \in Tasks |-> IF t = task THEN durable'[task] ELSE d[t]]
  BY DEF Uncut, None, Queries, Lost
<1>6. CASE r = "true"
  <2>1. d' = [d EXCEPT ![task] = Once(task)]
    BY <1>5, <1>6 DEF Uncut
  <2>2. Promise!CommitAndAnswer(task)
    BY <1>2, <1>3, <1>4, <1>6, <2>1 DEF Promise!CommitAndAnswer
  <2> QED
    BY <2>2 DEF Promise!Next
<1>7. CASE r = "false"
  <2>1. d' = d
    BY <1>2, <1>5, <1>7 DEF Uncut
  <2>2. Promise!Answer(task)
    BY <1>2, <1>3, <1>4, <1>7, <2>1 DEF Promise!Answer
  <2> QED
    BY <2>2 DEF Promise!Next
<1> QED
  BY <1>6, <1>7

\* Every step of the connection is a step of the store, or changes nothing in it.
LEMMA PromiseNext == Inv /\ [Next]_vars => [Promise!Next]_(Promise!vars)
<1> SUFFICES ASSUME Inv, [Next]_vars PROVE Promise!Next \/ UNCHANGED Promise!vars
  OBVIOUS
<1> USE DEF clientVars, sessionVars, ghostVars, failures
<1>1. TypeOK /\ SessionInv /\ CurrentInv /\ StoredInv
  BY DEF Inv
<1>2. ASSUME UNCHANGED <<durable, result, cut, unstarted, unstored>>
      PROVE  UNCHANGED Promise!vars
  BY <1>2, PromiseStutter DEF Lost, Meant
<1>10. ASSUME NEW r, result' = [result EXCEPT ![task] = r], task \in Tasks,
              unstored' = unstored \/ (r = "true" /\ unstored' = unstored \cup {task})
       PROVE  \A t \in Tasks :
                 Meant'[t] = IF t # task THEN Meant[t]
                             ELSE IF task \in unstored' THEN "false" ELSE r
  <2>1. \A t \in Tasks : result'[t] = IF t = task THEN r ELSE result[t]
    BY <1>1, <1>10 DEF TypeOK
  <2>2. task \notin unstored
    BY <1>1, <1>10, ConnectionAssumption DEF CurrentInv
  <2> QED
    BY <1>10, <2>1, <2>2 DEF Meant
<1>3. ASSUME task \in Lost, \A t \in Tasks : t # task => durable'[t] = durable[t],
             UNCHANGED Lost, \A t \in Tasks : t # task => Meant'[t] = Meant[t]
      PROVE  UNCHANGED Promise!vars
  BY <1>3, PromiseStutter
<1>11. /\ Lost \subseteq Tasks
       /\ task \in Tasks => Meant[task] = "none"
       /\ task \in Tasks \ Lost => durable[task] = None(task)
  BY <1>1, ConnectionAssumption DEF TypeOK, CurrentInv, StoredInv, Lost, Meant
<1>4. CASE Answered
  <2>1. /\ Sending /\ link /\ durable' = DurableAfter
        /\ UNCHANGED <<cut, unstarted, unstored>> /\ Continue(TRUE)
    BY <1>4 DEF Answered
  <2>2. UNCHANGED Lost
    BY <2>1 DEF Lost
  <2>3. task \in Tasks /\ \A t \in Tasks : t # task => durable'[t] = durable[t]
    BY <2>1, ServerEffect
  <2>4. CASE pc = "commit"
    <3>1. result' = [result EXCEPT ![task] = "true"] /\ task \notin unstored'
      BY <1>1, <2>1, <2>3, <2>4, ConnectionAssumption DEF Continue, CurrentInv
    <3>2. \A t \in Tasks : Meant'[t] = IF t = task THEN "true" ELSE Meant[t]
      BY <1>10, <2>1, <2>3, <3>1
    <3>3. CASE task \in Lost
      BY <1>3, <2>2, <2>3, <3>2, <3>3
    <3>4. CASE task \notin Lost
      <4>1. durable'[task] = Once(task)
        BY <2>1, <2>4, <3>4, ServerEffect
      <4> QED
        BY <2>2, <2>3, <3>2, <3>4, <4>1, PromiseReturn
    <3> QED
      BY <3>3, <3>4
  <2>5. CASE pc # "commit"
    <3>1. Meant' = Meant
      BY <2>1, <2>5 DEF Continue, Meant
    <3>2. task \notin Lost => durable'[task] = durable[task]
      BY <1>11, <2>1, <2>3, <2>5, ServerEffect
    <3> QED
      BY <2>2, <2>3, <3>1, <3>2, PromiseStutter
  <2> QED
    BY <2>4, <2>5
<1>5. CASE AnswerLost \/ DropLink
  <2>1. /\ UNCHANGED <<pc, result, unstarted, unstored>>
        /\ SessionEnds /\ losses < MaxLosses
        /\ \/ Sending /\ link /\ durable' = DurableAfter
           \/ durable' = durable
    BY <1>5 DEF AnswerLost, DropLink
  <2>2. /\ Lost \subseteq Lost' /\ Lost' \subseteq Tasks /\ Lost' \subseteq Lost \cup {task}
        /\ pc \in {"query", "commit"} => task \in Lost'
    BY <2>1, EndType
  <2>3. \A t \in Lost' \ Lost : durable[t] = None(t) /\ Meant[t] = "none"
    BY <1>11, <2>2
  <2>4. ASSUME NEW t \in Tasks \ Lost' PROVE durable'[t] = durable[t]
    <3>1. CASE durable' = durable
      BY <3>1
    <3>2. CASE Sending /\ link /\ durable' = DurableAfter
      <4>1. CASE t # task
        BY <3>2, <4>1, ServerEffect
      <4>2. CASE t = task
        <5>1. task \notin Lost /\ pc # "commit" /\ task \in Tasks
          BY <2>2, <2>4, <4>2
        <5>2. durable'[task] = None(task)
          BY <3>2, <5>1, ServerEffect
        <5> QED
          BY <1>11, <4>2, <5>1, <5>2
      <4> QED
        BY <4>1, <4>2
    <3> QED
      BY <2>1, <3>1, <3>2
  <2>5. Meant' = Meant
    BY <2>1 DEF Meant
  <2> QED
    BY <2>2, <2>3, <2>4, <2>5, PromiseStutter
<1>6. CASE NoHandle \/ ReconnectFailed
  <2>1. Continue(FALSE)
    BY <1>6 DEF NoHandle, ReconnectFailed
  <2>2. UNCHANGED <<durable, cut, unstarted, unstored>>
    BY <1>6 DEF NoHandle, ReconnectFailed
  <2>3. CASE pc = "commit"
    <3>1. task \in Lost /\ task \in Tasks
      BY <1>1, <1>6, <1>11, <2>3, LostAtCommit DEF NoHandle, ReconnectFailed, SessionInv
    <3>2. result' = [result EXCEPT ![task] = "true"]
      BY <2>1, <2>3 DEF Continue
    <3>3. \A t \in Tasks : t # task => Meant'[t] = Meant[t]
      BY <1>10, <2>2, <3>1, <3>2
    <3> QED
      BY <1>3, <2>2, <3>1, <3>3 DEF Lost
  <2>4. CASE pc # "commit"
    BY <1>2, <2>1, <2>2, <2>4 DEF Continue
  <2> QED
    BY <2>3, <2>4
<1>7. CASE Deadlock
  <2>1. UNCHANGED <<result, durable, cut, unstarted, unstored>>
    BY <1>7 DEF Deadlock, Continue
  <2> QED
    BY <1>2, <2>1
<1>12. CASE Refused \/ ReconnectUnprepared
  <2>1. Continue(FALSE)
    BY <1>12 DEF Refused, ReconnectUnprepared
  <2>2. /\ UNCHANGED <<durable, cut>>
        /\ unstarted' = IF pc = "begin" THEN unstarted \cup {task} ELSE unstarted
        /\ pc # "commit" => UNCHANGED unstored
    BY <1>12 DEF Refused, ReconnectUnprepared
  <2>3. CASE pc = "begin"
    <3>1. task \in Tasks /\ UNCHANGED <<result, unstored>>
      BY <1>1, <2>1, <2>2, <2>3 DEF Continue, TypeOK
    <3>2. Lost' = Lost \cup {task} /\ Meant' = Meant
      BY <2>2, <2>3, <3>1 DEF Lost, Meant
    <3> QED
      BY <1>11, <2>2, <3>1, <3>2, PromiseStutter
  <2>4. CASE pc \in {"query", "rollback"}
    BY <1>2, <2>1, <2>2, <2>4 DEF Continue
  <2>5. CASE pc = "commit"
    <3>1. result' = [result EXCEPT ![task] = "true"] /\ task \in Tasks /\ UNCHANGED Lost
      BY <1>1, <2>1, <2>2, <2>5 DEF Continue, TypeOK, Lost
    <3>2. \/ unstored' = unstored /\ ~inTrx
          \/ unstored' = unstored \cup {task}
      BY <1>1, <1>12, <2>5 DEF Refused, ReconnectUnprepared, SessionInv
    <3>3. \A t \in Tasks : Meant'[t] = IF t # task THEN Meant[t]
                                     ELSE IF task \in unstored' THEN "false" ELSE "true"
      BY <1>10, <3>1, <3>2
    <3>4. CASE task \in Lost
      BY <1>3, <2>2, <3>1, <3>3, <3>4
    <3>5. CASE task \notin Lost
      <4>1. task \in unstored'
        BY <1>1, <2>5, <3>2, <3>5 DEF CurrentInv
      <4>2. \A t \in Tasks : Meant'[t] = IF t = task THEN "false" ELSE Meant[t]
        BY <3>3, <4>1
      <4> QED
        BY <1>11, <2>2, <3>1, <3>5, <4>2, PromiseReturn
    <3> QED
      BY <3>4, <3>5
  <2> QED
    BY <2>1, <2>3, <2>4, <2>5 DEF Continue
<1>8. CASE AfterFailure
  <2>1. /\ task \in Tasks /\ result' = [result EXCEPT ![task] = "false"]
        /\ UNCHANGED <<durable, cut, unstarted, unstored>>
    BY <1>8, NeverRetried
  <2>2. UNCHANGED Lost /\ task \notin unstored'
    BY <1>1, <2>1, ConnectionAssumption DEF Lost, CurrentInv
  <2>3. \A t \in Tasks : Meant'[t] = IF t = task THEN "false" ELSE Meant[t]
    BY <1>10, <2>1, <2>2
  <2>4. CASE task \in Lost
    BY <1>3, <2>1, <2>2, <2>3, <2>4
  <2>5. CASE task \notin Lost
    BY <1>11, <2>1, <2>2, <2>3, <2>5, PromiseReturn
  <2> QED
    BY <2>4, <2>5
<1>9. CASE \/ SendFailed \/ Reconnect \/ PrepareLost \/ ServerStops \/ ServerStarts
           \/ Close \/ UNCHANGED vars \/ \E t \in Tasks : StartTask(t)
  BY <1>2, <1>9 DEF SendFailed, Reconnect, PrepareLost, ServerStops, ServerStarts, Close,
     StartTask, vars
<1> QED
  BY <1>4, <1>5, <1>6, <1>7, <1>8, <1>9, <1>12 DEF Next, Client

\* The connection implements the promised store: every transaction that keeps its
\* START TRANSACTION takes effect completely and once, or not at all, and the value
\* returned says which unless COMMIT was refused (ExecuteTransaction,
\* TransactionTask::Execute).
THEOREM PromiseKept == Spec => KeepsPromise
BY PromiseInit, PromiseNext, Invariance, PTL DEF Spec, KeepsPromise, Promise!Spec
=============================================================================
