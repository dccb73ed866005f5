-------------------------- MODULE TransactionStore --------------------------
(***************************************************************************)
(* What DatabaseWorkerPool promises its callers of a transaction: its       *)
(* queries take effect together, once, or not at all, and the value the     *)
(* execution returns says which.                                            *)
(***************************************************************************)
EXTENDS Naturals

CONSTANTS
    Tasks,      \* the transactions
    Size        \* Size[t]: number of queries of t

VARIABLES
    durable,    \* durable[t][n]: times query n of t was made permanent
    result      \* what the execution of t returned

vars == <<durable, result>>

None(t) == [n \in 1..Size[t] |-> 0]
Once(t) == [n \in 1..Size[t] |-> 1]

Init ==
    /\ durable = [t \in Tasks |-> None(t)]
    /\ result = [t \in Tasks |-> "none"]

\* The server commits t; its caller has not been told yet.
Commit(t) ==
    /\ result[t] = "none"
    /\ durable[t] = None(t)
    /\ durable' = [durable EXCEPT ![t] = Once(t)]
    /\ UNCHANGED result

\* The caller learns what became of t.
Answer(t) ==
    /\ result[t] = "none"
    /\ \/ durable[t] = Once(t) /\ result' = [result EXCEPT ![t] = "true"]
       \/ durable[t] = None(t) /\ result' = [result EXCEPT ![t] = "false"]
    /\ UNCHANGED durable

\* Both at once: COMMIT is the statement whose answer ends the execution.
CommitAndAnswer(t) ==
    /\ result[t] = "none"
    /\ durable[t] = None(t)
    /\ durable' = [durable EXCEPT ![t] = Once(t)]
    /\ result' = [result EXCEPT ![t] = "true"]

Next == \E t \in Tasks : Commit(t) \/ Answer(t) \/ CommitAndAnswer(t)

Spec == Init /\ [][Next]_vars
=============================================================================
