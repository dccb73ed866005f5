------------------------- MODULE MCMySQLConnection --------------------------
(* Transactions of zero, one and two queries.                              *)
EXTENDS MySQLConnection

CONSTANTS t0, t1, t2

MCSize == [t \in Tasks |-> CASE t = t0 -> 0 [] t = t1 -> 1 [] t = t2 -> 2]
=============================================================================
