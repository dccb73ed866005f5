---------------------------- MODULE MCLoginQueue ----------------------------
(* LoginQueue with two or three players and a game master.                 *)
EXTENDS LoginQueue, TLC

\* Nothing tells the accounts without the permission apart, nor the copies.
Symmetry == Permutations(Accounts \ SkipQueue) \cup Permutations(Copies)
=============================================================================
