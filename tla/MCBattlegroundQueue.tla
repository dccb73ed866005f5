------------------------ MODULE MCBattlegroundQueue ------------------------
(* The instance of BattlegroundQueue for TLC: the players of a team are    *)
(* interchangeable.                                                        *)
EXTENDS BattlegroundQueue, TLC

PlayerSymmetry == Permutations(Alliance) \cup Permutations(Horde)

=============================================================================
