-------------------------- MODULE MCInstanceSaves --------------------------
EXTENDS InstanceSaves, TLC

PlayerSymmetry == Permutations(Players)

=============================================================================
