SPECIFICATION Spec
CONSTANTS
  a1 = a1
  a2 = a2
  h1 = h1
  h2 = h2
  Alliance = {a1, a2}
  Horde = {h1, h2}
  MinPlayers = 1
  MaxPlayers = 2
  InvitationType = 1
  NumBgs = 2
  MaxJoins = 3
  MaxMoves = 1
  Wrap = 100
SYMMETRY PlayerSymmetry
INVARIANT ExpiryPending
CHECK_DEADLOCK FALSE
