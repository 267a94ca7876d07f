CONSTANTS
  Readers = {r1, r2}
  Writers = {w1, w2}
  None = None
SPECIFICATION FairSpec
INVARIANTS WritersAlone ReadersApart
PROPERTY TurnComes
CHECK_DEADLOCK FALSE
