CONSTANTS
  Getters = {g1, g2, g3}
  Syncers = {s1}
  Setters = {t1}
SPECIFICATION FairLockSpec
INVARIANT NoLostWakeUp
PROPERTY SetEnters
