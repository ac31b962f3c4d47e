SPECIFICATION LockSpec
CONSTANTS
  Thread = {t1, t2, t3}
  Key <- MCKey
  KeySets <- MCKeySets
  Slots <- MCSlots
  Rank <- MCRank
  MaxReload = 2
INVARIANTS
  SlotsRespected
  OneTable
  ActiveCounts
  NoWaitCycle
PROPERTIES
  ImplementsLeases
  WaitersMakeProgress
  HurriedDecides
