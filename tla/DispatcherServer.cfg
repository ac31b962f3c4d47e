SPECIFICATION Spec
CONSTANTS
  m1 = m1
  m2 = m2
  m3 = m3
  a1 = a1
  a2 = a2
  a3 = a3
  g1 = g1
  g2 = g2
  None = None
  Request = {r1}
  Operator = {o1, o2}
  Operations = {"switch", "unload"}
  Model = {m1, m2, m3}
  Adapter = {a1}
  Group = {}
  Thread <- AllThreads
  Key <- AllKeys
  KeySets <- AllKeySets
  NameRank <- ByName
  Slots <- OneSlot
  AdapterOf <- OneAdapter
  GroupsOf <- NoGroup
  Kind <- AllManaged
  ActivateRoute = {m1, m2}
  DeactivateRoute = {m1, m2}
  StateProbe = {}
  ActivityProbe = {}
  Recoverable = {}
  KeepResident = {}
  ForeignAtStart = {}
  SmartScheduling = TRUE
  Faults = {"start", "activate", "deactivate", "memory"}
SYMMETRY OperatorSymmetry
INVARIANTS
  ReadyIsServed
  WeightsExclusive
PROPERTIES
  UnloadsStartFromReady
