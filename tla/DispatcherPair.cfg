SPECIFICATION Spec
CONSTANTS
  m1 = m1
  m2 = m2
  m3 = m3
  a1 = a1
  a2 = a2
  a3 = a3
  g1 = g1
  g2 = g2
  None = None
  Request = {r1, r2}
  Operator = {o1}
  Operations = {"unload"}
  Model = {m1, m2}
  Adapter = {a1, a2}
  Group = {g1}
  Thread <- AllThreads
  Key <- AllKeys
  KeySets <- AllKeySets
  NameRank <- ByName
  Slots <- OneSlot
  AdapterOf <- OwnAdapter
  GroupsOf <- AllInG1
  Kind <- AllManaged
  ActivateRoute = {}
  DeactivateRoute = {}
  StateProbe = {}
  ActivityProbe = {}
  Recoverable = {}
  KeepResident = {}
  ForeignAtStart = {}
  SmartScheduling = TRUE
  Faults = {"start", "crash"}
SYMMETRY ThreadSymmetry
INVARIANTS
  TypeOK
  Exclusive
  ActionsSerialized
  TransientsHaveOwner
PROPERTIES
  ImplementsResidency
