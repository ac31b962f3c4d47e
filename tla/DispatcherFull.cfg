SPECIFICATION FairSpec
CONSTANTS
  m1 = m1
  m2 = m2
  m3 = m3
  a1 = a1
  a2 = a2
  a3 = a3
  g1 = g1
  g2 = g2
  None = None
  Request = {r1}
  Operator = {o1}
  Operations = {"unload", "status"}
  Model = {m1, m2}
  Adapter = {a1, a2}
  Group = {g1}
  Thread <- AllThreads
  Key <- AllKeys
  KeySets <- AllKeySets
  NameRank <- ByName
  Slots <- OneSlot
  AdapterOf <- OwnAdapter
  GroupsOf <- AllInG1
  Kind <- AllManaged
  ActivateRoute = {m1, m2}
  DeactivateRoute = {m1, m2}
  StateProbe = {a1, a2}
  ActivityProbe = {a1}
  Recoverable = {a2}
  KeepResident = {}
  ForeignAtStart = {a1}
  SmartScheduling = TRUE
  Faults = {"start", "activate", "deactivate", "unconfirmed", "stop", "unhealthy", "crash", "probe", "memory", "metal"}
CHECK_DEADLOCK FALSE
INVARIANTS
  LoadingHasOwner
PROPERTIES
  ForeignServersKept
  RequestsAnswered
