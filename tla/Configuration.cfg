SPECIFICATION Spec
CONSTANTS
  m1 = m1
  m2 = m2
  a1 = a1
  a2 = a2
  g1 = g1
  None = None
  IdleWorker = worker
  Operator = {o1}
  Administrator = {p1, p2}
  Model = {m1, m2}
  Adapter = {a1, a2}
  Group = {g1}
  Content <- SafeContent
  First <- Bare
  Policy <- SavedPolicy
  Reviewable <- Reviews
  Missing = {m2}
  MaxEdits = 2
SYMMETRY AdministratorSymmetry
INVARIANTS
  TypeOK
  LoadedStaysConfigured
  KeysHaveLocks
  RevisionNamesConfig
  PoliciesSurviveRestart
PROPERTIES
  PruneWritesReviewed
  WritesAreLoadable
