SPECIFICATION CatalogsSpec
CONSTANTS
  None = None
  Thread = {t1, t2}
  Sources <- BothSources
  Asset = {"none", "present", "missing", "unknown"}
  MaxVersion = 2
SYMMETRY ThreadSymmetry
INVARIANT UnavailableHasEvidence
