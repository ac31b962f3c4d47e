SPECIFICATION AdmissionSpec
CONSTANTS
  m1 = m1
  m2 = m2
  m3 = m3
  None = None
  Thread = {t1, t2}
  Order <- MCOrder
  Outside = {m3}
  Rivals <- MCRivals
  Observable = {m2}
  Sizes = {1, 2, None}
  Limits = {3, None}
  Configured <- MCConfigured
  Resident = {2}
  MaxChanges = 1
SYMMETRY ThreadSymmetry
PROPERTIES
  AdmittedLoadsFit
