SPECIFICATION Spec
CONSTANTS
  t1 = t1
  t2 = t2
  p1 = p1
  p2 = p2
  ban = ban
  plan = plan
  none = none
  a = a
  b = b
  Texts = {t1, t2}
  Prompts = {p1, p2}
  Classes = {ban, plan}
  Roles <- MCRoles
  Missing = none
  Releases <- MCGoodRelease
  Minimum = 2
  Timeout = 3
  MaxElapsed = 4
  MaxEdits <- MCNoEdits
  Ids = {a, b}
  NoParent = none
  MaxLayer = 5
  MaxAmended = 0
  MaxArtifacts = 1
  MaxReports = 1
CHECK_DEADLOCK FALSE
INVARIANTS
  UnsignedNeverReferenced
