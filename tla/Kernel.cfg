SPECIFICATION Spec
CONSTANTS
  t1 = t1
  t2 = t2
  p1 = p1
  p2 = p2
  ban = ban
  plan = plan
  none = none
  a = a
  b = b
  Texts = {t1, t2}
  Prompts = {p1, p2}
  Classes = {ban, plan}
  Roles <- MCRoles
  Missing = none
  Releases <- MCReleases
  Minimum = 2
  Timeout = 3
  MaxElapsed = 4
  MaxEdits <- MCMaxEdits
  Ids = {a, b}
  NoParent = none
  MaxLayer = 5
  MaxAmended = 1
  MaxArtifacts = 1
  MaxReports = 2
CHECK_DEADLOCK FALSE
INVARIANTS
  TypeOK
  KernelEarned
  RolesAdmitted
  ApprovalsEarned
PROPERTIES
  BootEnds
