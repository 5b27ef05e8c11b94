SPECIFICATION Spec
CONSTANTS
  k1 = k1  k2 = k2  s1 = s1  s2 = s2  s3 = s3  o1 = o1
  Keys = {}  Sessions = {}  Orgs = {}
  NoOrg = NoOrg  Anonymous = Anonymous  Global = Global
  KeyName <- MCKeyName  KeyOrg <- MCKeyOrg
  Allocated <- MCAllocated  OrgLimit <- MCOrgLimit
  KeyBudget = 2  OrgBudget = 3
  Slots = {r1, r2}
  GlobalLimit = 3  SessionLimit = 2
  AmberPct = 50  RedPct = 95
  MaxCost = 1
  Callers = {Anonymous}
  MaxFaults = 0  MaxOps = 1
SYMMETRY SlotSymmetry
PROPERTIES GlobalTripAnnounced
