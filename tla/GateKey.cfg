SPECIFICATION FairSpec
CONSTANTS
  k1 = k1  k2 = k2  s1 = s1  s2 = s2  s3 = s3  o1 = o1
  Keys = {k1}  Sessions = {s1}  Orgs = {o1}
  NoOrg = NoOrg  Anonymous = Anonymous  Global = Global
  KeyName <- MCKeyName  KeyOrg <- MCKeyOrg
  Allocated <- MCAllocated  OrgLimit <- MCOrgLimit
  KeyBudget = 1  OrgBudget = 3
  Slots = {r1, r2}
  GlobalLimit = 2  SessionLimit = 2
  AmberPct = 70  RedPct = 95
  MaxCost = 1
  Callers = {k1}
  MaxFaults = 1  MaxOps = 1
INVARIANTS TypeOK GlobalOverspendBound BooksNeverAhead
PROPERTIES KeyBreaker GlobalBreaker Decides
