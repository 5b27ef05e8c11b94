SPECIFICATION FairSpec
CONSTANTS
  openai = openai  anthropic = anthropic  gemini = gemini  deepseek = deepseek
  w1 = w1  m1 = m1  m2 = m2  n1 = n1  n2 = n2  n3 = n3
  Slots = {r1, r2}
  Providers = {anthropic, gemini}
  Nodes = {n1, n2, n3}
  Home <- MCHome  Grant <- MCGrant  FirstRows <- MCFirstRows
  Premium = {n3}  MasterKeys = {m1, m2}  FirstMaster = m1
  Users = {w1}  NoUser = NoUser  None = None  Client = Client
  Peers = {w1}  P2PEnabled = TRUE  StrictZKP = TRUE
  KeyHeader <- MCKeyHeader  Configured = {anthropic, gemini}
  Fallback = anthropic  Traffic <- MCTraffic
  FreeRiderLimit = 1  MaxEst = 1
  MaxRetries = 1  MaxOps = 1
INVARIANTS TypeOK QuotaBound FreeRiderBound RotationFair DoneHasAnswer CredentialMatches
PROPERTIES EndsOrHangs
