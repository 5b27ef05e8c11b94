SPECIFICATION Spec
CONSTANTS
  Chosen = {"cache"}
  Askers = {a1, a2}
  a1 = a1
  a2 = a2
  Bodies <- MCEmbeddings
  FallbackModel = "chat"
  MaxEntries = 1
  MaxClears = 2
  Hits = {a1, a2}
  Burst = 2
  Rate = 1
  IdleLimit = 5
  MaxStay = 1
  RingSize = 2
  Threshold = 2
  MaxRecords = 4
  MaxFlushes = 2
  Viewers = {a1, a2}
  QueueSize = 1
  MaxMirrors = 2
  MaxEvents = 3
  Users = {a1, a2}
  Keys = {"k1"}
  Known = TRUE
  Envs <- MCNoEnv
  MaxChanges = 2
  MaxStarts = 1
  Nodes = {a1, a2}
  NoNode = NoNode
  TTL = 4
  Period = 2
  Prompt = 1
  MaxFaults = 2
  Limit = 2
  PerNode = 1
  MaxSpend = 6
  Slots = {"r1", "r2", "r3"}
  MaxCost = 2
  Line = 3
  MaxEvictions = 2
  MaxWaived = 2
INVARIANT OwnAnswer
CHECK_DEADLOCK FALSE
