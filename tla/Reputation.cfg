SPECIFICATION FairSpec
CONSTANTS
  p1 = p1  p2 = p2  x = x
  Procs = {p1, p2}  Subjects = {x}
  Seeded <- MCSeeded
  InitialTrust = 4  SlashPenalty = 2  BlacklistAt = 1
  PremiumMin = 5  TrustedMin = 3  MaxScore = 6
  Gain = 1  Loss = 1
  MaxMsgs = 1  MaxOffences = 2  MaxDays = 1  MaxFaults = 2
INVARIANTS TypeOK BannedIsUntrusted TableMirrorsMemory
PROPERTIES NoPardon IdleDecays
