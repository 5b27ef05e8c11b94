SPECIFICATION ProxySpec
CONSTANTS
  p1 = p1  p2 = p2  x = x
  Procs = {p1, p2}  Subjects = {x}
  Seeded <- MCAllSeeded
  InitialTrust = 4  SlashPenalty = 2  BlacklistAt = 1
  PremiumMin = 5  TrustedMin = 3  MaxScore = 6
  Gain = 1  Loss = 1
  MaxMsgs = 3  MaxOffences = 1  MaxDays = 0  MaxFaults = 0
INVARIANTS OneOffenceOnePenalty
