------------------------ MODULE MeshReputationProofs ------------------------
(* Safety of the reputation engine, for any number of processes, subjects, *)
(* messages, restarts and failed statements.                               *)
EXTENDS MeshReputation, TLAPS

\* The invariant that is inductive: the tier of a banned account, and the
\* agreement of table and memory on every account whose statements succeeded
\* and whose row was read, which is what a restart relies on.  Any other row
\* without an account in memory would let GetOrCreate contradict the table.
RowsKnown == rows \subseteq known \cup torn

RepInv == TypeOK /\ BannedIsUntrusted /\ TableMirrorsMemory /\ RowsKnown

LEMMA CappedBelow ==
  ASSUME NEW n \in Int PROVE Capped(n) \in Int /\ Capped(n) <= MaxScore /\ Capped(n) <= n
BY MeshAssumption DEF Capped

LEMMA TierType ==
  ASSUME NEW n \in Int, NEW b \in BOOLEAN
  PROVE  computeTier(n, b) \in Tiers /\ (b => computeTier(n, b) = "UNTRUSTED")
BY DEF computeTier, Tiers

LEMMA InitInv == Init => RepInv
<1> SUFFICES ASSUME Init PROVE RepInv
  OBVIOUS
<1>1. computeTier(InitialTrust, FALSE) \in Tiers
  BY TierType, MeshAssumption
<1>2. TypeOK
  BY <1>1, MeshAssumption DEF Init, TypeOK, Updates
<1>3. BannedIsUntrusted
  BY MeshAssumption DEF Init, BannedIsUntrusted
<1>4. TableMirrorsMemory
  BY MeshAssumption DEF Init, TableMirrorsMemory
<1>5. RowsKnown
  BY DEF Init, RowsKnown
<1> QED
  BY <1>2, <1>3, <1>4, <1>5 DEF RepInv

----------------------------------------------------------------------------
(* The parts an operation is made of.                                      *)

\* A new rating keeps the types, and a ban goes with the tier UNTRUSTED.
LEMMA RateStep ==
  ASSUME RepInv, NEW a \in Accounts, NEW n \in Int, n <= MaxScore,
         NEW b \in BOOLEAN, Rate(a, n, b)
  PROVE  /\ score' \in [Accounts -> Int]
         /\ \A c \in Accounts : score'[c] <= MaxScore
         /\ tier' \in [Accounts -> Tiers]
         /\ banned' \in [Accounts -> BOOLEAN]
         /\ \A c \in known : banned'[c] => tier'[c] = "UNTRUSTED"
         /\ \A c \in Accounts \ {a} : score'[c] = score[c] /\ banned'[c] = banned[c]
         /\ banned'[a] = b
<1>1. /\ computeTier(n, b) \in Tiers
      /\ b => computeTier(n, b) = "UNTRUSTED"
  BY TierType
<1> USE DEF RepInv, TypeOK
<1>2. score' \in [Accounts -> Int] /\ \A c \in Accounts : score'[c] <= MaxScore
  BY DEF Rate
<1>3. tier' \in [Accounts -> Tiers] /\ banned' \in [Accounts -> BOOLEAN]
  BY <1>1 DEF Rate
<1>4. \A c \in known : banned'[c] => tier'[c] = "UNTRUSTED"
  BY <1>1 DEF Rate, BannedIsUntrusted
<1>5. \A c \in Accounts \ {a} : score'[c] = score[c] /\ banned'[c] = banned[c]
  BY DEF Rate
<1>6. banned'[a] = b
  BY DEF Rate
<1> QED
  BY <1>2, <1>3, <1>4, <1>5, <1>6

\* What Save leaves in the table.
LEMMA SaveStep ==
  ASSUME RepInv, NEW a \in known, NEW withBan \in BOOLEAN, Save(a, withBan),
         UNCHANGED known, withBan \/ banned'[a] = banned[a],
         score' \in [Accounts -> Int], \A c \in Accounts : score'[c] <= MaxScore,
         banned' \in [Accounts -> BOOLEAN],
         \A c \in Accounts \ {a} : score'[c] = score[c] /\ banned'[c] = banned[c]
  PROVE  /\ rows' \subseteq Accounts
         /\ savedScore' \in [Accounts -> Int]
         /\ \A c \in Accounts : savedScore'[c] <= MaxScore
         /\ savedBan' \in [Accounts -> BOOLEAN]
         /\ torn' \subseteq Accounts
         /\ faults' \in Nat
         /\ TableMirrorsMemory'
         /\ RowsKnown'
<1> USE DEF RepInv, TypeOK, RowsKnown
<1>1. a \in Accounts
  OBVIOUS
<1>2. CASE /\ savedScore' = [savedScore EXCEPT ![a] = IF a \in rows THEN score'[a] ELSE @]
           /\ savedBan' = [savedBan EXCEPT ![a] = IF a \in rows /\ withBan
                                                    THEN banned'[a] ELSE @]
           /\ UNCHANGED <<rows, torn, faults>>
  <2>1. /\ savedScore' \in [Accounts -> Int]
        /\ \A c \in Accounts : savedScore'[c] <= MaxScore
        /\ savedBan' \in [Accounts -> BOOLEAN]
    BY <1>1, <1>2
  <2>2. TableMirrorsMemory'
    BY <1>1, <1>2 DEF TableMirrorsMemory
  <2> QED
    BY <1>2, <2>1, <2>2
<1>3. CASE Fault /\ torn' = torn \cup {a} /\ UNCHANGED tableVars
  <2>1. faults' \in Nat
    BY <1>3 DEF Fault
  <2>2. TableMirrorsMemory'
    BY <1>1, <1>3 DEF TableMirrorsMemory, tableVars
  <2> QED
    BY <1>1, <1>3, <2>1, <2>2 DEF tableVars
<1> QED
  BY <1>2, <1>3 DEF Save

LEMMA AnnounceStep ==
  ASSUME RepInv, NEW a \in Accounts, NEW kind \in {"slash", "boost"},
         NEW taken, Announce(a, kind, taken)
  PROVE  wire' \subseteq Updates
<1> DEFINE free == (1..MaxMsgs) \ {m.id : m \in wire \ taken}
           n == CHOOSE k \in free : TRUE
<1>1. a[1] \in Procs /\ a[2] \in Subjects
  BY DEF Accounts
<1>2. CASE wire' = wire \ taken
  BY <1>2 DEF RepInv, TypeOK
<1>3. CASE /\ free # {}
           /\ wire' = (wire \ taken) \cup
                {[id |-> n, to |-> q, from |-> a[1], subject |-> a[2],
                  kind |-> kind] : q \in Procs \ {a[1]}}
  <2>1. n \in free
    BY <1>3
  <2>2. n \in Nat
    BY <2>1, MeshAssumption
  <2> HIDE DEF n, free
  <2> QED
    BY <1>1, <1>3, <2>2 DEF RepInv, TypeOK, Updates
<1> QED
  BY <1>2, <1>3 DEF Announce

\* A rating that is saved preserves the invariant.
LEMMA RatedAndSaved ==
  ASSUME RepInv, NEW a \in known, NEW n \in Int, n <= MaxScore,
         NEW b \in BOOLEAN, Rate(a, n, b), UNCHANGED known,
         NEW withBan \in BOOLEAN, Save(a, withBan), withBan \/ b = banned[a],
         idle' \in [Accounts -> BOOLEAN],
         wire' \subseteq Updates,
         offences' \in [Subjects -> Nat], days' \in Nat
  PROVE  RepInv' /\ banned'[a] = b /\ \A c \in Accounts \ {a} : banned'[c] = banned[c]
<1>1. a \in Accounts
  BY DEF RepInv, TypeOK
<1>2. /\ score' \in [Accounts -> Int]
      /\ \A c \in Accounts : score'[c] <= MaxScore
      /\ tier' \in [Accounts -> Tiers]
      /\ banned' \in [Accounts -> BOOLEAN]
      /\ \A c \in known : banned'[c] => tier'[c] = "UNTRUSTED"
      /\ \A c \in Accounts \ {a} : score'[c] = score[c] /\ banned'[c] = banned[c]
      /\ banned'[a] = b
  BY <1>1, RateStep
<1>3. /\ rows' \subseteq Accounts
      /\ savedScore' \in [Accounts -> Int]
      /\ \A c \in Accounts : savedScore'[c] <= MaxScore
      /\ savedBan' \in [Accounts -> BOOLEAN]
      /\ torn' \subseteq Accounts
      /\ faults' \in Nat
      /\ TableMirrorsMemory'
      /\ RowsKnown'
  BY <1>2, SaveStep
<1>4. TypeOK'
  BY <1>2, <1>3 DEF RepInv, TypeOK
<1>5. BannedIsUntrusted'
  BY <1>2 DEF BannedIsUntrusted
<1> QED
  BY <1>2, <1>3, <1>4, <1>5 DEF RepInv

----------------------------------------------------------------------------
(* The operations.                                                         *)

LEMMA SuccessInv ==
  ASSUME RepInv, NEW p \in Procs, NEW s \in Subjects, Success(p, s)
  PROVE  RepInv' /\ \A c \in known : banned[c] => banned'[c]
<1> DEFINE a == <<p, s>>
           n == IF score[a] < MaxScore THEN Capped(score[a] + Gain) ELSE score[a]
<1>1. a \in known /\ a \in Accounts
  BY DEF Success, RecordSuccess, Accounts
<1>2. n \in Int /\ n <= MaxScore
  <2>1. score[a] \in Int /\ score[a] <= MaxScore /\ score[a] + Gain \in Int
    BY <1>1, MeshAssumption DEF RepInv, TypeOK
  <2> QED
    BY <2>1, CappedBelow
<1>3. banned[a] \in BOOLEAN
  BY <1>1 DEF RepInv, TypeOK
<1>4. /\ Rate(a, n, banned[a]) /\ Save(a, FALSE) /\ Announce(a, "boost", {})
      /\ UNCHANGED <<known, offences, days>> /\ Active(a)
  BY DEF Success, RecordSuccess
<1>5. wire' \subseteq Updates
  BY <1>1, <1>4, AnnounceStep
<1>6. /\ idle' \in [Accounts -> BOOLEAN]
      /\ offences' \in [Subjects -> Nat] /\ days' \in Nat
  BY <1>1, <1>4 DEF Active, RepInv, TypeOK
<1> HIDE DEF n, a
<1>7. RepInv' /\ banned'[a] = banned[a]
      /\ \A c \in Accounts \ {a} : banned'[c] = banned[c]
  BY <1>1, <1>2, <1>3, <1>4, <1>5, <1>6, RatedAndSaved
<1> QED
  BY <1>1, <1>7 DEF RepInv, TypeOK

\* Slash, whoever asked for it.
LEMMA SlashInv ==
  ASSUME RepInv, NEW a \in Accounts, NEW taken, Slash(a, taken),
         offences' \in [Subjects -> Nat], days' \in Nat
  PROVE  RepInv' /\ \A c \in known : banned[c] => banned'[c]
<1> DEFINE points == score[a] - SlashPenalty
           ban == points <= BlacklistAt
           n == IF ban THEN 0 ELSE points
<1>1. a \in known
  BY DEF Slash
<1>2. n \in Int /\ n <= MaxScore
  BY MeshAssumption DEF RepInv, TypeOK
<1>3. (ban \/ banned[a]) \in BOOLEAN
  OBVIOUS
<1>4. /\ Rate(a, n, ban \/ banned[a]) /\ Save(a, TRUE) /\ Announce(a, "slash", taken)
      /\ UNCHANGED known /\ Active(a)
  BY DEF Slash
<1>5. wire' \subseteq Updates
  BY <1>4, AnnounceStep
<1>6. idle' \in [Accounts -> BOOLEAN]
  BY <1>4 DEF Active, RepInv, TypeOK
<1> HIDE DEF n, ban
<1>7. RepInv' /\ banned'[a] = (ban \/ banned[a])
      /\ \A c \in Accounts \ {a} : banned'[c] = banned[c]
  BY <1>1, <1>2, <1>3, <1>4, <1>5, <1>6, RatedAndSaved
<1> QED
  BY <1>1, <1>7 DEF RepInv, TypeOK

LEMMA OffenceInv ==
  ASSUME RepInv, NEW p \in Procs, NEW s \in Subjects, Offence(p, s)
  PROVE  RepInv' /\ \A c \in known : banned[c] => banned'[c]
<1>1. offences' \in [Subjects -> Nat] /\ days' \in Nat
  BY DEF Offence, RepInv, TypeOK
<1>2. CASE Slash(<<p, s>>, {})
  <2>1. <<p, s>> \in Accounts
    BY DEF Accounts
  <2> QED
    BY <1>1, <1>2, <2>1, SlashInv
<1>3. CASE UNCHANGED <<memVars, tableVars, wire, torn, faults>>
  BY <1>1, <1>3 DEF memVars, tableVars, RepInv, TypeOK, RowsKnown,
                    BannedIsUntrusted, TableMirrorsMemory
<1> QED
  BY <1>2, <1>3 DEF Offence

LEMMA ReceiveInv ==
  ASSUME RepInv, NEW m \in wire, Receive(m)
  PROVE  RepInv' /\ \A c \in known : banned[c] => banned'[c]
<1> DEFINE a == <<m.to, m.subject>>
<1>1. a \in Accounts
  BY DEF RepInv, TypeOK, Updates, Accounts
<1>2. /\ offences' \in [Subjects -> Nat] /\ days' \in Nat
  BY DEF Receive, RepInv, TypeOK
<1>3. CASE Slash(a, {m})
  BY <1>1, <1>2, <1>3, SlashInv
<1>4. CASE Boost(a) /\ wire' = wire \ {m}
  <2> DEFINE n == Capped(score[a] + Gain)
  <2>1. a \in known /\ banned[a] = FALSE
    BY <1>1, <1>4 DEF Boost, RepInv, TypeOK
  <2>2. n \in Int /\ n <= MaxScore
    BY <1>1, CappedBelow, MeshAssumption DEF RepInv, TypeOK
  <2>3. Rate(a, n, FALSE) /\ Save(a, FALSE) /\ UNCHANGED <<known, idle>>
    BY <1>4 DEF Boost
  <2>4. /\ wire' \subseteq Updates
        /\ idle' \in [Accounts -> BOOLEAN]
    BY <1>4, <2>3 DEF RepInv, TypeOK
  <2> HIDE DEF n, a
  <2>5. RepInv' /\ \A c \in Accounts \ {a} : banned'[c] = banned[c]
    BY <1>2, <2>1, <2>2, <2>3, <2>4, RatedAndSaved
  <2> QED
    BY <2>1, <2>5 DEF RepInv, TypeOK
<1> QED
  BY <1>3, <1>4 DEF Receive

LEMMA RegisterInv ==
  ASSUME RepInv, NEW p \in Procs, NEW s \in Subjects, Register(p, s)
  PROVE  RepInv' /\ \A c \in known : banned[c] => banned'[c]
<1> DEFINE a == <<p, s>>
<1>1. a \in Accounts /\ a \notin known /\ (a \in rows => a \in torn)
  BY DEF Accounts, Register, GetOrCreate, RepInv, RowsKnown
<1>2. /\ known' = known \cup {a}
      /\ score' = [score EXCEPT ![a] = InitialTrust]
      /\ tier' = [tier EXCEPT ![a] = "NEW"]
      /\ banned' = [banned EXCEPT ![a] = FALSE]
      /\ idle' = [idle EXCEPT ![a] = FALSE]
      /\ UNCHANGED <<wire, offences, days>>
  BY DEF Register, GetOrCreate, Active
<1>3. \/ /\ rows' = rows \cup {a}
         /\ savedScore' = [savedScore EXCEPT ![a] = IF a \in rows THEN @ ELSE InitialTrust]
         /\ savedBan' = [savedBan EXCEPT ![a] = IF a \in rows THEN @ ELSE FALSE]
         /\ UNCHANGED <<torn, faults>>
      \/ Fault /\ torn' = torn \cup {a} /\ UNCHANGED tableVars
  BY DEF Register, GetOrCreate
<1> HIDE DEF a
<1>4. /\ score' \in [Accounts -> Int]
      /\ \A c \in Accounts : score'[c] <= MaxScore
      /\ banned' \in [Accounts -> BOOLEAN]
  BY <1>1, <1>2, MeshAssumption DEF RepInv, TypeOK
<1>5. CASE /\ rows' = rows \cup {a}
           /\ savedScore' = [savedScore EXCEPT ![a] = IF a \in rows THEN @ ELSE InitialTrust]
           /\ savedBan' = [savedBan EXCEPT ![a] = IF a \in rows THEN @ ELSE FALSE]
           /\ UNCHANGED <<torn, faults>>
  <2>1. /\ savedScore' \in [Accounts -> Int]
        /\ \A c \in Accounts : savedScore'[c] <= MaxScore
        /\ savedBan' \in [Accounts -> BOOLEAN]
    BY <1>1, <1>5, MeshAssumption DEF RepInv, TypeOK
  <2>2. TypeOK'
    BY <1>1, <1>2, <1>4, <1>5, <2>1 DEF Tiers, RepInv, TypeOK
  <2>3. TableMirrorsMemory' /\ RowsKnown'
    BY <1>1, <1>2, <1>5 DEF RepInv, TypeOK, TableMirrorsMemory, RowsKnown
  <2> QED
    BY <1>1, <1>2, <2>2, <2>3 DEF RepInv, TypeOK, BannedIsUntrusted
<1>6. CASE Fault /\ torn' = torn \cup {a} /\ UNCHANGED tableVars
  <2>1. faults' \in Nat
    BY <1>6 DEF Fault, RepInv, TypeOK
  <2>2. TypeOK'
    BY <1>1, <1>2, <1>4, <1>6, <2>1 DEF tableVars, Tiers, RepInv, TypeOK
  <2>3. TableMirrorsMemory' /\ RowsKnown'
    BY <1>1, <1>2, <1>6 DEF tableVars, RepInv, TypeOK, TableMirrorsMemory, RowsKnown
  <2> QED
    BY <1>1, <1>2, <2>2, <2>3 DEF RepInv, TypeOK, BannedIsUntrusted
<1> QED
  <2>1. \A c \in known : banned[c] => banned'[c]
    BY <1>1, <1>2 DEF RepInv, TypeOK
  <2> QED
    BY <1>3, <1>5, <1>6, <2>1

LEMMA DecayInv ==
  ASSUME RepInv, NEW p \in Procs, Decay(p)
  PROVE  RepInv' /\ \A c \in known : banned[c] => banned'[c]
<1> DEFINE hit == {a \in Accounts : a[1] = p /\ Decays(a)}
           Lower(a) == IF score[a] < Loss THEN 0 ELSE score[a] - Loss
<1>1. PICK lost \in SUBSET hit :
        /\ IF lost = {} THEN UNCHANGED faults ELSE Fault
        /\ torn' = torn \cup lost
        /\ savedScore' = [a \in Accounts |-> IF a \in (hit \cap rows) \ lost
                            THEN Lower(a) ELSE savedScore[a]]
  BY DEF Decay, DecayTick
<1>2. /\ score' = [a \in Accounts |-> IF a \in hit THEN Lower(a) ELSE score[a]]
      /\ tier' = [a \in Accounts |-> IF a \in hit
                    THEN computeTier(Lower(a), FALSE) ELSE tier[a]]
      /\ UNCHANGED <<known, banned, idle, rows, savedBan, wire, offences, days>>
  BY DEF Decay, DecayTick
<1>3. \A a \in Accounts : Lower(a) \in Int /\ Lower(a) <= MaxScore
  BY MeshAssumption DEF RepInv, TypeOK
<1>4. \A a \in Accounts : computeTier(Lower(a), FALSE) \in Tiers
  BY <1>3, TierType
<1>5. \A a \in hit : ~banned[a] /\ a \in Accounts
  BY DEF Decays
<1>6. hit \subseteq Accounts /\ faults' \in Nat
  BY <1>1 DEF Fault, RepInv, TypeOK
<1> HIDE DEF hit, Lower
<1>7. TypeOK'
  BY <1>1, <1>2, <1>3, <1>4, <1>6 DEF RepInv, TypeOK
<1>8. BannedIsUntrusted'
  BY <1>2, <1>5 DEF RepInv, TypeOK, BannedIsUntrusted
<1>9. TableMirrorsMemory' /\ RowsKnown'
  BY <1>1, <1>2, <1>6 DEF RepInv, TypeOK, TableMirrorsMemory, RowsKnown
<1> QED
  BY <1>2, <1>7, <1>8, <1>9 DEF RepInv

\* A restart takes back what was saved, which is what was known, of every
\* account whose row it reads.
LEMMA RestartInv ==
  ASSUME RepInv, NEW p \in Procs, Restart(p)
  PROVE  /\ RepInv'
         /\ \A c \in known : banned[c] =>
              (c \in known' /\ banned'[c]) \/ (c \in torn' /\ c[1] = p)
<1> DEFINE mine == {a \in Accounts : a[1] = p}
<1>1. PICK unread \in SUBSET (rows \cap mine), old \in SUBSET (torn \cap mine) :
        /\ known' = (known \ mine) \cup ((rows \cap mine) \ unread)
        /\ torn' = torn \cup unread
        /\ idle' = [a \in Accounts |-> idle[a] \/ a \in old]
  BY DEF Restart
<1>2. /\ score' = [a \in Accounts |-> IF a \in mine THEN savedScore[a] ELSE score[a]]
      /\ banned' = [a \in Accounts |-> IF a \in mine THEN savedBan[a] ELSE banned[a]]
      /\ tier' = [a \in Accounts |-> IF a \in mine
                    THEN computeTier(savedScore[a], savedBan[a]) ELSE tier[a]]
      /\ UNCHANGED <<tableVars, wire, offences, days>>
      /\ faults' \in Nat
  BY DEF Restart, Fault, RepInv, TypeOK
<1>3. \A a \in Accounts :
        /\ computeTier(savedScore[a], savedBan[a]) \in Tiers
        /\ savedBan[a] => computeTier(savedScore[a], savedBan[a]) = "UNTRUSTED"
  BY TierType DEF RepInv, TypeOK
<1>4. mine \subseteq Accounts /\ \A c \in mine : c[1] = p
  OBVIOUS
<1> HIDE DEF mine
<1>5. idle' \in [Accounts -> BOOLEAN]
  BY <1>1 DEF RepInv, TypeOK
<1>6. TypeOK'
  BY <1>1, <1>2, <1>3, <1>4, <1>5 DEF RepInv, TypeOK, tableVars
<1>7. BannedIsUntrusted'
  BY <1>1, <1>2, <1>3, <1>4 DEF RepInv, TypeOK, BannedIsUntrusted
<1>8. TableMirrorsMemory' /\ RowsKnown'
  BY <1>1, <1>2, <1>4 DEF RepInv, TypeOK, TableMirrorsMemory, RowsKnown, tableVars
<1>9. ASSUME NEW c \in known, banned[c]
      PROVE  (c \in known' /\ banned'[c]) \/ (c \in torn' /\ c[1] = p)
  BY <1>1, <1>2, <1>4, <1>9 DEF RepInv, TypeOK, TableMirrorsMemory
<1> QED
  BY <1>6, <1>7, <1>8, <1>9 DEF RepInv

----------------------------------------------------------------------------
\* Every step keeps the invariant, and every ban but for a restart of the
\* account's process that finds no complete record of it.
Kept ==
  \A c \in known : banned[c] =>
    (c \in known' /\ banned'[c]) \/ (c \in torn' /\ Restart(c[1]))

LEMMA StepInv ==
  ASSUME RepInv, [Next]_vars
  PROVE  RepInv' /\ Kept
<1>1. ASSUME known \subseteq known', RepInv' /\ \A c \in known : banned[c] => banned'[c]
      PROVE  RepInv' /\ Kept
  BY <1>1 DEF Kept
<1>2. CASE UNCHANGED vars
  <2>1. RepInv'
    BY <1>2 DEF vars, memVars, tableVars, RepInv, TypeOK, RowsKnown,
                BannedIsUntrusted, TableMirrorsMemory
  <2> QED
    BY <1>2, <2>1 DEF vars, memVars, Kept
<1>3. ASSUME NEW p \in Procs, NEW s \in Subjects, Offence(p, s)
      PROVE  RepInv' /\ Kept
  <2>1. known' = known
    BY <1>3 DEF Offence, Slash, memVars
  <2> QED
    BY <1>1, <1>3, <2>1, OffenceInv
<1>4. ASSUME NEW p \in Procs, NEW s \in Subjects, Success(p, s)
      PROVE  RepInv' /\ Kept
  <2>1. known' = known
    BY <1>4 DEF Success, RecordSuccess
  <2> QED
    BY <1>1, <1>4, <2>1, SuccessInv
<1>5. ASSUME NEW p \in Procs, NEW s \in Subjects, Register(p, s)
      PROVE  RepInv' /\ Kept
  <2>1. known \subseteq known'
    BY <1>5 DEF Register, GetOrCreate
  <2> QED
    BY <1>1, <1>5, <2>1, RegisterInv
<1>6. ASSUME NEW p \in Procs, Decay(p)
      PROVE  RepInv' /\ Kept
  <2>1. known' = known
    BY <1>6 DEF Decay, DecayTick
  <2> QED
    BY <1>1, <1>6, <2>1, DecayInv
<1>7. ASSUME NEW p \in Procs, Restart(p)
      PROVE  RepInv' /\ Kept
  <2>1. /\ RepInv'
        /\ \A c \in known : banned[c] =>
             (c \in known' /\ banned'[c]) \/ (c \in torn' /\ c[1] = p)
    BY <1>7, RestartInv
  <2>2. \A c \in known : c[1] = p => Restart(c[1])
    BY <1>7
  <2> QED
    BY <2>1, <2>2 DEF Kept
<1>8. ASSUME NEW m \in wire, Receive(m)
      PROVE  RepInv' /\ Kept
  <2>1. known' = known
    BY <1>8 DEF Receive, Slash, Boost
  <2> QED
    BY <1>1, <1>8, <2>1, ReceiveInv
<1>9. ASSUME NEW m \in wire, Discard(m)
      PROVE  RepInv' /\ Kept
  <2>1. RepInv'
    BY <1>9 DEF Discard, memVars, tableVars, RepInv, TypeOK, RowsKnown,
                BannedIsUntrusted, TableMirrorsMemory
  <2> QED
    BY <1>1, <1>9, <2>1 DEF Discard, memVars
<1>10. ASSUME NEW a \in Accounts, Day(a)
       PROVE  RepInv' /\ Kept
  <2>1. RepInv'
    BY <1>10 DEF Day, tableVars, RepInv, TypeOK, RowsKnown,
                 BannedIsUntrusted, TableMirrorsMemory
  <2> QED
    BY <1>1, <1>10, <2>1 DEF Day
<1> QED
  BY <1>2, <1>3, <1>4, <1>5, <1>6, <1>7, <1>8, <1>9, <1>10 DEF Next, ProxyNext

\* What the table, the memory and the bans keep to each other, in every
\* reachable state (internal/mesh/reputation.go).
THEOREM RepInvariant == Spec => []RepInv
<1>1. RepInv /\ [Next]_vars => RepInv'
  BY StepInv
<1> QED
  BY InitInv, <1>1, PTL DEF Spec

\* Every score is at most the maximum, every update names a process and a
\* subject that exist, and no row is one of an account that is not modelled.
THEOREM MeshType == Spec => []TypeOK
<1>1. RepInv => TypeOK
  BY DEF RepInv
<1> QED
  BY RepInvariant, <1>1, PTL

\* However slashes, successes, boosts, decay, gossip and restarts interleave,
\* whoever is banned is UNTRUSTED for the quota pool and the route protocol.
THEOREM BannedStaysUntrusted == Spec => []BannedIsUntrusted
<1>1. RepInv => BannedIsUntrusted
  BY DEF RepInv
<1> QED
  BY RepInvariant, <1>1, PTL

\* The table of a process agrees with its memory wherever no statement
\* failed and every start read the row, so a restart that reads it changes
\* no score and no ban.
THEOREM TableMirrors == Spec => []TableMirrorsMemory
<1>1. RepInv => TableMirrorsMemory
  BY DEF RepInv
<1> QED
  BY RepInvariant, <1>1, PTL

\* Nothing the engine does lifts a ban, except a restart that does not read
\* the account's row or reads one that a failed statement left behind.
THEOREM BanIsForGood == Spec => NoPardon
<1> DEFINE Held ==
             \A a \in known : banned[a] =>
               \/ a \in known' /\ banned'[a]
               \/ a \in torn' /\ Restart(a[1])
<1>1. RepInv /\ [Next]_vars => Held
  BY StepInv DEF Kept
<1>2. Spec => [][Held]_vars
  <2> HIDE DEF Held
  <2> QED
    BY RepInvariant, <1>1, PTL DEF Spec
<1> QED
  BY <1>2 DEF NoPardon
=============================================================================
