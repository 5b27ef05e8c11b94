--------------------------- MODULE MeshReputation ---------------------------
(***************************************************************************)
(* The stake-and-slash reputation engine (internal/mesh/reputation.go) of  *)
(* several proxy processes and the gossip between them                     *)
(* (internal/p2p/gossip.go).  Every process keeps its own opinion of every *)
(* subject: a map in memory under ReputationManager.mu, and a table row    *)
(* that each operation updates before it gives the lock up.  The error of  *)
(* that statement is ignored.  Scores are integers (tenths of a point).    *)
(***************************************************************************)
EXTENDS Integers, FiniteSets

CONSTANTS
  Procs, Subjects,
  Seeded,            \* accounts with a row when the processes start
  InitialTrust, SlashPenalty, BlacklistAt, PremiumMin,   \* the mesh section
  TrustedMin,        \* 40 points
  MaxScore,          \* 100 points
  Gain,              \* 0.1 points for a clean request
  Loss,              \* 0.5 points for a minute after a day of idleness
  MaxMsgs,           \* bound on updates under way at a time
  MaxOffences,       \* bound on local offences
  MaxDays,           \* bound on accounts becoming idle
  MaxFaults          \* bound on crashes and failed statements

Accounts == Procs \X Subjects     \* <<p, s>>: what p thinks of s

ASSUME MeshAssumption ==
  /\ Seeded \subseteq Accounts
  /\ {InitialTrust, BlacklistAt, PremiumMin, TrustedMin} \subseteq Int
  /\ {SlashPenalty, Gain, Loss} \subseteq Nat \ {0}
  /\ MaxScore \in Nat \ {0}
  /\ InitialTrust <= MaxScore    \* 50 points, unless configured above 100
  /\ {MaxMsgs, MaxOffences, MaxDays, MaxFaults} \subseteq Nat

VARIABLES
  known,       \* accounts in the map of their process
  score, tier, banned,
  idle,        \* no activity for more than a day
  rows,        \* accounts with a row in mesh_reputation
  savedScore, savedBan,
  wire,        \* updates published and not yet delivered
  offences,    \* history: local offences of each subject
  torn,        \* history: accounts a statement of which failed, or the row
               \* of which was once not read
  days, faults

memVars == <<known, score, tier, banned, idle>>
tableVars == <<rows, savedScore, savedBan>>
vars == <<memVars, tableVars, wire, offences, torn, days, faults>>

Tiers == {"UNTRUSTED", "NEW", "TRUSTED", "PREMIUM"}

Updates == [id : Nat, to : Procs, from : Procs, subject : Subjects,
            kind : {"slash", "boost"}]

TypeOK ==
  /\ known \subseteq Accounts
  /\ score \in [Accounts -> Int]
  /\ \A a \in Accounts : score[a] <= MaxScore
  /\ tier \in [Accounts -> Tiers]
  /\ banned \in [Accounts -> BOOLEAN]
  /\ idle \in [Accounts -> BOOLEAN]
  /\ rows \subseteq Accounts
  /\ savedScore \in [Accounts -> Int]
  /\ \A a \in Accounts : savedScore[a] <= MaxScore
  /\ savedBan \in [Accounts -> BOOLEAN]
  /\ wire \subseteq Updates
  /\ offences \in [Subjects -> Nat]
  /\ torn \subseteq Accounts
  /\ days \in Nat
  /\ faults \in Nat

----------------------------------------------------------------------------
\* Mutant: the score alone decides.
TierByScore(points, ban) ==
  IF points <= BlacklistAt THEN "UNTRUSTED"
  ELSE IF points >= PremiumMin THEN "PREMIUM"
  ELSE IF points >= TrustedMin THEN "TRUSTED" ELSE "NEW"

computeTier(points, ban) ==
  IF ban \/ points <= BlacklistAt THEN "UNTRUSTED"
  ELSE IF points >= PremiumMin THEN "PREMIUM"
  ELSE IF points >= TrustedMin THEN "TRUSTED" ELSE "NEW"

\* Mutant: the cap is forgotten.
Uncapped(points) == points

Capped(points) == IF points > MaxScore THEN MaxScore ELSE points

Rate(a, points, ban) ==
  /\ score' = [score EXCEPT ![a] = points]
  /\ banned' = [banned EXCEPT ![a] = ban]
  /\ tier' = [tier EXCEPT ![a] = computeTier(points, ban)]

Active(a) == idle' = [idle EXCEPT ![a] = FALSE]

Fault == faults < MaxFaults /\ faults' = faults + 1

\* The UPDATE of an account: no row, no effect; a failure goes unnoticed.
\* Only the one of Slash writes the column blacklisted (withBan).
Save(a, withBan) ==
  \/ /\ savedScore' = [savedScore EXCEPT ![a] = IF a \in rows THEN score'[a] ELSE @]
     /\ savedBan' = [savedBan EXCEPT ![a] = IF a \in rows /\ withBan
                                              THEN banned'[a] ELSE @]
     /\ UNCHANGED <<rows, torn, faults>>
  \/ /\ Fault
     /\ torn' = torn \cup {a}
     /\ UNCHANGED tableVars

\* OnReputationChange: a goroutine publishes the change to every peer, or
\* fails to (the errors of BroadcastReputationUpdate are dropped).  taken is
\* the update that made p act, if it was one.
Announce(a, kind, taken) ==
  LET free == (1..MaxMsgs) \ {m.id : m \in wire \ taken} IN
  \/ /\ free # {}
     /\ wire' = (wire \ taken) \cup
          {[id |-> CHOOSE n \in free : TRUE, to |-> q, from |-> a[1],
            subject |-> a[2], kind |-> kind] : q \in Procs \ {a[1]}}
  \/ wire' = wire \ taken

----------------------------------------------------------------------------
(* The operations of ReputationManager on an account.                      *)

\* A stranger is registered at the initial score, as NEW whatever the score.
GetOrCreate(a) ==
  /\ a \notin known
  /\ known' = known \cup {a}
  /\ score' = [score EXCEPT ![a] = InitialTrust]
  /\ tier' = [tier EXCEPT ![a] = "NEW"]
  /\ banned' = [banned EXCEPT ![a] = FALSE]
  /\ Active(a)
  /\ \/ /\ rows' = rows \cup {a}      \* INSERT OR IGNORE
        /\ savedScore' = [savedScore EXCEPT ![a] = IF a \in rows THEN @ ELSE InitialTrust]
        /\ savedBan' = [savedBan EXCEPT ![a] = IF a \in rows THEN @ ELSE FALSE]
        /\ UNCHANGED <<torn, faults>>
     \/ Fault /\ torn' = torn \cup {a} /\ UNCHANGED tableVars
  /\ UNCHANGED wire

RecordSuccess(a) ==
  /\ a \in known
  /\ Rate(a, IF score[a] < MaxScore THEN Capped(score[a] + Gain) ELSE score[a],
         banned[a])
  /\ Active(a)
  /\ Save(a, FALSE)
  /\ Announce(a, "boost", {})
  /\ UNCHANGED known

\* Mutant: a ban lasts only as long as the score is low.
SlashRecomputes(a, taken) ==
  LET points == score[a] - SlashPenalty
      ban == points <= BlacklistAt
  IN  /\ a \in known
      /\ Rate(a, IF ban THEN 0 ELSE points, ban)
      /\ Active(a)
      /\ Save(a, TRUE)
      /\ Announce(a, "slash", taken)
      /\ UNCHANGED known

\* Mutant: the ban is not saved.
SlashSavesScore(a, taken) ==
  LET points == score[a] - SlashPenalty
      ban == points <= BlacklistAt
  IN  /\ a \in known
      /\ Rate(a, IF ban THEN 0 ELSE points, ban \/ banned[a])
      /\ Active(a)
      /\ Save(a, FALSE)
      /\ Announce(a, "slash", taken)
      /\ UNCHANGED known

\* At the threshold the score drops to 0 and the ban is set.
Slash(a, taken) ==
  LET points == score[a] - SlashPenalty
      ban == points <= BlacklistAt
  IN  /\ a \in known
      /\ Rate(a, IF ban THEN 0 ELSE points, ban \/ banned[a])
      /\ Active(a)
      /\ Save(a, TRUE)
      /\ Announce(a, "slash", taken)
      /\ UNCHANGED known

\* Used by the gossip only: no activity, no announcement of its own.
Boost(a) ==
  /\ a \in known /\ ~banned[a]
  /\ Rate(a, Capped(score[a] + Gain), FALSE)
  /\ Save(a, FALSE)
  /\ UNCHANGED <<known, idle>>

\* Mutant: only trusted accounts decay.
DecaysTrusted(a) == a \in known /\ idle[a] /\ score[a] >= TrustedMin /\ ~banned[a]

Decays(a) == a \in known /\ idle[a] /\ score[a] > 0 /\ ~banned[a]

\* One tick of the decay loop of p: every idle account loses, and each
\* UPDATE may fail on its own.
DecayTick(p) ==
  LET hit == {a \in Accounts : a[1] = p /\ Decays(a)}
      Lower(a) == IF score[a] < Loss THEN 0 ELSE score[a] - Loss
  IN  /\ hit # {}
      /\ score' = [a \in Accounts |-> IF a \in hit THEN Lower(a) ELSE score[a]]
      /\ tier' = [a \in Accounts |-> IF a \in hit
                    THEN computeTier(Lower(a), FALSE) ELSE tier[a]]
      /\ \E lost \in SUBSET hit :
           /\ IF lost = {} THEN UNCHANGED faults ELSE Fault
           /\ torn' = torn \cup lost
           /\ savedScore' = [a \in Accounts |-> IF a \in (hit \cap rows) \ lost
                               THEN Lower(a) ELSE savedScore[a]]
      /\ UNCHANGED <<known, banned, idle, rows, savedBan, wire>>

----------------------------------------------------------------------------
(* What happens around them.                                               *)

\* The AI-WAF, the moderation, a bad proof or a fraud proof convicts s at p.
\* A subject that p does not know is not slashed.
Offence(p, s) ==
  /\ offences[s] < MaxOffences
  /\ offences' = [offences EXCEPT ![s] = @ + 1]
  /\ \/ Slash(<<p, s>>, {})
     \/ <<p, s>> \notin known /\ UNCHANGED <<memVars, tableVars, wire, torn, faults>>
  /\ UNCHANGED days

\* A request of s was answered with a 2xx status.
Success(p, s) ==
  /\ RecordSuccess(<<p, s>>)
  /\ UNCHANGED <<offences, days>>

Register(p, s) ==
  /\ GetOrCreate(<<p, s>>)
  /\ UNCHANGED <<offences, days>>

Decay(p) ==
  /\ DecayTick(p)
  /\ UNCHANGED <<offences, days>>

\* An update that came from its reporter is applied: a slash with the
\* receiver's own full penalty, and announced again, a boost as it is.
Receive(m) ==
  LET a == <<m.to, m.subject>> IN
  /\ m \in wire
  /\ \/ m.kind = "slash" /\ Slash(a, {m})
     \/ /\ m.kind = "boost" /\ Boost(a)
        /\ wire' = wire \ {m}
  /\ UNCHANGED <<offences, days>>

\* An update is lost, came through a relay (the reporter is not the peer it
\* was received from), is older than five minutes, or has no effect.
Discard(m) ==
  /\ m \in wire
  /\ wire' = wire \ {m}
  /\ UNCHANGED <<memVars, tableVars, offences, torn, days, faults>>

Day(a) ==
  /\ a \in known /\ ~idle[a]
  /\ days < MaxDays /\ days' = days + 1
  /\ idle' = [idle EXCEPT ![a] = TRUE]
  /\ UNCHANGED <<known, score, tier, banned, tableVars, wire, offences, torn, faults>>

\* p stops, by itself or not, and loads its table when it starts again.  A
\* row that cannot be scanned, and every row after an error of the
\* iteration, is left out: its account is unknown until it is registered
\* anew.  The last activity of an account whose UPDATE failed is an old one.
\* (If the query itself fails, rows.Err() is called on nil: the process does
\* not come up, and a later start takes its place.)
Restart(p) ==
  LET mine == {a \in Accounts : a[1] = p} IN
  /\ Fault
  /\ \E unread \in SUBSET (rows \cap mine), old \in SUBSET (torn \cap mine) :
       /\ known' = (known \ mine) \cup ((rows \cap mine) \ unread)
       /\ torn' = torn \cup unread
       /\ idle' = [a \in Accounts |-> idle[a] \/ a \in old]
  /\ score' = [a \in Accounts |-> IF a \in mine THEN savedScore[a] ELSE score[a]]
  /\ banned' = [a \in Accounts |-> IF a \in mine THEN savedBan[a] ELSE banned[a]]
  /\ tier' = [a \in Accounts |-> IF a \in mine
                THEN computeTier(savedScore[a], savedBan[a]) ELSE tier[a]]
  /\ UNCHANGED <<tableVars, wire, offences, days>>

----------------------------------------------------------------------------
Init ==
  /\ known = Seeded
  /\ score = [a \in Accounts |-> InitialTrust]
  /\ tier = [a \in Accounts |-> computeTier(InitialTrust, FALSE)]
  /\ banned = [a \in Accounts |-> FALSE]
  /\ idle = [a \in Accounts |-> FALSE]
  /\ rows = Seeded
  /\ savedScore = score
  /\ savedBan = banned
  /\ wire = {}
  /\ offences = [s \in Subjects |-> 0]
  /\ torn = {}
  /\ days = 0
  /\ faults = 0

\* What the proxy does.  It never calls GetOrCreate.
ProxyNext ==
  \/ \E p \in Procs, s \in Subjects : Offence(p, s) \/ Success(p, s)
  \/ \E p \in Procs : Decay(p) \/ Restart(p)
  \/ \E m \in wire : Receive(m) \/ Discard(m)
  \/ \E a \in Accounts : Day(a)

\* What the engine offers: subjects are registered at any time, as in
\* reputation_test.go.
Next ==
  \/ ProxyNext
  \/ \E p \in Procs, s \in Subjects : Register(p, s)

ProxySpec == Init /\ [][ProxyNext]_vars
Spec == Init /\ [][Next]_vars

\* The ticker of the decay loop never stops.
FairSpec == Spec /\ \A p \in Procs : WF_vars(Decay(p))

----------------------------------------------------------------------------
(* Safety.                                                                 *)

\* Whoever is banned is UNTRUSTED, which is what the quota pool and the
\* route protocol look at, even after clean requests, boosts and restarts.
BannedIsUntrusted == \A a \in known : banned[a] => tier[a] = "UNTRUSTED"

\* The table agrees with the memory, so a restart that reads it changes no
\* score and no ban, unless a statement of that account failed before or its
\* row was once not read (GetOrCreate then starts from the initial score
\* beside the old row).
TableMirrorsMemory ==
  \A a \in known \ torn :
    a \in rows /\ savedScore[a] = score[a] /\ savedBan[a] = banned[a]

\* No gossip, no clean request, no slash, no idleness and no registration
\* lifts a ban, not even of an account whose statements failed; only a
\* restart does, and only that of an account a statement of which failed or
\* whose row it did not read.
NoPardon ==
  [][\A a \in known : banned[a] =>
       \/ a \in known' /\ banned'[a]
       \/ a \in torn' /\ Restart(a[1])]_vars

\* One conviction of an account that was not idle does not ban it: it costs
\* one penalty, wherever it happened (docs/drr-mesh.md).
OneOffenceOnePenalty ==
  \A a \in Accounts :
    score[a] >= InitialTrust - SlashPenalty * offences[a[2]]

----------------------------------------------------------------------------
(* Liveness.                                                               *)

\* An account that stays idle loses whatever it has, unless it is banned or
\* its score is raised again and again meanwhile: Boost does not count as
\* activity, so recurring gossip may keep an idle account where it is.
IdleDecays ==
  \A a \in Accounts :
    \/ []<><<idle[a] /\ score'[a] > score[a]>>_vars
    \/ (a \in known /\ idle[a])
         ~> (score[a] <= 0 \/ ~idle[a] \/ banned[a] \/ a \notin known)
=============================================================================
