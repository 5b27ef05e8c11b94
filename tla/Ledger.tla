------------------------------- MODULE Ledger -------------------------------
(***************************************************************************)
(* The SQLite ledger of one proxy process (internal/budget/ledger.go): the *)
(* tables behind GlobalLedger and the operations on them.  Every operation *)
(* of the Go type takes Ledger.mu, so one operation is one step; what can  *)
(* still tear is the inside of an operation that runs several statements   *)
(* without an SQL transaction, and that is a parameter of the operators    *)
(* below (the statements that took effect).                                *)
(*                                                                         *)
(* Money is a natural number of cost units.  A table is the set of its     *)
(* rows plus, for each numeric column, a function.                         *)
(***************************************************************************)
EXTENDS Naturals, FiniteSets

CONSTANTS
  Keys,          \* virtual keys (one per key_hash; a hash is never issued twice)
  Sessions,      \* session identifiers
  Orgs,          \* organizations (AUTOINCREMENT ids, never reused)
  KeyName,       \* KeyName[k]: the name of k, also its legacy session id
  KeyOrg,        \* KeyOrg[k]: the organization of k, or NoOrg (org_id 0)
  NoOrg,
  Anonymous      \* a client that sends neither a key nor a session id

Clients == Keys \cup Sessions \cup {Anonymous}

ASSUME LedgerAssumption ==
  /\ KeyName \in [Keys -> Sessions]
  /\ KeyOrg \in [Keys -> Orgs \cup {NoOrg}]
  /\ NoOrg \notin Orgs
  /\ Keys \cap Sessions = {}
  /\ Anonymous \notin Keys \cup Sessions

VARIABLES
  spent,            \* SUM(estimated_cost_usd) over transactions
  sessionSpent,     \* the same sum WHERE session_id = s
  sessionRows,      \* session_ids with a row in tkngate_sessions
  sessionConsumed,  \* their consumed_budget_usd
  issued,           \* keys with a row in tkngate_virtual_keys
  revoked,          \* keys whose row was deleted
  keyConsumed,      \* consumed_budget_usd of a key
  keyState,         \* current_state of a key
  orgRows,          \* organizations with a row
  orgsDeleted,      \* organizations whose row was deleted
  orgConsumed       \* consumed_usd of an organization

spendVars == <<spent, sessionSpent>>
sessionVars == <<sessionRows, sessionConsumed>>
keyVars == <<issued, revoked, keyConsumed, keyState>>
orgVars == <<orgRows, orgsDeleted, orgConsumed>>
ledgerVars == <<spendVars, sessionVars, keyVars, orgVars>>

Zones == {"GREEN", "AMBER", "RED"}

LedgerTypeOK ==
  /\ spent \in Nat
  /\ sessionSpent \in [Sessions -> Nat]
  /\ sessionRows \subseteq Sessions
  /\ sessionConsumed \in [Sessions -> Nat]
  /\ issued \subseteq Keys
  /\ revoked \subseteq Keys
  /\ issued \cap revoked = {}
  /\ keyConsumed \in [Keys -> Nat]
  /\ keyState \in [Keys -> Zones]
  /\ orgRows \subseteq Orgs
  /\ orgsDeleted \subseteq Orgs
  /\ orgConsumed \in [Orgs -> Nat]

\* InitLedger creates the tables empty; the keys and organizations an
\* operator adds before the first request are part of the initial state.
LedgerInit ==
  /\ spent = 0
  /\ sessionSpent = [s \in Sessions |-> 0]
  /\ sessionRows = {}
  /\ sessionConsumed = [s \in Sessions |-> 0]
  /\ issued \in SUBSET Keys
  /\ revoked = {}
  /\ keyConsumed = [k \in Keys |-> 0]
  /\ keyState = [k \in Keys |-> "GREEN"]
  /\ orgRows \in SUBSET Orgs
  /\ orgsDeleted = {}
  /\ orgConsumed = [o \in Orgs |-> 0]

----------------------------------------------------------------------------
(* What a transaction of client c is booked under.                         *)

Books(c) == IF c \in Keys THEN {KeyName[c]}
            ELSE IF c \in Sessions THEN {c} ELSE {}

Statements == {"session", "vkey", "org"}

\* The sets of follow-up UPDATEs that can have run when the process dies
\* between two statements of RecordTransaction.
StatementPrefixes == {{}, {"session"}, {"session", "vkey"}}

(***************************************************************************)
(* RecordTransaction once its INSERT has succeeded.  done is the set of    *)
(* UPDATE statements that took effect: the error of each one is            *)
(* overwritten by the next, so any subset is possible when statements      *)
(* fail.  An UPDATE whose row is missing matches nothing.                  *)
(***************************************************************************)
RecordTransaction(c, cost, done) ==
  /\ spent' = spent + cost
  /\ sessionSpent' =
       [s \in Sessions |-> sessionSpent[s] + IF s \in Books(c) THEN cost ELSE 0]
  /\ sessionConsumed' =
       [s \in Sessions |->
          sessionConsumed[s] +
            IF "session" \in done /\ s \in Books(c) \cap sessionRows
              THEN cost ELSE 0]
  /\ keyConsumed' =
       [k \in Keys |->
          keyConsumed[k] +
            IF "vkey" \in done /\ k = c /\ k \in issued THEN cost ELSE 0]
  /\ orgConsumed' =
       [o \in Orgs |->
          orgConsumed[o] +
            IF "org" \in done /\ c \in issued /\ o \in orgRows /\ KeyOrg[c] = o
              THEN cost ELSE 0]
  /\ UNCHANGED <<sessionRows, issued, revoked, keyState, orgRows, orgsDeleted>>

\* EnsureSession: INSERT OR IGNORE, so an existing row keeps what it consumed.
EnsureSession(s) ==
  /\ sessionRows' = sessionRows \cup {s}
  /\ UNCHANGED <<spendVars, sessionConsumed, keyVars, orgVars>>

\* UpdateVirtualKeyZone: no row, no effect.
UpdateVirtualKeyZone(k, zone) ==
  /\ keyState' = IF k \in issued THEN [keyState EXCEPT ![k] = zone] ELSE keyState
  /\ UNCHANGED <<spendVars, sessionVars, issued, revoked, keyConsumed, orgVars>>

(***************************************************************************)
(* Reset deletes the transactions and then, ignoring an error, the session *)
(* rows (a missing row counts as nothing consumed).  What keys and         *)
(* organizations have consumed is left alone.                              *)
(***************************************************************************)
Reset(sessionsToo) ==
  /\ spent' = 0
  /\ sessionSpent' = [s \in Sessions |-> 0]
  /\ sessionRows' = IF sessionsToo THEN {} ELSE sessionRows
  /\ sessionConsumed' =
       IF sessionsToo THEN [s \in Sessions |-> 0] ELSE sessionConsumed
  /\ UNCHANGED <<keyVars, orgVars>>

\* RegisterVirtualKey: a fresh row that has consumed nothing.
RegisterVirtualKey(k) ==
  /\ k \notin issued \cup revoked
  /\ issued' = issued \cup {k}
  /\ UNCHANGED <<spendVars, sessionVars, revoked, keyConsumed, keyState, orgVars>>

\* Mutant: the revocation is noted but the row stays.
RevokeLeavesRow(name) ==
  LET gone == {k \in issued : KeyName[k] = name}
  IN  /\ gone # {}
      /\ revoked' = revoked \cup gone
      /\ UNCHANGED <<spendVars, sessionVars, issued, keyConsumed, keyState, orgVars>>

\* RevokeVirtualKey deletes every row with that name.
RevokeVirtualKey(name) ==
  LET gone == {k \in issued : KeyName[k] = name}
  IN  /\ gone # {}
      /\ issued' = issued \ gone
      /\ revoked' = revoked \cup gone
      /\ UNCHANGED <<spendVars, sessionVars, keyConsumed, keyState, orgVars>>

CreateOrganization(o) ==
  /\ o \notin orgRows \cup orgsDeleted
  /\ orgRows' = orgRows \cup {o}
  /\ UNCHANGED <<spendVars, sessionVars, keyVars, orgsDeleted, orgConsumed>>

\* DeleteOrganization leaves the org_id of its keys dangling.
DeleteOrganization(o) ==
  /\ o \in orgRows
  /\ orgRows' = orgRows \ {o}
  /\ orgsDeleted' = orgsDeleted \cup {o}
  /\ UNCHANGED <<spendVars, sessionVars, keyVars, orgConsumed>>
=============================================================================
