------------------------------ MODULE QuotaPool ------------------------------
(***************************************************************************)
(* The pool of donated keys (internal/pool/drr.go over the table           *)
(* token_pool_nodes of internal/budget/ledger.go): the rows, their quotas, *)
(* and the operations a request performs to draw a key.  A request reads   *)
(* the rows of its provider first and takes the lock of the engine after,  *)
(* so what it scans under the lock is a snapshot that may be stale.        *)
(* Dispatch composes these operations with the loop that uses them.        *)
(***************************************************************************)
EXTENDS Integers, Sequences, FiniteSets, SequencesExt

CONSTANTS
  Slots,           \* requests that can be in flight at the same time
  Providers,
  Nodes,           \* rows of the pool, now or later (a new row has a new uuid)
  Home,            \* Home[n]: provider_type
  Grant,           \* Grant[n]: the quota a row is donated with
  Premium,         \* rows with measured_tpm_limit above 10M
  MasterKeys,      \* values of TKNGATE_MASTER_KEY
  FirstMaster,     \* the one in use at boot, which sealed the first rows
  FirstRows,       \* FirstRows[p]: the rows found at boot, oldest first
  Users,           \* session names and peer ids with a reputation
  NoUser,          \* the empty session name
  FreeRiderLimit,  \* mesh.free_rider_limit
  MaxEst,          \* the most tokens any request says it needs
  None

ASSUME PoolAssumption ==
  /\ IsFiniteSet(Slots) /\ None \notin Slots
  /\ Home \in [Nodes -> Providers]
  /\ Grant \in [Nodes -> Nat]
  /\ Premium \subseteq Nodes
  /\ FirstMaster \in MasterKeys
  /\ FirstRows \in [Providers -> Seq(Nodes)]
  /\ \A p \in Providers :
       IsInjective(FirstRows[p]) /\ \A n \in ToSet(FirstRows[p]) : Home[n] = p
  /\ NoUser \notin Users
  /\ FreeRiderLimit \in Nat /\ MaxEst \in Nat \ {0}

VARIABLES
  rows,      \* rows[p]: token_pool_nodes of provider p, oldest first
  quota,     \* quota[n]: remaining_tokens_quota
  index,     \* index[p]: currentIndex
  usage,     \* usage[u]: sessionUsage
  holder,    \* the slot that holds the lock of the engine
  scan,      \* scan[r]: what slot r read and how far it got
  master,    \* the master key of this process
  sealed,    \* sealed[n]: the master key row n was encrypted with
  standing,  \* standing[u]: what the reputation engine says of u
  drawn,     \* history: tokens handed out against row n
  repaid,    \* history: what negative estimates added to its quota
  lost,      \* history: decrements of row n that failed
  taken,     \* history: tokens session u drew since the engine started
  returned,  \* history: what its negative estimates took off its usage
  missed     \* history: draws that took another row since n was last drawn
             \* or the index last moved along an older list

poolVars == <<rows, quota, index, usage, holder, scan, master,
              sealed, standing, drawn, repaid, lost, taken, returned, missed>>
cryptoVars == <<master, sealed>>
sessionVars == <<usage, taken, returned>>
bookVars == <<quota, sessionVars, drawn, repaid, lost, missed>>

Standings == {"barred", "member", "premium"}
NoScan == [rows |-> <<>>, live |-> {}, at |-> 0, left |-> 0]

PoolTypeOK ==
  /\ rows \in [Providers -> Seq(Nodes)]
  /\ \A n \in Nodes : quota[n] > -MaxEst
  /\ \A p \in Providers : index[p] \in Nat
  /\ usage \in [Users -> Int]
  /\ holder \in Slots \cup {None}
  /\ master \in MasterKeys /\ sealed \in [Nodes -> MasterKeys]
  /\ standing \in [Users -> Standings]
  /\ \A r \in Slots : scan[r].left > 0 => scan[r].at < Len(scan[r].rows)

PoolInit ==
  /\ rows = FirstRows
  /\ quota = Grant
  /\ index = [p \in Providers |-> 0]
  /\ usage = [u \in Users |-> 0]
  /\ holder = None
  /\ scan = [r \in Slots |-> NoScan]
  /\ master = FirstMaster /\ sealed = [n \in Nodes |-> FirstMaster]
  /\ standing = [u \in Users |-> "member"]
  /\ drawn = [n \in Nodes |-> 0] /\ repaid = drawn /\ lost = drawn
  /\ taken = usage /\ returned = usage
  /\ missed = [n \in Nodes |-> 0]

----------------------------------------------------------------------------
(* Drawing a key: GetNextKey.                                              *)

\* The rows of provider p as r finds them, before it asks for the lock.  The
\* query has no ORDER BY: SQLite scans the table by rowid, oldest row first.
Snapshot(r, p) ==
  scan' = [scan EXCEPT ![r] =
             [rows |-> rows[p], live |-> {n \in ToSet(rows[p]) : quota[n] > 0},
              at |-> 0, left |-> Len(rows[p])]]

\* Mutant: the lock is not waited for.
BargeIn(r) == holder' = r
Acquire(r) == holder = None /\ holder' = r

Release(r) == holder' = None /\ scan' = [scan EXCEPT ![r] = NoScan]

\* What the engine refuses before it looks at a row.
Refused(u) == u # NoUser /\ (usage[u] > FreeRiderLimit \/ standing[u] = "barred")

\* Mutant: it starts at the index whatever the length.
StartAtIndex(r, p) == scan' = [scan EXCEPT ![r].at = index[p]]

\* The scan starts at the index, or at 0 when the list has become shorter.
StartAt(r, p) ==
  scan' = [scan EXCEPT ![r].at =
             IF index[p] >= Len(scan[r].rows) THEN 0 ELSE index[p]]

Row(r) == scan[r].rows[scan[r].at + 1]
NextAt(r) == (scan[r].at + 1) % Len(scan[r].rows)

\* Mutant: the index stays on the row that was drawn.
StayAt(r, p) == index' = [index EXCEPT ![p] = scan[r].at]
Advance(r, p) == index' = [index EXCEPT ![p] = NextAt(r)]

\* Mutant: nobody is kept off the premium keys.
NotGated(n, u) == TRUE
Admits(n, u) == n \in Premium /\ u # NoUser => standing[u] = "premium"

\* Decrypt succeeds with the key that encrypted, and with no other.
Decrypts(n) == sealed[n] = master

Usable(r, u) ==
  /\ Row(r) \in scan[r].live
  /\ Decrypts(Row(r))
  /\ Admits(Row(r), u)

Forget(p) == missed' = [m \in Nodes |-> IF Home[m] = p THEN 0 ELSE missed[m]]

PassOver(r, p) ==
  /\ Advance(r, p)
  /\ scan' = [scan EXCEPT ![r].at = NextAt(r), ![r].left = @ - 1]
  /\ IF scan[r].rows = rows[p] THEN UNCHANGED missed ELSE Forget(p)

\* Mutant: the quota is only charged to sessions with a name.
ChargeNamed(n, u, e) ==
  quota' = IF u # NoUser THEN [quota EXCEPT ![n] = @ - e] ELSE quota

\* The update touches the row only while something remains of its quota.
Charge(n, u, e) ==
  quota' = IF quota[n] > 0 /\ n \in ToSet(rows[Home[n]])
             THEN [quota EXCEPT ![n] = @ - e] ELSE quota

\* Rows another request of the same list could have drawn instead.
Waiting(r, n, m) ==
  m # n /\ m \in scan[r].live \ Premium /\ Decrypts(m) /\ quota[m] > 0

\* Only draws that scanned the list as it is are counted.
CountMissed(r, p, n) ==
  missed' = [m \in Nodes |->
               IF Home[m] # p THEN missed[m]
               ELSE IF m = n \/ scan[r].rows # rows[p] THEN 0
               ELSE IF Waiting(r, n, m) THEN missed[m] + 1 ELSE missed[m]]

Plus(n) == IF n > 0 THEN n ELSE 0

\* r draws the row it is at for e tokens; the decrement may fail unnoticed.
\* Nobody looks at the sign or the size of e.
Draw(r, p, u, e, failed) ==
  LET n == Row(r) IN
  /\ Advance(r, p)
  /\ IF failed
       THEN lost' = [lost EXCEPT ![n] = @ + 1] /\ UNCHANGED <<quota, repaid>>
       ELSE /\ Charge(n, u, e)
            /\ repaid' = [repaid EXCEPT ![n] = @ + Plus(quota'[n] - quota[n])]
            /\ UNCHANGED lost
  /\ IF u = NoUser THEN UNCHANGED sessionVars
     ELSE /\ usage' = [usage EXCEPT ![u] = @ + e]
          /\ taken' = [taken EXCEPT ![u] = @ + Plus(e)]
          /\ returned' = [returned EXCEPT ![u] = @ + Plus(-e)]
  /\ drawn' = [drawn EXCEPT ![n] = @ + Plus(e)]
  /\ CountMissed(r, p, n)
  /\ Release(r)

----------------------------------------------------------------------------
(* The operator and the environment.                                       *)

InPool(n) == n \in ToSet(rows[Home[n]])

\* A row with a new id, at the end of the list.
AddPoolNode(n, key) ==
  /\ ~InPool(n) /\ drawn[n] = 0 /\ repaid[n] = 0
  /\ rows' = [rows EXCEPT ![Home[n]] = Append(@, n)]
  /\ sealed' = [sealed EXCEPT ![n] = key]
  /\ Forget(Home[n])
  /\ UNCHANGED <<quota, index, sessionVars, holder, scan, master, standing, drawn,
                 repaid, lost>>

\* The dashboard seals with the master key of the process that serves; tkngate
\* pool donate is a process of its own and seals with the one it finds.
HandlePoolDonate(n) == AddPoolNode(n, master)
DonateCmd(n) == \E key \in MasterKeys : AddPoolNode(n, key)

RemovePoolNode(n) ==
  \E i \in DOMAIN rows[Home[n]] :
    rows[Home[n]][i] = n /\ rows' = [rows EXCEPT ![Home[n]] = RemoveAt(@, i)]

\* DELETE /api/pool.
Revoke(n) ==
  /\ InPool(n)
  /\ RemovePoolNode(n)
  /\ Forget(Home[n])
  /\ UNCHANGED <<quota, index, sessionVars, holder, scan, cryptoVars, standing,
                 drawn, repaid, lost>>

\* The reputation engine changes its mind about u at any time.
Rerate(u) ==
  /\ \E s \in Standings \ {standing[u]} : standing' = [standing EXCEPT ![u] = s]
  /\ UNCHANGED <<rows, index, holder, scan, cryptoVars, bookVars>>

\* The table survives a restart, the engine does not; the new process may
\* have been given another master key.
PoolRestart ==
  /\ index' = [p \in Providers |-> 0]
  /\ usage' = [u \in Users |-> 0] /\ taken' = usage' /\ returned' = usage'
  /\ holder' = None
  /\ scan' = [r \in Slots |-> NoScan]
  /\ master' \in MasterKeys
  /\ missed' = [n \in Nodes |-> 0]
  /\ UNCHANGED <<rows, quota, sealed, standing, drawn, repaid, lost>>

----------------------------------------------------------------------------
(* Properties.                                                             *)

\* A donated key serves less than its quota, what peers with negative
\* estimates put back on it, and one estimate for every request that can hold
\* an old snapshot and for every decrement that failed (drr.go:74 reads the
\* rows outside of the lock; ledger.go:286 ignores the result): requests that
\* saw the last tokens cannot spend them over and over.  The code bounds no
\* estimate (protocol.go:137): MaxEst is the largest one that is stated.
QuotaBound ==
  \A n \in Nodes : drawn[n] > 0 =>
    drawn[n] < Grant[n] + repaid[n] + MaxEst * (Cardinality(Slots) + lost[n])

\* A session draws at most one estimate beyond the free-rider limit and what
\* its own negative estimates took off its usage, however many of its requests
\* run at once (drr.go:82, :137): the check and the booking of a request are
\* not separated by those of another.
FreeRiderBound ==
  \A u \in Users : taken[u] <= FreeRiderLimit + returned[u] + MaxEst

\* A key with quota left is not passed over more often than there are other
\* keys in the list, whichever sessions ask (drr.go:99-107), as long as the
\* list does not change and no request still scans an older one: its last
\* steps put the index where they find it, and the keys before that place
\* have another turn.  Premium keys are left out: an ordinary session passes
\* over them on purpose.
RotationFair ==
  \A p \in Providers : \A n \in ToSet(rows[p]) : missed[n] < Len(rows[p])
=============================================================================
