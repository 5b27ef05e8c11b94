# TknGate, modelled in TLA+

TknGate is a sidecar proxy between AI agents and LLM providers. It holds the real API keys, hands out virtual
keys, counts what every request costs, blocks clients whose budget is used up, and can share quota with other
proxies in a mesh. This directory holds TLA+ modules of the parts in which order, failure and concurrency
matter, the TLC configurations that check them on small instances, and TLAPS proofs of the results that matter
most for instances of any size.

Paths below are relative to the repository root; "ledger.go:121" is a line of `internal/budget/ledger.go`, and
so on. `PROJECT.json` maps every definition to the lines it stands for.

## 1. Inventory

| part (package) | state it keeps | operations | what makes it correct |
|---|---|---|---|
| **budget ledger** (`budget/ledger.go`) | SQLite tables: transactions, sessions, virtual keys, organizations, pool nodes, under one `sync.RWMutex`; counters in Redis in cluster mode | record, reset, register / revoke keys, create / delete organizations, sums, pool rows, reports | no account is charged more than its transactions; a spend is booked once; a reset means what it says |
| **budget guard** (`budget/guard.go`) | `lastGlobalZone`; `current_state` of a key in the ledger | `CheckBudget`, `CheckSessionBudget`, `CheckVirtualKeyBudget` | nobody is let through at or above the RED line; whoever is blocked was announced |
| **proxy pipeline** (`proxy/middleware.go`, `streaming.go`) | what each goroutine holds between its steps | `RoundTrip`, the stream interceptor | every admitted request is booked at most once per item; every checked request is answered |
| **retry, failover, shadow** (`proxy/middleware.go` 322-468, 632-735) | provider, attempt, body of a request | retry loop, provider failover, peer offload, shadow copy | the loop ends, with an answer; a key goes to its own provider only |
| **reputation engine** (`mesh/reputation.go`) | score, tier, ban per subject, in memory and in a table | register, success, slash, boost, decay, load | a ban lasts; tier and score agree; a restart that reads the table changes nothing; one offence costs one penalty |
| **fraud proofs, moderation** (`mesh/fraud.go`, `moderation.go`) | a table that is only written | submit a proof, call the moderation API | a conviction slashes once |
| **mesh gossip** (`p2p/gossip.go`) | topics, subscriptions | broadcast, handle updates and alerts | an update has a bounded effect, and an end |
| **p2p transport** (`p2p/protocol.go`, `host.go`, ...) | open streams, identity | ping, route, offload | a barred peer is not served; every prompt is answered or given up |
| **quota pool** (`pool/drr.go`) | round-robin index and usage per session; pool rows in the ledger | `GetNextKey`, `VerifyAndRoute` | every usable key gets its turn; quotas and the free-rider limit hold up to the requests in flight; banned sessions get nothing |
| **semantic cache** (`cache/semantic.go`, `redis.go`) | map and insertion order, expiry | get, put, evict, clear | never an expired or foreign answer; map and order agree at the capacity |
| **rate limiter** (`limiter/limiter.go`) | token buckets per client | allow, cleanup, reset | what evictions let through in excess is bounded; nobody is refused by them |
| **cluster mode** (`cluster/leader.go`, Redis counters) | a lease in Redis | elect, shared spend | who leads holds the lease, unless its call is late; an outage of Redis costs a bounded overspend |
| **telemetry** (`telemetry/audit.go`, `diff_stream.go`) | audit buffer, list of dashboard clients | emit, flush, broadcast | a record is in one place and shipped at most once; a slow viewer costs the others nothing |
| **configuration** (`config/config.go`) | the global `Cfg`, what viper read, the file | load, save, validate, hot reload | what is active is what the file says, or the environment over it; a redacted key is never stored |
| **dashboard API, command line** (`api/`, `cmd/`) | none of their own | operate everything above | |
| **AI-WAF, pricing, compression, canonical payloads** (`waf/`, `tokenizer/`, `compressor/`) | none | text in, text or number out | equal inputs give equal cache keys; nothing that matters is lost |
| **cloud client, crypto, ZKP, SDKs, alert senders** | none that is shared | network calls and cryptography | outside what a model checker can say |

How they interact: one goroutine per request runs `RoundTrip`. It calls the guard, the ledger, the limiter,
the WAF, the cache, the pool and the upstream in turn, each with a lock of its own, and no lock is held from
one call to the next. The operator acts on the same ledger through the dashboard at any moment, and the
configuration can be reloaded under all of them. The reputation engine is called by the pipeline and the pool,
publishes each change through a callback (`OnReputationChange`, serve.go:137) to the gossip, and is called
back by the gossip of other processes.

What is hard: everything a request has read may be stale when it uses it; a booking is several SQL statements
without a transaction; the input of a stream is booked by a goroutine that outlives its request; failed reads
let requests through; alerts depend on memory that a crash loses and a reset does not touch, and leave after
the lock is released; gossip loops; calls to peers and to Redis have no deadline of their own. `PROJECT.json`
lists these hazards at their lines.

## 2. Modules

| module | models | extends / instantiates |
|---|---|---|
| `Ledger` | the tables and operations of ledger.go in local mode | |
| `SpendMeter` | abstract: what a budget breaker promises | |
| `BudgetGate` | `RoundTrip`, the guards, the stream interceptor, the operator, crashes | `Ledger`; `SpendMeter` once for the global budget and once per key |
| `MeshReputation` | reputation.go on several processes, with gossip | |
| `QuotaPool` | the donated keys: drr.go over the pool rows of ledger.go | |
| `Dispatch` | the attempts of a request: pool, peers, retry, failover; prompts of peers | `QuotaPool` |
| `ResponseCache` | both cache backends, and the canonical form a request is keyed by | |
| `RateLimiter` | limiter.go for one identifier | |
| `AuditTrail` | audit.go: buffer, flushes, dashboard ring | |
| `DiffStream` | the mirrored request, diff_stream.go and its viewers | |
| `ConfigStore` | config.go with its watcher, GET and PUT of the dashboard, the rules of the WAF | |
| `Cluster` | the leader lease and the spend shared through Redis | |
| `MCBudgetGate`, `MCMeshReputation`, `MCDispatch` | small instances | each its component |
| `MCParts` | small instance of the parts that share no state | the six modules before, and `SpendMeter` |
| `SpendMeterProofs`, `MeshReputationProofs`, `DispatchProofs`, `RateLimiterProofs`, `ClusterProofs` | proofs | each its component |
| `BudgetGateProofs`, `BudgetAccountProofs` | the gate and the global budget; the budgets of keys, sessions and organizations, and the alerts | `BudgetGate`; the second the first |
| `PartsProofs` | the cache, the audit trail, the live view, the configuration, and the types of all parts | `MCParts` and the proofs of the limiter and the cluster |

### Ledger and BudgetGate

Every method of `Ledger` holds `l.mu`, so an operation of `Ledger` is one step. What can tear is the inside of
`RecordTransaction`: INSERT, then three UPDATEs, each overwriting the `err` of the one before
(ledger.go:145-155). Its operator takes the set `done` of UPDATEs that had an effect: all of them, any subset
when statements fail (`BookTorn`), a prefix when the process dies (`CrashInBook`).

A *slot* of `BudgetGate` is a goroutine serving one request after another. `pc` names the place where it gave
up its last lock:

| phase | code | what was read or done |
|---|---|---|
| `guard` | guard.go:20-44 | the spend was summed, the zone computed; `globalZoneMu` not yet taken |
| `alert` | guard.go:48-58 | the new zone is in `lastGlobalZone` and the lock released; the alert is still to be sent, and a RED request to be blocked |
| `auth` | middleware.go:59-175 | the global check passed |
| `org` | 130-144 | the key's row was read; the organization is a second query |
| `key` | 161-165 | before `CheckVirtualKeyBudget` reads the rows a second time |
| `keyzone` | guard.go:157-158 | the zone shifted and is not yet stored |
| `keyalert` | guard.go:159-165 | the zone is stored and the ledger's lock released; the alert is still to be sent |
| `session` | 173-188 | the legacy session row exists |
| `forward` | 190-472 | every check passed; rate limit, WAF, cache and upstream |
| `bill` | 570-599, streaming.go:69-98 | an answer whose cost is known and not booked |
| `stream`, `streamzone`, `streamalert` | streaming.go:59-148 | between two data lines; the same two steps of a shifted zone |

Storing a zone and announcing it are two steps, so another request can read RED as already announced and be
blocked while the alert is on its way. `GlobalTripAnnounced` and `KeyTripAnnounced` therefore say what the
code gives: a request is blocked only if the RED alert is out, or another one that stored the zone is past the
unlock and about to send it (`GlobalAlertDue`, `KeyAlertDue`). A block may come before the alert, but never
without one.

`inputDue` holds the slots whose stream goroutine (middleware.go:482) has not booked the input; it may do so
before, during or after the stream. `cred` is who a request speaks for, `zone` the zone it last read, `bill`
what it will book. `lastGlobalZone` is the package variable of guard.go. History variables: `dispatched`
(alerts), `waived` (checks that failed and let a request through), `faults` and `ops` (bounds).

Abstractions: money is a natural number of units, a cost lies in `0..MaxCost`; the percentages of the guard
are turned into the whole number of units at which they are reached (`Threshold`). The first reads of the
session check in a stream (ensure the row, sum the spend) are one step, as nothing between them can change
what the second sees except a booking, which may as well come before both. Rate limit, WAF, moderation,
compression, cache and network errors are one way for a request to end unbilled (`EndUnbilled`). A key
rejected for its provider or an unreadable table is `AuthRejects`.

### SpendMeter: what a breaker promises

Three lines carry the idea: a request is admitted below the line, holds two open items (input, output), and
each books at most once and at most `MaxCost`. A check that failed is a `Waive`. The breaker is then not a
limit but a bound on the excess: `meter < Line + 2 * MaxCost * (slots + waived)`. Two items per request,
because a slot may be reused while the goroutine of its previous stream still runs - but not admitted again
until it has booked, as `Arrive` shows.

`BudgetGate` implements it with `meter <- spent`, `open <- GlobalOpen` (what the phases of the slots and
`inputDue` say is still to be booked), `waived <- waived[Global]`. That is `GlobalBreaker`, checked and
proved; `KeyBreaker` is the same for the budget of one key.

### MeshReputation

An account `<<p, s>>` is what process `p` thinks of subject `s`. `score`, `tier`, `banned` are the map in
memory, `savedScore`, `savedBan` and `rows` the table, which every operation updates under the same lock and
whose errors are ignored (`Save`; only `Slash` writes the ban). `wire` holds published updates not yet
delivered; delivery may fail, come late (older than 300 s) or through a relay (reporter differs from sender,
gossip.go:107), which all are `Discard`. `MaxMsgs` bounds the updates under way at a time, not over a run:
boosts recur for ever. A goroutine that publishes is merged with the operation that starts it: its message may
be delivered arbitrarily later or lost, which covers every place the goroutine could run at.

`Restart` loads the table as reputation.go:77-101 does: a row that cannot be scanned, and every row after an
error of the iteration, is left out. Its account is unknown then, and registered anew as NEW at the initial
score, whatever ban its row holds. So a restart does lift a ban when it does not read the row, or reads one
that a failed statement left behind; `NoPardon` says that nothing else does, and `torn` remembers the accounts
for which one of the two has happened. (When the query itself fails, `rows` is nil and `rows.Err()` panics:
that process does not come up.) docs/drr-mesh.md:31 cuts banned nodes off "until they rebuild their
reputation"; the engine has no operation by which a banned account could. `Boost` refreshes no activity, so an
account that others boost again and again does not decay however idle it is: `IdleDecays` speaks of the
others.

The pipeline only ever slashes, records successes and asks for tiers: it never calls `GetOrCreate`.
`ProxySpec` is the program, `Spec` the engine as its own tests use it, with registration at any time. The
properties that hold are checked and proved for `Spec`, which allows more; the one that fails is shown with
`ProxySpec` and rows that exist already, as those the demo command seeds (cmd/demo.go:35).

### QuotaPool and Dispatch

`GetNextKey` reads the rows of its provider from the ledger, and takes the lock of the engine afterwards
(drr.go:74-80). `scan[r]` is that snapshot: the rows, which of them had quota (`live`), where the scan is and
how many rows are left. `ReadRows`, `Gate` (lock, session check, start of the scan), one `Skip` per row that
cannot be used, then `TakeKey` or `Exhausted`. Between any two of them other requests, donations, revocations,
re-ratings and restarts may come. `sealed` and `master` stand for encryption: a row decrypts under the master
key it was sealed with and no other, and a restart, or a `tkngate pool donate` in another shell, may have been
given another one. The history variables `drawn`, `lost` and `missed` count what a row served, its decrements
that failed, and how often it was passed over while the list stayed as it is: `PassOver` forgets the count
when the request that passes over scans an older list, for it puts the index back (see section 4). The list
has the order of the rows' rowid, in which SQLite scans a table that is queried without ORDER BY; a failed
query (drr.go:75) is a list without rows (`ReadFails`).

The estimate of a peer goes into the pool as the peer states it (protocol.go:137), so in the model it is any
integer up to `MaxEst`, the largest that is stated at all: zero and negative ones are inputs like others. A
negative estimate raises the quota of the row and lowers the usage of the session. `repaid` counts what a
quota regained that way, `taken` and `returned` what a session was charged and given back; the bounds on quota
and free-riding are stated with them, for no bound without them is true of the code. That 64-bit sums wrap is
not modelled.

`Dispatch` adds what surrounds it in `RoundTrip` (middleware.go:322-472): `read`, `gate`, `scan`, then `send`,
or `offload` and `peers` when no key is found (protocol.go:307-452). Of a request it keeps the attempt, the
provider, the one it was first meant for, and whose credential is in each of the four headers that carry one:
Authorization, its copy X-Tkngate-Original-Auth, x-api-key and x-goog-api-key (director.go:94-106). The client
may have sent any of them itself (`carries`); the Director replaces only the one of the provider, and what was
set for one attempt is still there in the next. At a failover to anthropic the Authorization header goes
(middleware.go:424-434); every other header, and every header at a failover to another provider, stays:
`Survives`. `CredentialMatches` says that this is the only way in which a request carries a key of the proxy
that is not its provider's. `Fallback` is taken to be one of the five names the router knows an address for.

A slot also serves the prompts of peers (`remote`): these have one attempt, and end in `serve`. Network errors
of the upstream are not retried; 429 is, and an outage fails over if a chat body can be translated.
`PingPeers` waits for every ping, and a ping has a deadline for opening its stream but none for the answer
(protocol.go:245-271, :365): a silent peer holds the request in `offload` for ever, and `EndsOrHangs` says so.

### ResponseCache

One step per lock: lookup, deletion of an expired entry, hit, the answer with its store, the clear. The Redis
clear is a scan (redis.go:119) whose pages are swept one key at a time while others read and write. A body is
`[model, messages, tools, form, extra]`; the key is computed as the code does, by scrubbing ids and sorting
the tools by name. The sort is stable, and a tool without `function.name` (those of anthropic, the built-in
ones) has the name "" (0 in the model), so that such tools, and those that share a name, stay in the order the
client sent them: `Place` is where a tool ends up. `SameQuestion` says independently what a client may rely
on. README.md:213 promises hits "regardless of tool ordering"; `SameQuestionHits` says it of lists in which
every tool has a name of its own; in the others the client's order shows through. The store is the map and its
insertion order in one: `Deleted` takes the one entry of a key out. Expiry takes the oldest entry first, since
all share one time to live. The DEL of a swept key may fail, which nobody looks at (redis.go:129): `spared`
remembers the keys, and `ClearForgets` excepts them.

### RateLimiter

`Allow` finds a bucket under the read lock, touches it, or creates one under the write lock, and takes a token
after the lock is released. A request may thus hold a bucket that the cleanup has evicted. `ideal` is the
content of a bucket that is never evicted; it may go below zero, and by how much is what evictions gave away.
Rate and burst are any positive numbers, as the configuration allows (config.go:127-131): a bucket may be
evicted long before it is full again, and the next request gets a full one. `Shortfall` is what such an
eviction gives away at most, `evictions` counts them, and `RateBound` allows one token for each request in
`Allow` and one shortfall per eviction. It is 0 where the rate fills an overdrawn bucket within the idle
limit.

### AuditTrail and DiffStream

Records and events are numbers. `enabled` and `sink` are what the configuration says now, and a reload changes
them at any time (`AuditReload`); `ticker` is whether InitAuditShipper started one, which is settled when the
process starts (audit.go:44). `batches` are flushes between taking the buffer and the answer of the sink,
whether the ticker or a record started them; the sink is looked up after the buffer is taken. A rejected batch
is dropped, a restart loses what is buffered or on its way. A daemon that started with auditing off and had it
switched on later has no ticker: below 500 records its buffer is never flushed, and `AuditDrains` claims
nothing of it. In `DiffStream` a broadcast puts an event into every queue that has room; `stalled` remembers
whose had none.

### ConfigStore

`cfg` is the global pointer, `viper` what viper read last, `files` the two places a configuration is looked
for (`$HOME/.tkngate`, a third, is left out). `env` holds the TKNGATE_ variables, which win over the file
(config.go:161-163) for names the file has; of a name it does not have viper looks nothing up, so `Settings`
ignores the variable, although the comment at config.go:169 expects the environment to do without a file. A
PUT goes through its steps (`marshal`, `truncate`, `write`): os.WriteFile truncates before it writes. The
watcher reads and unmarshals in two steps and may be told again in between. An edit may leave a file that is
no YAML (`Broken`): viper keeps what it read before and still calls OnConfigChange. Or one in which a number
is none (`Mistyped`): Unmarshal fails, `validateConfig` is not called (config.go:180), and the fields it has
decoded by then are set all the same (`PartlyDecoded`). A process that finds such a file at its start ends. A
configuration keeps one key, one version of the blocklist and one number with a default, which is what the
properties tell apart.

### Cluster

Time is in ticks, and a tick never passes over something due. An attempt of a node sends a script that sets a
free lease or extends its own (leader.go:52-88); it may fail to arrive, or run and its answer be lost or late.
No length of a call is assumed: leader.go:53 passes `context.Background()`, and the client's own timeouts and
retries can exceed the lease. `Prompt` only says which calls count as on time; any other may stay on its way
as long as it will (`IsLate`) and be sent again by the client (`SentAgain`), so that Redis runs the script
twice. Two nodes can then lead at once, where docs/drr-mesh.md:45 promises a strict leader election.
`LeaderHoldsLease` says when: a node that says it leads holds the lease, unless what it was last granted was
asked for as long ago as a lease lasts.

`Status` is what the dashboard shows. A request reads the shared spend, or the local one if Redis fails, and
adds its cost to both when it is answered. Each of the two can fail: the increment is ignored, and the INSERT
that follows it takes nothing back (ledger.go:125-143). `spent` is what was really spent, `unbooked` what of
it is not in a node's table, `missed` what Redis or a table did not get.

### MCParts

The six modules and the abstract breaker share no state, so one run checks them all: `Init` chooses `part`,
and only that part steps. The election and the spend of the cluster share only the restarts, and are two
parts. Variables of the other parts keep a single initial value.

## 3. Runs

Passing:

| run | instance | checks |
|---|---|---|
| `gate_key` | 2 slots, 1 key (budget 1) in 1 organization, global limit 2, 1 fault or crash, 1 operator action, fair | `TypeOK`, `GlobalOverspendBound`, `BooksNeverAhead`; `KeyBreaker` and `GlobalBreaker` (refinements); `Decides` |
| `gate_clients` | 2 slots, 2 keys (budget 2) of 1 organization, 1 legacy session, an anonymous client, no faults, one period | `OrgOverspendBound`, `SessionOverspendBound`, `GlobalTripAnnounced`, `KeyTripAnnounced` |
| `reputation` | 2 processes, 1 subject, 2 convictions, 1 update under way at a time, 1 day, 2 faults (failed statements, restarts that may leave rows out), fair | `TypeOK`, `BannedIsUntrusted`, `TableMirrorsMemory`, `NoPardon`, `IdleDecays` |
| `dispatch` | 2 slots, a client of gemini and a peer that states 1 or -1 tokens, 2 keys of gemini (quotas 2 and 1) and a premium one to donate, 1 retry, failover to anthropic, 1 donation, revocation, re-rating, restart, negative estimate, failed read or decrement, fair | `TypeOK`, `QuotaBound`, `FreeRiderBound`, `RotationFair`, `DoneHasAnswer`, `CredentialMatches`, `EndsOrHangs` |
| `parts`, cache | 2 requests, 3 bodies (the same question with other ids and the tools in another order; two tools without a name), 1 entry, 1 clear, both backends | `CapacityBound`, `ClearForgets`, `SameQuestionHits`, `HitAnswersQuestion` |
| `parts`, limiter | 2 requests, burst 4, rate 1, eviction after 5 idle ticks, at most 2 of them | `RateBound`, `NeverStricter` |
| `parts`, audit | ring of 2, threshold 2, 4 records, 2 flushes started, auditing and sink switched on and off by reloads and restarts | `ExactlyOnePlace`, `RingIsRecent`, `FullBufferHasFlush`, `AuditDrains` |
| `parts`, diff | 2 viewers, queues of 1, 3 events | `SeesEvents` |
| `parts`, config | 2 dashboards, 1 key of a seeded provider, 2 edits (some of which break the file) or puts, 1 restart, with or without variables in the environment | `NoPlaceholderKey`, `ActiveFollowsFile` |
| `parts`, election | 2 nodes, lease of 4 ticks, attempts every 2, a call late after 1; 3 late, repeated or failed calls or restarts | `LeaderHoldsLease`, `ClusterKeepsLeader` |
| `parts`, spend | 2 nodes, limit 2, 7 requests, 3 failed reads, increments or INSERTs or restarts | `ClusterOverspend` |
| `parts`, breaker | 3 slots, MaxCost 2, line 3, 2 waived checks | `CreditBound`: the inductive bound of the abstract breaker |
| `parts`, all | | `PartsTypeOK`, the conjunction of their type invariants |

Violations: each states what a comment or a document says of the program, and TLC shows a behaviour of the
code that contradicts it.

| run | statement | what happens |
|---|---|---|
| `gate_parallel` | "prevents parallel overspend" (middleware.go:570) | requests admitted before the first one has booked overspend together |
| `gate_second_period` | alerts when a budget enters RED (CHANGELOG.md:11) | after a reset `lastGlobalZone` still is RED: the next trip is silent |
| `reputation_echo` | an offence costs 25 points (drr-mesh.md:30) | a gossiped slash is announced again by its receiver, until the subject is banned |
| `dispatch_fallback` | "`anthropic` and `openai` as proper smart fallback providers with automatic payload and header translation" (CHANGELOG.md:217) | a failover to openai translates nothing: the request of a deepseek client carries the key of deepseek to openai |
| `cache_collision` | identical prompts hit (semantic.go:70) | prompts without `messages` (embeddings) hash alike whatever their input |
| `waf_reload` | WAF rules are reloaded (CHANGELOG.md:26) | the firewall keeps the blocklist it compiled at boot |
| `config_placeholder` | redacted values are restored (config.go:189) | a stale form stores `[REDACTED]` as the key |

More things the models allow and no run is spent on:

- a stream is not cut at its own budget, for the check at every chunk reads the ledger, which lacks the
  running stream (streaming.go:118-121);
- an AMBER reading that is announced after a RED one undoes `lastGlobalZone` (guard.go:46-48);
- a request past authentication is still forwarded after its key is revoked (middleware.go:163), where
  cli-reference.md:60 says that revoking blocks immediately;
- the headers a failover leaves in place reach the other provider also when that is anthropic: the key of
  gemini in x-goog-api-key, the client's own Authorization in X-Tkngate-Original-Auth;
- the same prompt misses the cache when tools without a name come in another order, and answers from before a
  clear are given when a DEL failed;
- two nodes lead while a call of Redis is late; a banned account is pardoned by a start that does not read its
  row; records stay in the buffer for ever when auditing was switched on after the start.

### Bounds, and why they are enough

- Slots: two requests are needed to act on each other's stale readings. The abstract breaker is checked for
  three, and proved, as is the pool, for any number.
- Limits of 1 to 3 units with `MaxCost = 1` put GREEN, AMBER and RED one or two bookings apart, so each order
  of crossings occurs. `RedPct = 95` of 2 units is reached at 2: the rounding up of `Threshold` is exercised.
  `gate_key` has the percentages of the code, 70 and 95, which fall on the same unit of so small a budget: no
  zone is AMBER there. In `gate_clients` AMBER is at 50 percent, and the budgets of keys, sessions and the
  whole pass through it.
- `MaxFaults` bounds failed statements, failed reads and crashes together, `MaxOps` what the operator does.
  One of each reaches every fault at every point, and each property relates at most one fault to what follows;
  a row that is not read and registered anew, or a late call and a second leader, takes two or three, and
  those runs have them. `gate_clients` has no faults, so what failed reads cost a session or an organization
  is shown by the theorems only (`SessionOverspend`, `OrgOverspend`). The proofs have no such bound.
- `MaxMsgs`, `MaxOffences`, `MaxDays` bound the reputation run: two convictions ban a subject, and an update
  that is received makes room for the one it causes, so that one under way at a time echoes as long as it
  will. A publication beyond the bound is one that failed.
- `dispatch`: a quota of 2 with estimates of 1 is exhausted in two draws, one of 1 in one; an estimate of -1
  puts it back; a list of two rows shrinks to one under an index of one, `FreeRiderLimit = 1` is passed by the
  second of three draws, and one retry separates the last attempt from one that is not.
- `parts`: each capacity (cache, ring, threshold, queue) is reached and passed. In the limiter an overdrawn
  bucket is evicted before it is full again and another is not, so that both sides of `Shortfall` occur, and
  the second eviction of two adds to the first; the election has the proportions of the code, a lease of two
  periods.
- In `gate_clients` the slots are symmetric, and so are the two keys together with their names (`KeySwap`):
  budget and organization are the same. Where a liveness property or a refinement is checked no symmetry is
  used.
- Deadlock is checked but in the runs of `MCParts`, whose parts come to an end at their bounds (`MaxRecords`,
  `MaxEvents`, `MaxChanges`, `MaxWaived`).

### Fairness

- `BudgetGate`: weak fairness of the steps by which a goroutine decides about a request (`Decide`), from the
  guard to `forward`. Those run on a goroutine the Go scheduler serves, and wait only for locks that every
  holder releases. Nothing is asked of clients, of the operator, or of the upstream: the transport has no
  response timeout (proxy.go), so nothing is claimed after `forward`.
- `MeshReputation`: the decay loop of a process, a ticker in a goroutine that never returns
  (reputation.go:116). Messages, requests and restarts are not fair.
- `Dispatch`: a request that holds or needs no lock goes on; `Gate`, the acquisition of the engine's mutex, is
  strongly fair, because sync.Mutex hands itself to a waiter after a millisecond. The calls of a peer and the
  call made for a peer have deadlines; the upstream of a client and the answer to a ping have none, so nothing
  is assumed of `Upstream` and `PingPeers`, and `EndsOrHangs` lets a request stay in `send` or `offload` for
  ever.
- `MCParts`: the audit ticker, where there is one, and the end of a post (it has a timeout); the clock and the
  calls of Redis in `Cluster`, a late one included: late is not lost, for the client gives up in the end.
  Faults are bounded, so that "Redis stays in reach and answers promptly" is true from some point on.

## 4. Proofs

| theorem | statement |
|---|---|
| `SpendMeterProofs!MeterCredit`, `MeterOverspend` | `MeterSpec => []CreditBound`, `[]OverspendBound` |
| `BudgetGateProofs!GateInvariant`, `GateType` | `Spec => []GateInv`, `[]TypeOK` |
| `BudgetGateProofs!GateImplementsBreaker` | `Spec => GlobalBreaker` |
| `BudgetGateProofs!GlobalOverspend` | `Spec => []GlobalOverspendBound` |
| `BudgetGateProofs!BooksBehind` | `Spec => []BooksNeverAhead` |
| `BudgetAccountProofs!KeysImplementBreaker`, `KeyOverspend` | `Spec => KeyBreaker`, `[]KeyOverspendBound` |
| `BudgetAccountProofs!SessionOverspend`, `OrgOverspend` | `Spec => []SessionOverspendBound`, `[]OrgOverspendBound` |
| `BudgetAccountProofs!GlobalTrip` | while the budget is not reset, `Spec` implies `GlobalTripAnnounced`, crashes included |
| `BudgetAccountProofs!KeyTrip` | while no process dies with a RED alert of a key still to be sent (`AlertsSurvive`), `Spec` implies `KeyTripAnnounced` |
| `MeshReputationProofs!RepInvariant`, `MeshType` | `Spec => []RepInv`, `[]TypeOK` |
| `MeshReputationProofs!BannedStaysUntrusted`, `TableMirrors`, `BanIsForGood` | `Spec => []BannedIsUntrusted`, `[]TableMirrorsMemory`, `NoPardon` |
| `DispatchProofs!DispatchType`, `FreeRider`, `LoopAnswers`, `QuotaHolds`, `Rotation` | `Spec => []TypeOK`, `[]FreeRiderBound`, `[]DoneHasAnswer`, `[]QuotaBound`, `[]RotationFair` |
| `DispatchProofs!CredentialsFollow` | `Spec => []CredentialMatches`, for any headers the client sends and any fallback |
| `RateLimiterProofs!LimiterType`, `LimiterNeverStricter`, `LimiterRate` | `LimiterSpec => []LimiterTypeOK`, `[]NeverStricter`, `[]RateBound` |
| `ClusterProofs!OneLeader`, `ClusterBudget` | `ClusterSpec => []LeaderHoldsLease`, `[]ClusterOverspend` |
| `PartsProofs!OnePlace`, `RingRecent`, `FlushIsComing` | `AuditSpec => []ExactlyOnePlace`, `[]RingIsRecent`, `[]FullBufferHasFlush` |
| `PartsProofs!ViewersSee` | `DiffSpec => []SeesEvents` |
| `PartsProofs!FileInForce` | `ConfigSpec => []ActiveFollowsFile` |
| `PartsProofs!NeverPlaceholder` | for a known provider whose keys are not placeholders, `ConfigSpec => []NoPlaceholderKey` |
| `PartsProofs!Capacity`, `Forgets` | `CacheSpec => []CapacityBound`, `[]ClearForgets` |
| `PartsProofs!HitAnswers`, `SameQuestions` | `CacheSpec => []HitAnswersQuestion`, `[]SameQuestionHits` |
| `PartsProofs!PartsTypes` | `MCParts!Spec => []PartsTypeOK` |

So every invariant and every action property of a passing run is a theorem for every value of the constants,
under a hypothesis of its own where the table names one: the two alert properties and the placeholder.

**The breaker.** `OverspendBound` alone is not inductive: with the meter just below the bound, a booking
breaks it. `CreditBound` counts what is still open as if it were booked in full: an admission adds two items
while the meter is below the line, so it needs `2 * MaxCost` of the excess and no other admission can use the
same; a booking moves cost from open to meter. The open items are a subset of `Slots \X Parts`, hence at most
`2 * Cardinality(Slots)`, and that is where the factor comes from.

**The gate.** `GateInv` joins `TypeOK`, `SlotInv` (the phases that act on a key have one, and only an answered
stream owes its input) and `BooksNeverAhead`. The refinement maps every step of the gate to one of the
abstract breaker: `Arrive` below RED admits, at RED it stutters; `ArriveUnchecked` waives; every way to book,
drop, block or crash closes items; a reset erases. The bound on the spend is then the abstract theorem, used
through the instance of its proofs.

**The accounts.** The breaker of a key needs to know whose items are open: by `AuthInv` a request past
authentication speaks for a key that has a row, in force or revoked, so that its bookings reach that row; the
refinement of each key is then that of the gate, with `KeyOpen(k)` for what is open. Sessions and
organizations have no such refinement (the limit of an organization is checked before that of the key, and
rows come and go), so their bounds are proved from one form of credit: amount plus `MaxCost` times the open
items stays below the line plus the excess. `Credit` is kept by a booking, which moves one cost, and by an
admission, which happens below the line. `OrgRowsInv` says that an organization without a row has consumed
nothing, so that one created later starts at zero and one that was deleted is charged nothing more.

**The alerts.** `GlobalAlertInv`: if `lastGlobalZone` is RED, the RED alert of this period was sent, or a
request in `alert` is about to send it. A crash takes that request and `lastGlobalZone` with it; a reset
leaves `lastGlobalZone` alone and breaks the invariant: the theorem says so in its hypothesis, and
`gate_second_period` shows the silent trip. `KeyAlertInv` does the same for `current_state` in the ledger,
which survives a crash: one between storing the zone and sending the alert (guard.go:158) is what the theorem
has to exclude (`AlertsSurvive`). The proof fails exactly there.

**The reputation engine.** `RepInv` adds to the two stated invariants that the rows of the table belong to
accounts in memory, but for those of `torn`: without it `INSERT OR IGNORE` could keep an old row for a subject
registered anew. `NoPardon` follows because a restart reads back what `TableMirrorsMemory` says was saved, and
an account of which it reads nothing, or something older, is in `torn`.

**The pool.** `QuotaBound` needs two facts per row (`Account`). While the row is in the pool and has quota
left, what it served is at most what was taken off the quota, what negative estimates put back (`repaid`), and
one estimate per lost decrement; this leaves room for every slot to hold it in a snapshot. Once it is used up
or revoked nobody takes a new snapshot of it, and every further draw uses up one of those that are left:
`drawn + MaxEst * Cardinality(Holders)` does not grow. `RotationFair` rests on `Turns`: for a key that no scan
passes over, `missed` and the number of places from the index to the key together stay below the length of the
list (`Turn`), for every draw of another key brings the index nearer; that the scan under way starts at the
index is `ScanPlace`. The attempt to prove it showed that an earlier form, which counted every pass, holds in
small instances only: with two slots, three rows and three operations, a request that read the list before a
row was revoked and used up puts the index back and a key is passed over once more than there are others. That
is what the code does (drr.go:99-103), so the property now speaks of lists nobody scans an older version of.
`FreeRiderBound` rests on `Lock`: who scans holds the mutex, and its session was within the limit when it took
it, which stays true because only the holder books. `CredentialMatches` is proved from `Carried`: a request
under way has gone to the provider it was meant for or to the fallback, and each of its four headers holds a
key of the one it is at, something of the client's, or what a failover left there; `dispatch_fallback` shows
the last case.

**The limiter and the cluster.** `NeverStricter` holds because every bucket a request can hold is at least as
full as the one never evicted; a new bucket starts full. `RateBound` needs the other side (`RateInv`): the
ideal bucket is behind the one in the map by at most one token for each request that does not hold an evicted
one, and what evictions gave before (`Allowance`). How much one gives is `Recovered`: a bucket is evicted
after it was idle for longer than `IdleLimit`, and the ideal one has regained a rate for each of those ticks,
but for the last use of a request that may have taken its token `MaxStay` later. `OneLeader` makes no
assumption on time. It is proved from `Renewed`: whoever was granted the lease less than `TTL` ago (counted
from when it asked) holds it, and as much is left of it as has not passed since. The age of a grant is counted
from the sending of the script that was granted, so Redis set the lease no earlier, and a script that Redis
runs a second time only extends it. `ClusterBudget` rests on `SpendInv`: Redis holds the sum of all
transactions less what it missed, so that a node which reads it sees at least its own (`NodeCredit`); sums
over nodes are counted as sets of numbered items, which is what makes them provable without induction.

**The audit trail and the live view.** `Places` keeps the four places of a record apart through every flush;
`RingInv` says what each cell of the ring holds, those before the index from this round and the others from
the one before, and `RingIsRecent` is its reading from the index on. `SeesEvents` follows from what a viewer
received and has queued being increasing and, while its queue was never full, complete.

**The configuration.** `FileInv`: what the watcher has read is the file, unless that is broken; and if the
watcher is idle, nobody writes and nothing is unsaved, unmarshalling the settings again, environment over
file, would change nothing, unless they do not decode. That unmarshalling twice is doing it once (`ReadTwice`)
carries the step. `RealKeys` follows the key through form, environment, file and memory: of a known provider
the configuration in force always has a key to restore, which `config_placeholder` lacks.

**The cache.** `CacheInv`: every key is stored once and each entry is under the key of its body; during a
clear by scan, what was stored before it began is still to be swept, or was spared by a DEL that failed.
`SameQuestions` and `HitAnswers` speak of the sort without induction, because `Place` counts the tools that go
before one: a list and its reordering have the same tools at the same places if names do not repeat, and a
sorted list tells which tools it was made of in any case. That the insertion sort of middleware.go:914 puts
every tool at its `Place` is what TLC checks, for all lists of up to four tools with repeated and missing
names (`SortAssumption` in `MCParts`).

**Assumptions** on constants are the named `ASSUME`s of the modules, evaluated by TLC in the runs: finite
slots; positive allocations and organization limits (the command line also accepts 0, a budget that is RED
from the start; the models leave that out); keys, sessions and organizations kept apart; an initial trust of
at most 100 points; the rows found at boot are listed under their own provider; a request stays in `Allow` for
less time than a bucket is kept (30 minutes); the environment holds no key but one of the provider's; `Prompt`
is less than `TTL`, which only settles what the model calls late.

**Only model-checked:** the liveness properties (`Decides`, `IdleDecays`, `EndsOrHangs`, `AuditDrains`,
`ClusterKeepsLeader`), which are out of the prover's reach, and what the insertion sort of the tools computes,
a fold over a sequence.

## 5. Not modelled

- Cloud mode (`cloud/client.go`): the budget is decided by a service outside the repository.
- The Redis counters of sessions and keys: they are written and never read.
- Alerts are taken to be enabled; formatting and sending them is I/O.
- Reports (`GetTransactions`, `GetDailySpend`, billing export) read and change nothing.
- Cryptography beyond "decrypts with the key that sealed it", ZKP circuits, the libp2p host, metrics, the UI,
  and the commands that only print.
- Data inside prompts: WAF patterns, redaction, compression, pricing.
- Fraud alerts: `BroadcastFraudAlert` has no caller, so no process ever receives one.
- What a fresh limit means for a client that is known: a bucket keeps the rate it was created with
  (limiter.go:75), and `Reset` has no caller.
- A reset in cluster mode, which leaves the Redis counter as it was (ledger.go:178); nodes that share a
  `node_id`; an increment of the spend that the Redis client sends again and Redis counts twice (the script of
  the election, sent again, is modelled).
- A negative estimate that is so large that a quota or a usage wraps around 64 bits.
- A peer that answers too late has served a prompt somebody else serves again (protocol.go:430): no id tells
  the answers apart. A peer's request is charged before it is served, and stays charged (protocol.go:137).
- Clocks that differ between nodes: a lease is measured by Redis, the attempts by each node, and the model
  lets both advance at one speed.

## 6. Plan

Done: `Ledger`, `SpendMeter`, `BudgetGate`, `MeshReputation`, `QuotaPool`, `Dispatch` and the six parts of
`MCParts`, with every safety property of the passing runs proved, as section 4 says. Left, in this order:

1. What the liveness properties rest on, as safety theorems: that a request inside the guard always has a step
   it can take (`Decides`), that the holder of the engine's lock can go on (`EndsOrHangs`), that a live lease
   has a holder whose attempt is due before it ends (`ClusterKeepsLeader`).
2. An abstract specification of the pool (a bag of quotas, drawn from and given back to nobody) that
   `Dispatch` implements.
3. The price table and the Python compressor as pure functions.
