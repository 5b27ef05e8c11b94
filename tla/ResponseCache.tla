---------------------------- MODULE ResponseCache ----------------------------
(***************************************************************************)
(* The semantic cache (internal/cache/semantic.go, redis.go) and the form  *)
(* of a request it is keyed by (canonicalizePayload and below in           *)
(* internal/proxy/middleware.go).  Requests look an answer up, ask the     *)
(* provider when there is none, and store what it answers, all at once;    *)
(* the operator clears the cache meanwhile.                                *)
(***************************************************************************)
EXTENDS Naturals, Sequences, FiniteSets, SequencesExt

CONSTANTS
  Askers,         \* requests that can be in flight at the same time
  Bodies,         \* the request bodies that arrive in this instance
  FallbackModel,  \* the model a failover rewrites a chat body to
  MaxEntries,     \* cache.max_entries, 512 when not set
  MaxClears       \* bound on clears

ASSUME CacheAssumption ==
  /\ MaxEntries \in Nat \ {0}
  /\ MaxClears \in Nat
  /\ \A b \in Bodies : /\ DOMAIN b = {"model", "messages", "tools", "form", "extra"}
                       /\ b.tools \in Seq([name : Nat, code : Nat])
                       /\ Len(b.messages) \in Nat
                       /\ DOMAIN b.messages = 1 .. Len(b.messages)

VARIABLES
  backend,   \* "memory", or "redis" when cache.redis_uri is set
  store,     \* the entries [key, body, born], oldest first
  expired,   \* how many of them, the oldest, are past their time to live
  asker,     \* where each request is, its body, and the body it found an answer to
  sweep,     \* keys the clear of a Redis cache has still to delete
  spared,    \* history: keys whose last deletion by a clear failed
  clearing,  \* whether a clear of Redis is under way
  begun,     \* clears begun so far
  ended      \* the number of the last clear that succeeded

cacheVars == <<backend, store, expired, asker, sweep, spared, clearing, begun, ended>>

\* A body: [model, messages, tools, form, extra].  A message is [text, id],
\* where id is the random tool_call_id (or the ids of its tool_calls); a tool
\* is [name, code], where name 0 stands for "", what a tool without a
\* function.name gets; form is tool_choice and response_format, extra all
\* other fields (input, system, temperature, ...).
----------------------------------------------------------------------------
(* The key of a body.                                                      *)

\* Mutant: the ids stay.
KeepToolCallIDs(messages) == messages
scrubToolCallIDs(messages) == [i \in DOMAIN messages |-> messages[i].text]

\* A stable sort: a tool goes behind those with a smaller name, and behind
\* those with its own name that came before it.
Ahead(tools, i) ==
  {j \in DOMAIN tools : \/ tools[j].name < tools[i].name
                        \/ tools[j].name = tools[i].name /\ j < i}
Place(tools, i) == Cardinality(Ahead(tools, i)) + 1

\* The sorted list, as the places of the tools in it.
sortToolsByName(tools) ==
  {[place |-> Place(tools, i), tool |-> tools[i]] : i \in DOMAIN tools}

\* computeKey(canonicalizePayload(b)): other fields do not reach the hash.
KeyOf(b) ==
  [model |-> b.model, messages |-> scrubToolCallIDs(b.messages),
   tools |-> sortToolsByName(b.tools), form |-> b.form]

\* What a client may rely on: the same questions to the same model with the
\* same set of tools, whatever the ids and the order of the tools.
SameQuestion(a, b) ==
  /\ a.model = b.model
  /\ Len(a.messages) = Len(b.messages)
  /\ \A i \in DOMAIN a.messages : a.messages[i].text = b.messages[i].text
  /\ ToSet(a.tools) = ToSet(b.tools)
  /\ a.form = b.form

----------------------------------------------------------------------------
(* The store.                                                              *)

NotAsking == [at |-> "idle", body |-> <<>>, found |-> <<>>, old |-> FALSE]

CacheInit ==
  /\ backend \in {"memory", "redis"}
  /\ store = <<>>
  /\ expired = 0
  /\ asker = [a \in Askers |-> NotAsking]
  /\ sweep = {} /\ spared = {} /\ clearing = FALSE
  /\ begun = 0 /\ ended = 0

Stored(k) == {i \in DOMAIN store : store[i].key = k}
StoredKeys == {store[i].key : i \in DOMAIN store}

ExpiredWithout(k) == Cardinality({i \in 1 .. expired : store[i].key # k})

\* delete(entries, key): a map has one entry of a key at most.
Deleted(s, k) ==
  LET at == {i \in DOMAIN s : s[i].key = k} IN
  IF at = {} THEN s ELSE RemoveAt(s, CHOOSE i \in at : TRUE)

Without(k) ==
  /\ store' = Deleted(store, k)
  /\ expired' = ExpiredWithout(k)

\* Mutant: an entry too many.
HasRoom == Len(store) <= MaxEntries
BelowCapacity == Len(store) < MaxEntries

\* Put.  A full map gives up its oldest entry, even when the key is in it.
Insert(e) ==
  LET full == backend = "memory" /\ ~BelowCapacity
      kept == IF full THEN Tail(store) ELSE store
      left == IF full /\ expired > 0 THEN expired - 1 ELSE expired
  IN
  /\ store' = Append(Deleted(kept, e.key), e)
  /\ spared' = spared \ {e.key}
  /\ expired' = Cardinality({i \in 1 .. left : kept[i].key # e.key})

\* The oldest entry that has not expired does; Redis drops it by itself.
Expire ==
  /\ expired < Len(store)
  /\ IF backend = "redis"
       THEN store' = Tail(store) /\ UNCHANGED expired
       ELSE expired' = expired + 1 /\ UNCHANGED store
  /\ UNCHANGED <<backend, asker, sweep, spared, clearing, begun, ended>>

----------------------------------------------------------------------------
(* A request.                                                              *)

Asker(a, s) == asker' = [asker EXCEPT ![a] = s]

\* Get finds nothing; a failing GET of Redis is a miss as well.
Miss(a) ==
  /\ asker[a].at = "idle"
  /\ \E b \in Bodies :
       /\ Stored(KeyOf(b)) = {} \/ backend = "redis"
       /\ Asker(a, [NotAsking EXCEPT !.at = "ask", !.body = b])
  /\ UNCHANGED <<backend, store, expired, sweep, spared, clearing, begun, ended>>

\* Get finds an entry and gives the read lock back.
Find(a) ==
  /\ asker[a].at = "idle"
  /\ \E b \in Bodies : \E i \in Stored(KeyOf(b)) :
       Asker(a, [at |-> "found", body |-> b, found |-> store[i].body,
                 old |-> i <= expired])
  /\ UNCHANGED <<backend, store, expired, sweep, spared, clearing, begun, ended>>

\* The entry was past its time, now or a moment ago: the key is deleted.
DropOld(a) ==
  /\ asker[a].at = "found" /\ backend = "memory"
  /\ Without(KeyOf(asker[a].body))
  /\ Asker(a, [asker[a] EXCEPT !.at = "ask", !.found = <<>>, !.old = FALSE])
  /\ UNCHANGED <<backend, sweep, spared, clearing, begun, ended>>

Hit(a) ==
  /\ asker[a].at = "found" /\ ~asker[a].old
  /\ Asker(a, [asker[a] EXCEPT !.at = "answered"])
  /\ UNCHANGED <<backend, store, expired, sweep, spared, clearing, begun, ended>>

\* Mutant: the answer is stored under the body as it came.
StoredAs(asked, sent) == [key |-> KeyOf(asked), body |-> sent, born |-> begun]

\* The answer to the body that was sent last is stored under that body.
EntryFor(asked, sent) == [key |-> KeyOf(sent), body |-> sent, born |-> begun]

\* A failover replaces the model, of a chat body only.
Models(b) == {b.model} \cup IF b.messages = <<>> THEN {} ELSE {FallbackModel}

\* The provider answers, possibly after a failover.
AnswerAndPut(a) ==
  /\ asker[a].at = "ask"
  /\ \E m \in Models(asker[a].body) :
       Insert(EntryFor(asker[a].body, [asker[a].body EXCEPT !.model = m]))
  /\ Asker(a, NotAsking)
  /\ UNCHANGED <<backend, sweep, clearing, begun, ended>>

\* It fails or streams, or the SET of Redis fails: nothing is stored.
AnswerOnly(a) ==
  /\ asker[a].at = "ask"
  /\ Asker(a, NotAsking)
  /\ UNCHANGED <<backend, store, expired, sweep, spared, clearing, begun, ended>>

CacheReturn(a) ==
  /\ asker[a].at = "answered"
  /\ Asker(a, NotAsking)
  /\ UNCHANGED <<backend, store, expired, sweep, spared, clearing, begun, ended>>

----------------------------------------------------------------------------
(* Clear.                                                                  *)

ClearMemory ==
  /\ backend = "memory" /\ begun < MaxClears
  /\ store' = <<>> /\ expired' = 0
  /\ begun' = begun + 1 /\ ended' = begun + 1
  /\ UNCHANGED <<backend, asker, sweep, spared, clearing>>

\* A scan of Redis returns what is stored for the whole of the scan.
BeginClear ==
  /\ backend = "redis" /\ begun < MaxClears /\ ~clearing
  /\ sweep' = StoredKeys
  /\ clearing' = TRUE
  /\ begun' = begun + 1
  /\ UNCHANGED <<backend, store, expired, asker, spared, ended>>

\* One DEL; nobody looks at whether it failed.
Sweep(k) ==
  /\ sweep' = sweep \ {k}
  /\ \/ Without(k) /\ spared' = spared \ {k}
     \/ spared' = spared \cup {k} /\ UNCHANGED <<store, expired>>
  /\ UNCHANGED <<backend, asker, clearing, begun, ended>>

\* Mutant: the clear ends before its scan.
SweptSome == Cardinality(sweep) <= 1
SweptAll == sweep = {}

EndClear ==
  /\ clearing /\ SweptAll
  /\ sweep' = {} /\ clearing' = FALSE
  /\ ended' = begun
  /\ UNCHANGED <<backend, store, expired, asker, spared, begun>>

\* The scan fails: the caller is told, and what is left stays.
AbortClear ==
  /\ clearing
  /\ sweep' = {} /\ clearing' = FALSE
  /\ UNCHANGED <<backend, store, expired, asker, spared, begun, ended>>

\* POST /api/cache/clear, and "tkngate cache clear".  The command clears the
\* cache of its own process, so that it reaches the daemon through Redis only.
HandleCacheClear == ClearMemory \/ BeginClear
CacheClearCmd == BeginClear

CacheNext ==
  \/ \E a \in Askers :
       \/ Miss(a) \/ Find(a) \/ DropOld(a) \/ Hit(a)
       \/ AnswerAndPut(a) \/ AnswerOnly(a) \/ CacheReturn(a)
  \/ \E k \in sweep : Sweep(k)
  \/ Expire
  \/ HandleCacheClear \/ CacheClearCmd \/ EndClear \/ AbortClear

CacheSpec == CacheInit /\ [][CacheNext]_cacheVars

----------------------------------------------------------------------------
(* Properties.                                                             *)

CacheTypeOK ==
  /\ backend \in {"memory", "redis"}
  /\ expired \in 0 .. Len(store)
  /\ \A a \in Askers : asker[a].at \in {"idle", "found", "ask", "answered"}
  /\ ended <= begun

\* The map holds at most MaxEntries, each under a key of its own, whichever
\* puts, expiries and clears meet (semantic.go:149-158).
CapacityBound ==
  /\ backend = "memory" => Len(store) <= MaxEntries
  /\ Cardinality(StoredKeys) = Len(store)

\* What was stored before the last successful clear began is no longer there,
\* also where the clear is a scan during which others store and look up
\* (redis.go:119), but for the keys whose DEL failed: the clear succeeds all
\* the same (redis.go:129), and until they are stored anew or deleted by
\* another clear those answers are given.
ClearForgets ==
  \A i \in DOMAIN store : store[i].born >= ended \/ store[i].key \in spared

\* No two tools have the same name, and one at most is without.
NamedApart(tools) ==
  \A i, j \in DOMAIN tools : tools[i].name = tools[j].name => i = j

\* "identical agent conversations always hit cache, regardless of ID
\* generation or tool ordering" (README.md:213): every body that asks what a
\* stored answer was asked is looked up under its key, if its tools have
\* names to be sorted by (those without function.name, as anthropic's and the
\* built-in ones, keep the order of the client, middleware.go:928).
SameQuestionHits ==
  \A i \in DOMAIN store : \A b \in Bodies :
    /\ SameQuestion(b, store[i].body)
    /\ NamedApart(b.tools) /\ NamedApart(store[i].body.tools)
    => KeyOf(b) = store[i].key

\* A hit answers the question that was asked, of the model that was asked,
\* also when the stored answer came out of a failover.
HitAnswersQuestion ==
  \A a \in Askers :
    asker[a].at = "answered" => SameQuestion(asker[a].body, asker[a].found)

\* "identical prompts with different metadata (temperature, etc.) still hit the
\* cache" (semantic.go:70): only prompts that are identical may.  The prompt of
\* a body without messages (embeddings, legacy completions) is in extra.
OwnAnswer ==
  \A a \in Askers : asker[a].at = "answered" =>
    (asker[a].body.messages = <<>> =>
       asker[a].body.extra = asker[a].found.extra)
=============================================================================
