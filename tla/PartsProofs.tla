----------------------------- MODULE PartsProofs -----------------------------
(* What holds of the parts that share no state, for any number of requests, *)
(* records, viewers, dashboards and nodes and whatever their bounds: the    *)
(* configuration and its files, the live view of shadow mode, the audit     *)
(* trail and the cache; and that the types of all of them hold together.    *)
EXTENDS MCParts, ClusterProofs, RateLimiterProofs, SequenceTheorems

----------------------------------------------------------------------------
(* The configuration.                                                      *)

\* Reading a file once more changes nothing.
LEMMA ReadTwice ==
  ASSUME NEW c, NEW v
  PROVE  LET once == validateConfig(Unmarshal(c, v)) IN
         once = validateConfig(Unmarshal(once, v))
BY DEF validateConfig, Unmarshal, Absent, NoKey

\* Of settings that decode, everything is in force.
Obeys(s) == Decodes(s) => cfg = validateConfig(Unmarshal(cfg, s))

\* What the watcher has read is what the file says, if it can be read, until it
\* is told again.
\* Of ./tkngate.yaml, a writer still has to tell the watcher; no put writes
\* the other file, so that its change is unsaved from the assignment on.
FileInv ==
  /\ ConfigTypeOK
  /\ home # "none" => home \in DOMAIN files
  /\ DOMAIN files = {"cwd", "etc"}
  /\ DOMAIN put = Users
  /\ (home # "none" /\ watcher \in {"idle", "read"} /\ files[home] # Broken) =>
       viper = files[home]
  /\ (home # "none" /\ watcher = "idle" /\ ~unsaved
        /\ (home = "cwd" => \A u \in Users : ~Writes(u))) => Obeys(Settings(viper, env))

\* What is found is a file or none, and what is loaded comes from it.
LEMMA FoundFiles ==
  ASSUME NEW fs, NEW e
  PROVE  /\ Found(fs) \in {"cwd", "etc", "none"}
         /\ Found(fs) # "none" => Read(fs, Found(fs)) = fs[Found(fs)]
         /\ Loaded(fs, e) =
              validateConfig(Unmarshal(Loaded(fs, e), Settings(Read(fs, Found(fs)), e)))
<1>1. Found(fs) \in {"cwd", "etc", "none"}
  BY DEF Found
<1>2. Loaded(fs, e) = validateConfig(Unmarshal(Empty, Settings(Read(fs, Found(fs)), e)))
  BY DEF Loaded
<1> QED
  BY <1>1, <1>2, ReadTwice DEF Read

\* At the start the configuration was read from the file that was found.
LEMMA FileInit == ConfigInit => FileInv
<1> SUFFICES ASSUME ConfigInit PROVE FileInv
  OBVIOUS
<1>1. /\ home = Found(files) /\ cfg = Loaded(files, env) /\ watcher = "idle"
      /\ viper = Read(files, home)
      /\ DOMAIN files = {"cwd", "etc"} /\ DOMAIN put = Users /\ changes = 0
  BY DEF ConfigInit
<1>2. /\ home \in {"cwd", "etc", "none"} /\ (home # "none" => viper = files[home])
      /\ Obeys(Settings(viper, env))
  BY <1>1, FoundFiles DEF Obeys
<1> QED
  BY <1>1, <1>2, ConfigAssumption DEF FileInv, ConfigTypeOK

\* A step that leaves the file in force alone, and ends no write to it.
LEMMA FileStays ==
  ASSUME FileInv, ConfigTypeOK', DOMAIN put' = Users,
         UNCHANGED <<cfg, env, viper, files, home, watcher, unsaved>>,
         \A u \in Users : Writes(u) => Writes(u)'
  PROVE  FileInv'
BY DEF FileInv, Obeys

\* A file that changes is read again, and an edit that fails or is under way is
\* known to be.
LEMMA FileStep == FileInv /\ [ConfigNext]_configVars => FileInv'
<1> SUFFICES ASSUME FileInv, [ConfigNext]_configVars PROVE FileInv'
  OBVIOUS
<1>0. /\ changes \in Nat /\ MaxChanges \in Nat /\ changes <= MaxChanges
      /\ home \in {"cwd", "etc", "none"} /\ watcher \in {"idle", "told", "read", "again"}
      /\ home = "none" => watcher = "idle"
      /\ DOMAIN files = {"cwd", "etc"} /\ DOMAIN put = Users
  BY ConfigAssumption DEF FileInv, ConfigTypeOK
<1>1. ASSUME NEW f \in {"cwd", "etc"}
      PROVE  /\ Told(f) \in {"idle", "told", "read", "again"}
             /\ f = home => Told(f) \in {"told", "again"}
             /\ f # home => Told(f) = watcher
  BY <1>0 DEF Told
<1>2. ASSUME NEW f \in {"cwd", "etc"}, EditFile(f) PROVE FileInv'
  <2>1. /\ changes' = changes + 1 /\ changes < MaxChanges /\ watcher' = Told(f)
        /\ UNCHANGED <<cfg, env, viper, home, unsaved, put>>
        /\ DOMAIN files' = {"cwd", "etc"}
        /\ \A g \in {"cwd", "etc"} : g # f => files'[g] = files[g]
    BY <1>0, <1>2 DEF EditFile
  <2>2. ConfigTypeOK'
    BY <1>0, <1>1, <2>1 DEF ConfigTypeOK
  <2> QED
    BY <1>0, <1>1, <2>1, <2>2 DEF FileInv, Obeys, Writes
<1>3. CASE WatchRead
  BY <1>3 DEF WatchRead, FileInv, ConfigTypeOK
<1>4. CASE WatchApply
  <2>1. /\ Decodes(Settings(viper, env)) =>
             cfg' = validateConfig(Unmarshal(cfg, Settings(viper, env)))
        /\ watcher' = IF watcher = "again" THEN "told" ELSE "idle"
        /\ watcher \in {"read", "again"}
        /\ UNCHANGED <<env, viper, files, home, put, changes>>
    BY <1>4 DEF WatchApply
  <2>2. Obeys(Settings(viper, env))'
    BY <2>1, ReadTwice DEF Obeys
  <2> QED
    BY <1>0, <2>1, <2>2 DEF FileInv, ConfigTypeOK
<1>5. ASSUME NEW u \in Users, GetConfig(u) \/ PutConfig(u) \/ RejectPut(u) \/ Marshal(u)
      PROVE  FileInv'
  <2>1. /\ UNCHANGED <<cfg, env, viper, files, home, watcher, unsaved>>
        /\ DOMAIN put' = Users /\ changes' \in 0 .. MaxChanges
        /\ put[u].at = "marshal" => put'[u].at \in {"marshal", "truncate"}
        /\ put[u].at \in {"truncate", "write"} => put'[u].at = put[u].at
        /\ \A w \in Users \ {u} : put'[w] = put[w]
    BY <1>0, <1>5 DEF GetConfig, PutConfig, RejectPut, Marshal
  <2> QED
    BY <1>0, <2>1, FileStays DEF ConfigTypeOK, Writes
<1>6. ASSUME NEW u \in Users, SaveConfig(u) PROVE FileInv'
  <2>1. /\ put'[u].at = "marshal" /\ unsaved' = (unsaved \/ home # "cwd")
        /\ DOMAIN put' = Users
        /\ UNCHANGED <<env, viper, files, home, watcher, changes>>
    BY <1>0, <1>6 DEF SaveConfig
  <2> QED
    BY <2>1 DEF FileInv, ConfigTypeOK, Writes
<1>7. ASSUME NEW u \in Users, Truncate(u) \/ WriteFile(u) PROVE FileInv'
  <2>1. /\ watcher' = Told("cwd")
        /\ UNCHANGED <<cfg, env, viper, home, unsaved, changes>>
        /\ DOMAIN put' = Users /\ DOMAIN files' = {"cwd", "etc"}
        /\ files'["etc"] = files["etc"]
    BY <1>0, <1>7 DEF Truncate, WriteFile
  <2>2. ConfigTypeOK'
    BY <1>0, <1>1, <2>1 DEF ConfigTypeOK
  <2>3. home # "cwd" => (home # "none" => files'[home] = files[home])
    BY <1>0, <2>1
  <2> QED
    BY <1>0, <1>1, <2>1, <2>2, <2>3 DEF FileInv, Obeys
<1>8. ASSUME NEW u \in Users, WriteFails(u) PROVE FileInv'
  BY <1>0, <1>8 DEF WriteFails, FileInv, ConfigTypeOK
<1>9. CASE ConfigRestart
  <2>1. /\ home' = Found(files) /\ cfg' = Loaded(files, env') /\ watcher' = "idle"
        /\ viper' = Read(files, home')
        /\ UNCHANGED <<files, changes>> /\ DOMAIN put' = Users
    BY <1>9 DEF ConfigRestart
  <2>2. /\ home' \in {"cwd", "etc", "none"}
        /\ home' # "none" => viper' = files'[home']
        /\ Obeys(Settings(viper, env))'
    BY <2>1, FoundFiles DEF Obeys
  <2> QED
    BY <1>0, <2>1, <2>2 DEF FileInv, ConfigTypeOK
<1>10. CASE UNCHANGED configVars
  BY <1>10, FileStays DEF configVars, FileInv, ConfigTypeOK, Writes
<1> QED
  BY <1>2, <1>3, <1>4, <1>5, <1>6, <1>7, <1>8, <1>9, <1>10
     DEF ConfigNext, Watch, Saving

\* When the watcher is done and nobody is writing, what the watched file says,
\* or the environment in its place, is in force, unless a put could not write
\* it; of a file that is no YAML, what it said before (config.go:161-183,
\* :207-215).
THEOREM FileInForce == ConfigSpec => []ActiveFollowsFile
<1>1. FileInv => ActiveFollowsFile
  BY DEF FileInv, ActiveFollowsFile, Settled, Obeys
<1> QED
  BY FileInit, FileStep, <1>1, PTL DEF ConfigSpec

\* No key that is in force or written, and none that is about to be, is the
\* placeholder; one that is still to be checked may be.
RealKeys ==
  /\ cfg.key \notin {Absent, Placeholder}
  /\ viper.key # Placeholder /\ env \in Envs
  /\ DOMAIN files = {"cwd", "etc"} /\ DOMAIN put = Users
  /\ home \in {"cwd", "etc", "none"}
  /\ watcher # "idle" => home # "none"
  /\ \A f \in DOMAIN files : files[f].key # Placeholder
  /\ \A u \in Users :
       /\ put[u].at = "check" => put[u].c.key # Absent
       /\ put[u].at \in {"truncate", "write"} => put[u].c.key # Placeholder

\* Strings that are no API key of the provider.
NotKeys == {Absent, Placeholder}

\* The environment puts no placeholder in the place of a key.
LEMMA SettingsKey ==
  ASSUME Keys \cap NotKeys = {}, NEW v, v.key # Placeholder, NEW e \in Envs
  PROVE  Settings(v, e).key # Placeholder
<1>1. e.key \in Keys \cup {Absent}
  BY ConfigAssumption
<1> QED
  BY <1>1 DEF Settings, NotKeys, Absent, Placeholder

\* Of a known provider a loaded configuration always has a key, if an empty one.
LEMMA LoadedKey ==
  ASSUME Known, Keys \cap NotKeys = {}, NEW fs, NEW e \in Envs,
         \A f \in {"cwd", "etc"} : fs[f].key # Placeholder
  PROVE  /\ Loaded(fs, e).key \notin NotKeys
         /\ Read(fs, Found(fs)).key # Placeholder
<1>1. Found(fs) \in {"cwd", "etc", "none"}
  BY DEF Found
<1>2. Read(fs, Found(fs)).key # Placeholder
  BY <1>1 DEF Read, Empty, Absent, Placeholder
<1>3. Settings(Read(fs, Found(fs)), e).key # Placeholder
  BY <1>2, SettingsKey
<1> QED
  BY <1>2, <1>3
     DEF Loaded, validateConfig, Unmarshal, Empty, NotKeys, Absent, NoKey, Placeholder

\* The files of a fresh installation hold no placeholder.
LEMMA RealInit ==
  ASSUME Known, Keys \cap NotKeys = {}, ConfigInit PROVE RealKeys
<1>1. PICK at \in {"cwd", "etc", "none"}, key \in Keys \cup {Absent} :
        files = [f \in {"cwd", "etc"} |->
                   IF f = at THEN [key |-> key, rules |-> 1, amber |-> 0] ELSE NoFile]
  BY DEF ConfigInit
<1>2. DOMAIN files = {"cwd", "etc"} /\ \A f \in {"cwd", "etc"} : files[f].key # Placeholder
  BY <1>1 DEF NoFile, Empty, NotKeys, Absent, Placeholder
<1>3. /\ home = Found(files) /\ viper = Read(files, home) /\ cfg = Loaded(files, env)
      /\ env \in Envs
      /\ watcher = "idle" /\ put = [u \in Users |-> Resting]
  BY DEF ConfigInit
<1>4. home \in {"cwd", "etc", "none"}
  BY <1>3 DEF Found
<1>5. cfg.key \notin NotKeys /\ viper.key # Placeholder
  BY <1>2, <1>3, LoadedKey
<1> QED
  BY <1>2, <1>3, <1>4, <1>5 DEF RealKeys, Resting, NotKeys

\* A form that is put back has its placeholder replaced before it is stored.
LEMMA RealStep ==
  ASSUME Known, Keys \cap NotKeys = {}, RealKeys, [ConfigNext]_configVars
  PROVE  RealKeys'
<1>0. NotKeys = {Absent, Placeholder} /\ Absent # Placeholder
  BY DEF NotKeys, Absent, Placeholder
<1>1. ASSUME NEW f \in {"cwd", "etc"}, EditFile(f) PROVE RealKeys'
  <2>1. ASSUME NEW key \in {files[f].key, Absent} \cup Keys,
               NEW rules \in {files[f].rules, changes + 2}, NEW amber \in {0, Mistyped},
               files' = [files EXCEPT ![f] = [key |-> key, rules |-> rules, amber |-> amber]]
        PROVE  /\ DOMAIN files' = {"cwd", "etc"}
               /\ \A g \in DOMAIN files' : files'[g].key # Placeholder
    <3>1. key # Placeholder
      BY <1>0 DEF RealKeys
    <3> QED
      BY <2>1, <3>1 DEF RealKeys
  <2>3. DOMAIN files' = {"cwd", "etc"} /\ \A g \in DOMAIN files' : files'[g].key # Placeholder
    <3>1. CASE files' = [files EXCEPT ![f] = Broken]
      BY <1>0, <3>1 DEF RealKeys, Broken, Empty
    <3> QED
      BY <1>1, <2>1, <3>1 DEF EditFile
  <2>4. watcher' # "idle" => home # "none"
    BY <1>1 DEF EditFile, Told, RealKeys
  <2>5. UNCHANGED <<cfg, env, viper, home, put>>
    BY <1>1 DEF EditFile
  <2> QED
    BY <2>3, <2>4, <2>5 DEF RealKeys
<1>2. CASE WatchRead
  <2>1. viper' \in {viper, files[home]} /\ home \in DOMAIN files
    BY <1>2 DEF WatchRead, RealKeys
  <2>2. UNCHANGED <<cfg, env, files, home, put>> /\ watcher' = "read"
    BY <1>2 DEF WatchRead
  <2>3. viper'.key # Placeholder
    BY <2>1 DEF RealKeys
  <2> QED
    BY <1>2, <2>2, <2>3 DEF WatchRead, RealKeys
<1>3. CASE WatchApply
  <2> DEFINE s == Settings(viper, env)
  <2>0. s.key # Placeholder
    BY SettingsKey DEF RealKeys
  <2>1. cfg'.key \in {cfg.key, s.key} \ {Absent}
    <3> HIDE DEF s
    <3>1. Unmarshal(cfg, s).key = IF s.key = Absent THEN cfg.key ELSE s.key
      BY DEF Unmarshal
    <3>2. CASE cfg' = validateConfig(Unmarshal(cfg, s))
      BY <3>1, <3>2 DEF validateConfig, RealKeys
    <3>3. CASE cfg' \in PartlyDecoded(cfg, s)
      BY <3>1, <3>3 DEF PartlyDecoded, RealKeys
    <3> QED
      BY <1>3, <3>2, <3>3 DEF WatchApply, s
  <2>2. UNCHANGED <<env, viper, files, home, put>>
    BY <1>3 DEF WatchApply
  <2>3. watcher' # "idle" => home # "none"
    BY <1>3 DEF WatchApply, RealKeys
  <2> HIDE DEF s
  <2> QED
    BY <2>0, <2>1, <2>2, <2>3 DEF RealKeys
<1>4. ASSUME NEW u \in Users, GetConfig(u) PROVE RealKeys'
  BY <1>4 DEF GetConfig, RealKeys
<1>5. ASSUME NEW u \in Users, PutConfig(u) PROVE RealKeys'
  BY <1>5 DEF PutConfig, RealKeys
<1>6. ASSUME NEW u \in Users, RejectPut(u) PROVE RealKeys'
  BY <1>6 DEF RejectPut, RealKeys, Resting
<1>7. ASSUME NEW u \in Users, SaveConfig(u) PROVE RealKeys'
  <2>1. cfg'.key \notin {Absent, Placeholder}
    BY <1>7 DEF SaveConfig, Restored, RealKeys
  <2>2. UNCHANGED <<env, viper, files, home, watcher>>
    BY <1>7 DEF SaveConfig
  <2>3. DOMAIN put' = Users /\ put'[u].at = "marshal" /\ \A w \in Users \ {u} : put'[w] = put[w]
    BY <1>7 DEF SaveConfig, RealKeys
  <2> QED
    BY <2>1, <2>2, <2>3 DEF RealKeys
<1>8. ASSUME NEW u \in Users, Marshal(u) PROVE RealKeys'
  BY <1>8 DEF Marshal, RealKeys
<1>9. ASSUME NEW u \in Users, Truncate(u) \/ WriteFile(u) PROVE RealKeys'
  <2>1. /\ UNCHANGED <<cfg, env, viper, home>> /\ DOMAIN files' = {"cwd", "etc"}
        /\ files'["etc"] = files["etc"]
        /\ files'["cwd"] = Empty \/ (files'["cwd"] = put[u].c /\ put[u].at = "write")
    BY <1>9 DEF Truncate, WriteFile, RealKeys
  <2>2. \A f \in DOMAIN files' : files'[f].key # Placeholder
    BY <1>0, <2>1 DEF RealKeys, Empty
  <2>3. /\ DOMAIN put' = Users /\ \A w \in Users \ {u} : put'[w] = put[w]
        /\ \/ put'[u].at = "write" /\ put'[u].c = put[u].c /\ put[u].at = "truncate"
           \/ put'[u].at = "idle"
    <3>1. CASE Truncate(u)
      BY <3>1 DEF Truncate, RealKeys
    <3>2. CASE WriteFile(u)
      BY <3>2 DEF WriteFile, RealKeys, Resting
    <3> QED
      BY <1>9, <3>1, <3>2
  <2>4. watcher' # "idle" => home # "none"
    BY <1>9 DEF Truncate, WriteFile, Told, RealKeys
  <2> QED
    BY <2>1, <2>2, <2>3, <2>4 DEF RealKeys
<1>10. ASSUME NEW u \in Users, WriteFails(u) PROVE RealKeys'
  BY <1>10 DEF WriteFails, RealKeys, Resting
<1>11. CASE ConfigRestart
  <2>1. /\ home' = Found(files) /\ viper' = Read(files, home')
        /\ env' \in Envs /\ cfg' = Loaded(files, env')
        /\ watcher' = "idle" /\ put' = [u \in Users |-> Resting] /\ UNCHANGED files
    BY <1>11 DEF ConfigRestart
  <2>2. home' \in {"cwd", "etc", "none"}
    BY <2>1 DEF Found
  <2>3. cfg'.key \notin NotKeys /\ viper'.key # Placeholder
    BY <2>1, LoadedKey DEF RealKeys
  <2> QED
    BY <1>0, <2>1, <2>2, <2>3 DEF RealKeys, Resting
<1>12. CASE UNCHANGED configVars
  BY <1>12 DEF configVars, RealKeys
<1> QED
  BY <1>1, <1>2, <1>3, <1>4, <1>5, <1>6, <1>7, <1>8, <1>9, <1>10, <1>11, <1>12
     DEF ConfigNext, Watch, Saving

\* Of a known provider, whatever the dashboards put back, the placeholder never
\* becomes the key, in memory or in a file (config.go:189).
THEOREM NeverPlaceholder ==
  ASSUME Known, Keys \cap NotKeys = {}
  PROVE  ConfigSpec => []NoPlaceholderKey
<1>1. RealKeys => NoPlaceholderKey
  BY DEF RealKeys, NoPlaceholderKey
<1>2. ConfigInit => RealKeys
  BY RealInit
<1>3. RealKeys /\ [ConfigNext]_configVars => RealKeys'
  BY RealStep
<1> QED
  BY <1>1, <1>2, <1>3, PTL DEF ConfigSpec

----------------------------------------------------------------------------
(* The live view of shadow mode.                                           *)

DiffTypes ==
  /\ clients \subseteq Viewers /\ clients \cap closed = {}
  /\ queue \in [Viewers -> Seq(Nat)] /\ received \in [Viewers -> Seq(Nat)]
  /\ events \in Nat /\ joined \in [Viewers -> Nat] /\ stalled \in [Viewers -> BOOLEAN]

\* What a viewer has or will be sent: the events after the one it joined at,
\* increasing, and all of them while its channel was never full.
SeenBy(v) == received[v] \o queue[v]
InOrder(v) ==
  /\ \A i \in DOMAIN SeenBy(v) : SeenBy(v)[i] <= events
  /\ \A i, j \in DOMAIN SeenBy(v) : i < j => SeenBy(v)[i] < SeenBy(v)[j]
NothingMissed(v) ==
  /\ Len(SeenBy(v)) = events - joined[v]
  /\ \A i \in DOMAIN SeenBy(v) : SeenBy(v)[i] = joined[v] + i

DiffInv ==
  /\ DiffTypes
  /\ \A v \in Viewers : Len(queue[v]) <= QueueSize
  /\ \A v \in clients : InOrder(v) /\ (~stalled[v] => NothingMissed(v))

\* Taking the head of one sequence to the end of another.
LEMMA HeadMoves ==
  ASSUME NEW r \in Seq(Nat), NEW q \in Seq(Nat), q # <<>>
  PROVE  /\ Append(r, Head(q)) \in Seq(Nat) /\ Tail(q) \in Seq(Nat)
         /\ Len(Tail(q)) = Len(q) - 1
         /\ Append(r, Head(q)) \o Tail(q) = r \o q
<1>1. /\ Head(q) \in Nat /\ Tail(q) \in Seq(Nat) /\ Len(q) \in Nat /\ Len(q) > 0
      /\ Len(Tail(q)) = Len(q) - 1 /\ Head(q) = q[1]
      /\ \A i \in 1 .. Len(q) - 1 : Tail(q)[i] = q[i + 1]
  OBVIOUS
<1> DEFINE a == Append(r, Head(q))
           t == Tail(q)
<1>2. /\ a \in Seq(Nat) /\ Len(a) = Len(r) + 1 /\ Len(r) \in Nat
      /\ a[Len(r) + 1] = q[1] /\ \A i \in 1 .. Len(r) : a[i] = r[i]
  BY <1>1
<1>3. t \in Seq(Nat) /\ Len(t) = Len(q) - 1 /\ \A i \in 1 .. Len(q) - 1 : t[i] = q[i + 1]
  BY <1>1
<1> HIDE DEF a, t
<1>4. /\ a \o t \in Seq(Nat) /\ Len(a \o t) = Len(r) + Len(q)
      /\ \A i \in 1 .. Len(r) + Len(q) :
           (a \o t)[i] = IF i <= Len(r) + 1 THEN a[i] ELSE t[i - (Len(r) + 1)]
  <2>1. /\ a \o t \in Seq(Nat) /\ Len(a \o t) = Len(a) + Len(t)
        /\ \A i \in 1 .. Len(a) + Len(t) :
             (a \o t)[i] = IF i <= Len(a) THEN a[i] ELSE t[i - Len(a)]
    BY <1>2, <1>3, ConcatProperties
  <2>2. Len(a) + Len(t) = Len(r) + Len(q)
    BY <1>1, <1>2, <1>3
  <2> QED
    BY <1>2, <2>1, <2>2
<1>5. /\ r \o q \in Seq(Nat) /\ Len(r \o q) = Len(r) + Len(q)
      /\ \A i \in 1 .. Len(r) + Len(q) :
           (r \o q)[i] = IF i <= Len(r) THEN r[i] ELSE q[i - Len(r)]
  BY ConcatProperties
<1>6. ASSUME NEW i \in 1 .. Len(r) + Len(q) PROVE (a \o t)[i] = (r \o q)[i]
  <2>1. CASE i <= Len(r)
    BY <1>1, <1>2, <1>4, <1>5, <2>1
  <2>2. CASE i = Len(r) + 1
    BY <1>1, <1>2, <1>4, <1>5, <2>2
  <2>3. CASE i > Len(r) + 1
    <3>1. /\ i - (Len(r) + 1) \in 1 .. Len(q) - 1
          /\ (i - (Len(r) + 1)) + 1 = i - Len(r)
      BY <1>1, <1>2, <2>3
    <3>2. (a \o t)[i] = t[i - (Len(r) + 1)] /\ (r \o q)[i] = q[i - Len(r)]
      BY <1>1, <1>2, <1>4, <1>5, <2>3
    <3> QED
      BY <1>3, <3>1, <3>2
  <2>4. i <= Len(r) \/ i = Len(r) + 1 \/ i > Len(r) + 1
    BY <1>1, <1>2
  <2> QED
    BY <2>1, <2>2, <2>3, <2>4
<1>7. a \o t = r \o q
  BY <1>4, <1>5, <1>6, SeqEqual
<1> QED
  BY <1>1, <1>2, <1>3, <1>7 DEF a, t

\* One more at the end of the second sequence is one more at the end of both.
LEMMA TailGrows ==
  ASSUME NEW r \in Seq(Nat), NEW q \in Seq(Nat), NEW e \in Nat
  PROVE  /\ Len(r \o Append(q, e)) = Len(r \o q) + 1 /\ Len(r \o q) \in Nat
         /\ (r \o Append(q, e))[Len(r \o q) + 1] = e
         /\ \A i \in 1 .. Len(r \o q) :
              (r \o Append(q, e))[i] = (r \o q)[i] /\ (r \o q)[i] \in Nat
<1> DEFINE b == Append(q, e)
<1>1. /\ b \in Seq(Nat) /\ Len(b) = Len(q) + 1 /\ Len(q) \in Nat /\ Len(r) \in Nat
      /\ b[Len(q) + 1] = e /\ \A i \in 1 .. Len(q) : b[i] = q[i]
  OBVIOUS
<1>0. (\A i \in 1 .. Len(r) : r[i] \in Nat) /\ (\A i \in 1 .. Len(q) : q[i] \in Nat)
  OBVIOUS
<1> HIDE DEF b
<1>2. /\ r \o q \in Seq(Nat) /\ Len(r \o q) = Len(r) + Len(q)
      /\ \A i \in 1 .. Len(r) + Len(q) :
           (r \o q)[i] = IF i <= Len(r) THEN r[i] ELSE q[i - Len(r)]
  BY ConcatProperties
<1>3. /\ Len(r \o b) = Len(r) + Len(q) + 1
      /\ \A i \in 1 .. Len(r) + Len(q) + 1 :
           (r \o b)[i] = IF i <= Len(r) THEN r[i] ELSE b[i - Len(r)]
  <2>1. /\ Len(r \o b) = Len(r) + Len(b)
        /\ \A i \in 1 .. Len(r) + Len(b) :
             (r \o b)[i] = IF i <= Len(r) THEN r[i] ELSE b[i - Len(r)]
    BY <1>1, ConcatProperties
  <2> QED
    BY <1>1, <2>1
<1>4. (r \o b)[Len(r) + Len(q) + 1] = e
  BY <1>1, <1>3
<1>5. ASSUME NEW i \in 1 .. Len(r) + Len(q)
      PROVE  (r \o b)[i] = (r \o q)[i] /\ (r \o q)[i] \in Nat
  <2>1. CASE i <= Len(r)
    BY <1>0, <1>1, <1>2, <1>3, <2>1
  <2>2. CASE i > Len(r)
    <3>1. i - Len(r) \in 1 .. Len(q)
      BY <1>1, <2>2
    <3>2. (r \o b)[i] = b[i - Len(r)] /\ (r \o q)[i] = q[i - Len(r)]
      BY <1>1, <1>2, <1>3, <2>2
    <3> QED
      BY <1>0, <1>1, <3>1, <3>2
  <2> QED
    BY <1>1, <2>1, <2>2
<1> QED
  BY <1>1, <1>2, <1>3, <1>4, <1>5 DEF b

\* A later event at the end keeps the order, and what was complete complete.
LEMMA LaterEvent ==
  ASSUME NEW s \in Seq(Nat), NEW t \in Seq(Nat), NEW e \in Nat, NEW m \in Nat,
         Len(t) = Len(s) + 1, t[Len(s) + 1] = e + 1,
         \A i \in 1 .. Len(s) : t[i] = s[i],
         \A i \in DOMAIN s : s[i] <= e,
         \A i, j \in DOMAIN s : i < j => s[i] < s[j]
  PROVE  /\ \A i \in DOMAIN t : t[i] <= e + 1
         /\ \A i, j \in DOMAIN t : i < j => t[i] < t[j]
         /\ (Len(s) = e - m /\ \A i \in DOMAIN s : s[i] = m + i) =>
              (Len(t) = (e + 1) - m /\ \A i \in DOMAIN t : t[i] = m + i)
<1> DEFINE n == Len(s)
<1>1. /\ n \in Nat /\ DOMAIN s = 1 .. n /\ DOMAIN t = 1 .. n + 1
      /\ \A i \in 1 .. n : s[i] \in Nat
  OBVIOUS
<1>2. \A i \in 1 .. n + 1 : i \in 1 .. n \/ i = n + 1
  BY <1>1
<1>3. \A i \in 1 .. n : t[i] = s[i] /\ t[i] <= e /\ t[i] \in Nat
  BY <1>1
<1>4. t[n + 1] = e + 1
  OBVIOUS
<1>5. \A i, j \in 1 .. n : i < j => s[i] < s[j]
  BY <1>1
<1>6. Len(t) = n + 1
  OBVIOUS
<1>7. ASSUME n = e - m, \A i \in DOMAIN s : s[i] = m + i
      PROVE  Len(t) = (e + 1) - m /\ \A i \in DOMAIN t : t[i] = m + i
  <2>1. \A i \in 1 .. n : t[i] = m + i
    BY <1>1, <1>3, <1>7
  <2> HIDE DEF n
  <2> QED
    BY <1>1, <1>2, <1>4, <1>6, <1>7, <2>1
<1> HIDE DEF n
<1>8. \A i \in DOMAIN t : t[i] <= e + 1
  BY <1>1, <1>2, <1>3, <1>4
<1>9. ASSUME NEW i \in DOMAIN t, NEW j \in DOMAIN t, i < j PROVE t[i] < t[j]
  <2>1. i \in 1 .. n
    BY <1>1, <1>9
  <2>2. CASE j \in 1 .. n
    BY <1>3, <1>5, <1>9, <2>1, <2>2
  <2>3. CASE j = n + 1
    BY <1>3, <1>4, <2>1, <2>3
  <2> QED
    BY <1>1, <1>2, <2>2, <2>3
<1> QED
  BY <1>7, <1>8, <1>9 DEF n

\* At the start nobody is connected.
LEMMA DiffInvInit == DiffInit => DiffInv
<1> SUFFICES ASSUME DiffInit PROVE DiffInv
  OBVIOUS
<1> QED
  BY DiffAssumption DEF DiffInit, DiffInv, DiffTypes

\* A broadcast is the last event every viewer it reaches sees.
LEMMA BroadcastSeen ==
  ASSUME DiffInv, DiffTypes', Broadcast, NEW v \in clients
  PROVE  InOrder(v)' /\ (~stalled'[v] => NothingMissed(v)')
<1>1. /\ v \in Viewers /\ events' = events + 1 /\ received'[v] = received[v] /\ joined'[v] = joined[v]
      /\ stalled'[v] = (stalled[v] \/ Full(v))
      /\ queue'[v] = IF Full(v) THEN queue[v] ELSE Append(queue[v], events + 1)
  BY DEF DiffInv, DiffTypes, Broadcast, Reached
<1>2. /\ received[v] \in Seq(Nat) /\ queue[v] \in Seq(Nat)
      /\ events \in Nat /\ joined[v] \in Nat /\ stalled[v] \in BOOLEAN
      /\ SeenBy(v) \in Seq(Nat) /\ Len(SeenBy(v)) \in Nat
      /\ DOMAIN SeenBy(v) = 1 .. Len(SeenBy(v))
  BY <1>1, ConcatProperties DEF DiffInv, DiffTypes, SeenBy
<1>3. InOrder(v) /\ (~stalled[v] => NothingMissed(v))
  BY DEF DiffInv
<1>4. CASE Full(v)
  <2>1. SeenBy(v)' = SeenBy(v) /\ stalled'[v]
    BY <1>1, <1>4 DEF SeenBy
  <2>2. \A i \in DOMAIN SeenBy(v) : SeenBy(v)[i] \in Nat /\ SeenBy(v)[i] <= events
    BY <1>2, <1>3 DEF InOrder
  <2> QED
    BY <1>1, <1>2, <1>3, <2>1, <2>2 DEF InOrder
<1>5. CASE ~Full(v)
  <2>1. SeenBy(v)' = received[v] \o Append(queue[v], events + 1)
    BY <1>1, <1>5 DEF SeenBy
  <2>2. PICK s, t, e, m : /\ s = SeenBy(v) /\ t = SeenBy(v)'
                          /\ e = events /\ m = joined[v] /\ e \in Nat /\ m \in Nat
    BY <1>2
  <2>3. s \in Seq(Nat) /\ t \in Seq(Nat)
    <3>1. received'[v] \in Seq(Nat) /\ queue'[v] \in Seq(Nat)
      BY <1>1 DEF DiffTypes
    <3> QED
      BY <1>2, <2>2, <3>1, ConcatProperties DEF SeenBy
  <2>4. /\ Len(t) = Len(s) + 1 /\ t[Len(s) + 1] = e + 1
        /\ \A i \in 1 .. Len(s) : t[i] = s[i]
    <3>1. PICK r \in Seq(Nat), q \in Seq(Nat), f \in Nat :
            r = received[v] /\ q = queue[v] /\ f = e + 1
      BY <1>2, <2>2
    <3>2. s = r \o q /\ t = r \o Append(q, f)
      BY <2>1, <2>2, <3>1 DEF SeenBy
    <3>3. r \in Seq(Nat) /\ q \in Seq(Nat) /\ f \in Nat
      OBVIOUS
    <3>4. /\ Len(r \o Append(q, f)) = Len(r \o q) + 1 /\ Len(r \o q) \in Nat
          /\ (r \o Append(q, f))[Len(r \o q) + 1] = f
          /\ \A i \in 1 .. Len(r \o q) :
               (r \o Append(q, f))[i] = (r \o q)[i] /\ (r \o q)[i] \in Nat
      BY <3>3, TailGrows, Zenon
    <3> QED
      BY <3>1, <3>2, <3>4
  <2>5. /\ \A i \in DOMAIN s : s[i] <= e
        /\ \A i, j \in DOMAIN s : i < j => s[i] < s[j]
    BY <1>3, <2>2 DEF InOrder
  <2>6. ~stalled[v] => Len(s) = e - m /\ \A i \in DOMAIN s : s[i] = m + i
    BY <1>3, <2>2 DEF NothingMissed
  <2>7. e \in Nat /\ m \in Nat
    BY <2>2
  <2>8. /\ \A i \in DOMAIN t : t[i] <= e + 1
        /\ \A i, j \in DOMAIN t : i < j => t[i] < t[j]
        /\ (Len(s) = e - m /\ \A i \in DOMAIN s : s[i] = m + i) =>
             (Len(t) = (e + 1) - m /\ \A i \in DOMAIN t : t[i] = m + i)
    BY <2>3, <2>4, <2>5, <2>7, LaterEvent, ZenonT(60)
  <2> QED
    BY <1>1, <1>2, <2>2, <2>6, <2>8 DEF InOrder, NothingMissed
<1> QED
  BY <1>4, <1>5

\* A broadcast adds the latest event to every channel with room, and a viewer
\* takes events from the head of its own.
LEMMA DiffStep == DiffInv /\ [DiffNext]_diffVars => DiffInv'
<1> SUFFICES ASSUME DiffInv, [DiffNext]_diffVars PROVE DiffInv'
  OBVIOUS
<1>0. DiffTypes /\ (\A v \in Viewers : Len(queue[v]) <= QueueSize) /\ QueueSize \in Nat \ {0}
  BY DiffAssumption DEF DiffInv
<1>1. CASE FireShadowRequest \/ MirrorEnds \/ UNCHANGED diffVars
  <2>1. UNCHANGED <<clients, closed, queue, received, events, joined, stalled>>
    BY <1>1 DEF FireShadowRequest, MirrorEnds, MirrorFails, MirrorAnswers, diffVars
  <2> QED
    BY <2>1 DEF DiffInv, DiffTypes, InOrder, NothingMissed, SeenBy
<1>2. CASE Broadcast
  <2>1. DiffTypes'
    BY <1>0, <1>2 DEF Broadcast, DiffTypes
  <2>2. \A v \in Viewers : Len(queue'[v]) <= QueueSize
    BY <1>0, <1>2 DEF Broadcast, Reached, Full, DiffTypes
  <2>3. clients' = clients
    BY <1>2 DEF Broadcast
  <2> QED
    BY <1>2, <2>1, <2>2, <2>3, BroadcastSeen DEF DiffInv
<1>3. ASSUME NEW v \in Viewers, AddClient(v) PROVE DiffInv'
  <2>1. /\ clients' = clients \cup {v} /\ closed' = closed \ {v} /\ events' = events
        /\ queue' = [queue EXCEPT ![v] = <<>>] /\ received' = [received EXCEPT ![v] = <<>>]
        /\ joined' = [joined EXCEPT ![v] = events] /\ stalled' = [stalled EXCEPT ![v] = FALSE]
    BY <1>3 DEF AddClient
  <2>2. DiffTypes' /\ \A w \in Viewers : Len(queue'[w]) <= QueueSize
    BY <1>0, <2>1 DEF DiffTypes
  <2>3. InOrder(v)' /\ NothingMissed(v)'
    <3>1. SeenBy(v)' = <<>> /\ events' - joined'[v] = 0
      BY <1>0, <2>1, ConcatEmptySeq DEF SeenBy, DiffTypes
    <3> QED
      BY <3>1 DEF InOrder, NothingMissed
  <2>4. ASSUME NEW w \in clients, w # v PROVE InOrder(w)' /\ (~stalled'[w] => NothingMissed(w)')
    <3>1. /\ SeenBy(w)' = SeenBy(w) /\ joined'[w] = joined[w] /\ stalled'[w] = stalled[w]
          /\ events' = events
      BY <1>0, <2>1, <2>4 DEF SeenBy, DiffTypes
    <3> QED
      BY <3>1 DEF DiffInv, InOrder, NothingMissed
  <2> QED
    BY <2>1, <2>2, <2>3, <2>4 DEF DiffInv
<1>4. ASSUME NEW v \in Viewers, Deliver(v) PROVE DiffInv'
  <2>1. /\ queue[v] # <<>> /\ UNCHANGED <<clients, closed, events, joined, stalled>>
        /\ received' = [received EXCEPT ![v] = Append(received[v], Head(queue[v]))]
        /\ queue' = [queue EXCEPT ![v] = Tail(queue[v])]
    BY <1>4 DEF Deliver
  <2>2. received[v] \in Seq(Nat) /\ queue[v] \in Seq(Nat) /\ Len(queue[v]) \in Nat
    BY <1>0 DEF DiffTypes
  <2>3. /\ Append(received[v], Head(queue[v])) \in Seq(Nat) /\ Tail(queue[v]) \in Seq(Nat)
        /\ Len(Tail(queue[v])) = Len(queue[v]) - 1
        /\ Append(received[v], Head(queue[v])) \o Tail(queue[v]) = received[v] \o queue[v]
    BY <2>1, <2>2, HeadMoves
  <2>4. DiffTypes'
    BY <1>0, <2>1, <2>3 DEF DiffTypes
  <2>5. \A w \in Viewers : Len(queue'[w]) <= QueueSize
    BY <1>0, <2>1, <2>2, <2>3 DEF DiffTypes
  <2>6. \A w \in Viewers : SeenBy(w)' = SeenBy(w)
    BY <1>0, <2>1, <2>3 DEF SeenBy, DiffTypes
  <2> QED
    BY <2>1, <2>4, <2>5, <2>6 DEF DiffInv, DiffTypes, InOrder, NothingMissed
<1>5. ASSUME NEW v \in Viewers, RemoveClient(v) PROVE DiffInv'
  <2>1. /\ clients' = clients \ {v} /\ closed' = closed \cup {v}
        /\ UNCHANGED <<queue, received, events, joined, stalled>>
    BY <1>5 DEF RemoveClient, Removed
  <2> QED
    BY <2>1 DEF DiffInv, DiffTypes, InOrder, NothingMissed, SeenBy
<1> QED
  BY <1>1, <1>2, <1>3, <1>4, <1>5 DEF DiffNext

\* A viewer sees the events since it connected in their order, each once, and
\* all of them unless its own channel was full (diff_stream.go:55-57).
THEOREM ViewersSee == DiffSpec => []SeesEvents
<1>1. DiffInv => SeesEvents
  <2> SUFFICES ASSUME DiffInv, NEW v \in clients
               PROVE  /\ \A i, j \in DOMAIN SeenBy(v) : i < j => SeenBy(v)[i] < SeenBy(v)[j]
                      /\ ~stalled[v] =>
                           SeenBy(v) = [i \in 1 .. events - joined[v] |-> joined[v] + i]
    BY DEF SeesEvents, SeenBy
  <2>1. SeenBy(v) \in Seq(Nat)
    BY ConcatProperties DEF DiffInv, DiffTypes, SeenBy
  <2>2. DOMAIN SeenBy(v) = 1 .. Len(SeenBy(v)) /\ SeenBy(v) = [i \in DOMAIN SeenBy(v) |-> SeenBy(v)[i]]
    BY <2>1
  <2> QED
    BY <2>2 DEF DiffInv, InOrder, NothingMissed
<1> QED
  BY DiffInvInit, DiffStep, <1>1, PTL DEF DiffSpec

----------------------------------------------------------------------------
(* The audit trail.                                                        *)

Batch == [by : {"ticker", "record"}, records : Seq(Nat), posted : BOOLEAN]

AuditTypes ==
  /\ buffer \in Seq(Nat) /\ shipped \in Seq(Nat)
  /\ batches \subseteq Batch
  /\ started \in 0 .. MaxFlushes /\ emitted \in Nat /\ boot \in Nat /\ boot <= emitted

\* Where each record is, and that it is there once.
Places ==
  /\ IsInjective(buffer) /\ IsInjective(shipped)
  /\ \A b \in batches : IsInjective(b.records)
  /\ \A b, c \in batches : b # c => ToSet(b.records) \cap ToSet(c.records) = {}
  /\ ToSet(buffer) \cup InFlight \cup ToSet(shipped) \cup lost = 1 .. emitted
  /\ ToSet(buffer) \cap InFlight = {} /\ ToSet(buffer) \cap ToSet(shipped) = {}
  /\ ToSet(buffer) \cap lost = {} /\ InFlight \cap ToSet(shipped) = {}
  /\ InFlight \cap lost = {} /\ ToSet(shipped) \cap lost = {}

\* The cells of the ring: those before the index were written last, in order;
\* the others, once it is full, in the round before.
RingInv ==
  /\ ring.index \in 0 .. RingSize - 1 /\ ring.count \in 0 .. RingSize
  /\ ring.count = IF emitted - boot < RingSize THEN emitted - boot ELSE RingSize
  /\ ring.count < RingSize => ring.index = ring.count
  /\ DOMAIN ring.at = 0 .. RingSize - 1
  /\ \A c \in 0 .. RingSize - 1 :
       /\ c < ring.index => ring.at[c] = emitted - ring.index + 1 + c
       /\ c >= ring.index /\ ring.count = RingSize =>
            ring.at[c] = emitted - ring.index + 1 + c - RingSize

FlushComes == Len(buffer) >= Threshold => started > 0

AuditInv == AuditTypes /\ Places /\ RingInv /\ FlushComes

\* A place on a ring, one round on at most.
LEMMA OnRing ==
  ASSUME NEW n \in Nat \ {0}, NEW x \in Nat, x < 2 * n
  PROVE  x % n = IF x < n THEN x ELSE x - n
OBVIOUS

\* A record at the end of a sequence.
LEMMA AppendPlaces ==
  ASSUME NEW s \in Seq(Nat), NEW e \in Nat
  PROVE  /\ Append(s, e) \in Seq(Nat) /\ Len(Append(s, e)) = Len(s) + 1
         /\ ToSet(Append(s, e)) = ToSet(s) \cup {e}
         /\ IsInjective(s) /\ e \notin ToSet(s) => IsInjective(Append(s, e))
<1> DEFINE a == Append(s, e)
<1>1. /\ a \in Seq(Nat) /\ Len(a) = Len(s) + 1 /\ a[Len(s) + 1] = e
      /\ \A i \in 1 .. Len(s) : a[i] = s[i]
      /\ DOMAIN s = 1 .. Len(s) /\ DOMAIN a = 1 .. Len(s) + 1 /\ Len(s) \in Nat
  OBVIOUS
<1> HIDE DEF a
<1>2. \A i \in DOMAIN a : i \in DOMAIN s \/ i = Len(s) + 1
  BY <1>1
<1>3. DOMAIN s \subseteq DOMAIN a /\ Len(s) + 1 \in DOMAIN a
  BY <1>1
<1>4. ToSet(a) = ToSet(s) \cup {e}
  BY <1>1, <1>2, <1>3 DEF ToSet
<1>5. ASSUME IsInjective(s), e \notin ToSet(s) PROVE IsInjective(a)
  <2>1. \A i \in DOMAIN s : s[i] # e /\ a[i] = s[i]
    BY <1>1, <1>5 DEF ToSet
  <2> QED
    BY <1>1, <1>2, <1>5, <2>1 DEF IsInjective
<1> QED
  BY <1>1, <1>4, <1>5 DEF a

\* The records of two sequences, one behind the other.
LEMMA ConcatPlaces ==
  ASSUME NEW s \in Seq(Nat), NEW t \in Seq(Nat)
  PROVE  /\ s \o t \in Seq(Nat) /\ ToSet(s \o t) = ToSet(s) \cup ToSet(t)
         /\ IsInjective(s) /\ IsInjective(t) /\ ToSet(s) \cap ToSet(t) = {} =>
              IsInjective(s \o t)
<1> DEFINE c == s \o t
<1>1. /\ Len(s) \in Nat /\ Len(t) \in Nat
      /\ DOMAIN s = 1 .. Len(s) /\ DOMAIN t = 1 .. Len(t)
  OBVIOUS
<1>2. /\ c \in Seq(Nat) /\ Len(c) = Len(s) + Len(t)
      /\ \A i \in 1 .. Len(s) + Len(t) :
           c[i] = IF i <= Len(s) THEN s[i] ELSE t[i - Len(s)]
  BY ConcatProperties
<1> HIDE DEF c
<1>3. DOMAIN c = 1 .. Len(s) + Len(t)
  BY <1>2
<1>4. \A i \in DOMAIN s : i \in DOMAIN c /\ c[i] = s[i]
  BY <1>1, <1>2, <1>3
<1>5. ASSUME NEW i \in DOMAIN t PROVE i + Len(s) \in DOMAIN c /\ c[i + Len(s)] = t[i]
  <2>1. /\ i \in Nat /\ i + Len(s) \in 1 .. Len(s) + Len(t)
        /\ ~(i + Len(s) <= Len(s)) /\ (i + Len(s)) - Len(s) = i
    BY <1>1
  <2> QED
    BY <1>2, <1>3, <2>1
<1>6. ASSUME NEW i \in DOMAIN c
      PROVE  \/ i \in DOMAIN s /\ c[i] = s[i]
             \/ \E j \in DOMAIN t : i = j + Len(s) /\ c[i] = t[j]
  <2>1. CASE i <= Len(s)
    BY <1>1, <1>2, <1>3, <2>1
  <2>2. CASE i > Len(s)
    <3>1. i - Len(s) \in DOMAIN t /\ i = (i - Len(s)) + Len(s) /\ c[i] = t[i - Len(s)]
      BY <1>1, <1>2, <1>3, <2>2
    <3> QED
      BY <3>1
  <2> QED
    BY <1>1, <1>3, <2>1, <2>2
<1>7. ToSet(c) = ToSet(s) \cup ToSet(t)
  BY <1>4, <1>5, <1>6 DEF ToSet
<1>8. ASSUME IsInjective(s), IsInjective(t), ToSet(s) \cap ToSet(t) = {}
      PROVE  IsInjective(c)
  <2>1. \A i \in DOMAIN s : \A j \in DOMAIN t : s[i] # t[j]
    BY <1>8 DEF ToSet
  <2> QED
    BY <1>6, <1>8, <2>1 DEF IsInjective
<1> QED
  BY <1>2, <1>7, <1>8 DEF c

\* At the start there are no records.
LEMMA AuditStart == AuditInit => AuditInv
<1> SUFFICES ASSUME AuditInit PROVE AuditInv
  OBVIOUS
<1>1. /\ buffer = <<>> /\ shipped = <<>> /\ batches = {} /\ lost = {}
      /\ started = 0 /\ emitted = 0 /\ boot = 0
  BY DEF AuditInit
<1>2. AuditTypes
  BY <1>1, AuditAssumption DEF AuditTypes
<1>3. Places
  <2>1. ToSet(buffer) = {} /\ ToSet(shipped) = {} /\ InFlight = {}
    BY <1>1 DEF ToSet, InFlight
  <2>2. 1 .. emitted = {}
    BY <1>1
  <2> QED
    BY <1>1, <2>1, <2>2 DEF Places, IsInjective
<1>4. RingInv
  BY <1>1, AuditAssumption DEF AuditInit, Fresh, RingInv
<1>5. FlushComes
  BY <1>1, AuditAssumption DEF FlushComes
<1> QED
  BY <1>2, <1>3, <1>4, <1>5 DEF AuditInv

\* What is in flight without one batch.
LEMMA FlightWithout ==
  ASSUME Places, NEW b \in batches
  PROVE  /\ ToSet(b.records) \subseteq InFlight
         /\ UNION {ToSet(c.records) : c \in batches \ {b}} = InFlight \ ToSet(b.records)
BY DEF Places, InFlight

\* A flush takes all of the buffer to one place.
LEMMA FlushPlaces ==
  ASSUME AuditTypes, Places, NEW by \in {"ticker", "record"}, Flush(by), UNCHANGED <<shipped, lost, emitted>>
  PROVE  /\ Places' /\ buffer' = <<>>
         /\ batches' \subseteq Batch
<1>0. ToSet(<<>>) = {} /\ IsInjective(<<>>)
  BY DEF ToSet, IsInjective
<1>1. CASE buffer = <<>>
  <2>1. UNCHANGED <<buffer, batches, lost>>
    BY <1>1 DEF Flush
  <2> QED
    BY <1>1, <2>1 DEF AuditTypes, Places, InFlight
<1>2. CASE buffer # <<>>
  <2> DEFINE new == [by |-> by, records |-> buffer, posted |-> FALSE]
  <2>1. buffer' = <<>> /\ batches' = batches \cup {new} /\ lost' = lost
    BY <1>2 DEF Flush, Emptied
  <2>2. new.records = buffer /\ new \in Batch
    BY DEF AuditTypes, Batch
  <2> HIDE DEF new
  <2>3. InFlight' = InFlight \cup ToSet(buffer)
    BY <2>1, <2>2 DEF InFlight
  <2>4. \A b \in batches : ToSet(b.records) \cap ToSet(new.records) = {}
    BY <2>2 DEF Places, InFlight
  <2>5. /\ \A b \in batches' : IsInjective(b.records) /\ b \in Batch
        /\ \A b, c \in batches' : b # c => ToSet(b.records) \cap ToSet(c.records) = {}
    BY <2>1, <2>2, <2>4 DEF AuditTypes, Places
  <2> QED
    BY <1>0, <2>1, <2>3, <2>5 DEF Places
<1> QED
  BY <1>1, <1>2

\* A batch that is dropped takes its records to the lost ones.
LEMMA DropPlaces ==
  ASSUME AuditTypes, Places, NEW b \in batches, Drop(b),
         UNCHANGED <<buffer, started, emitted, boot>>
  PROVE  AuditTypes' /\ Places'
<1>1. /\ batches' = batches \ {b} /\ lost' = lost \cup ToSet(b.records)
      /\ UNCHANGED shipped
  BY DEF Drop
<1>2. /\ ToSet(b.records) \subseteq InFlight
      /\ InFlight' = InFlight \ ToSet(b.records)
  BY <1>1, FlightWithout DEF InFlight
<1> QED
  BY <1>1, <1>2 DEF AuditTypes, Places

\* A batch that is posted is still in flight.
LEMMA PostPlaces ==
  ASSUME AuditTypes, Places, NEW b \in batches, ~b.posted,
         batches' = (batches \ {b}) \cup {[b EXCEPT !.posted = TRUE]},
         UNCHANGED <<buffer, started, shipped, lost, emitted, boot>>
  PROVE  AuditTypes' /\ Places'
<1> DEFINE sent == [b EXCEPT !.posted = TRUE]
<1>1. sent.records = b.records /\ sent \in Batch
  BY DEF AuditTypes, Batch
<1>2. batches' = (batches \ {b}) \cup {sent}
  OBVIOUS
<1> HIDE DEF sent
<1>3. \A c \in batches \ {b} : ToSet(c.records) \cap ToSet(sent.records) = {}
  BY <1>1 DEF Places
<1>4. /\ \A c \in batches' : IsInjective(c.records) /\ c \in Batch
      /\ \A c, d \in batches' : c # d => ToSet(c.records) \cap ToSet(d.records) = {}
  BY <1>1, <1>2, <1>3 DEF AuditTypes, Places
<1>5. InFlight' = InFlight
  BY <1>1, <1>2 DEF InFlight
<1> QED
  BY <1>4, <1>5 DEF AuditTypes, Places

\* A record leaves one place for one other.
LEMMA PlacesStep ==
  ASSUME AuditTypes, Places, [AuditNext]_auditVars
  PROVE  AuditTypes' /\ Places'
<1>1. CASE EmitAuditRecord
  <2>1. /\ emitted' = emitted + 1 /\ buffer' = Append(buffer, emitted + 1)
        /\ started' \in {started, started + 1} /\ started < MaxFlushes
        /\ UNCHANGED <<batches, shipped, lost, boot>>
    BY <1>1 DEF EmitAuditRecord
  <2>2. /\ emitted + 1 \in Nat /\ emitted + 1 \notin 1 .. emitted
        /\ 1 .. emitted + 1 = (1 .. emitted) \cup {emitted + 1}
    BY DEF AuditTypes
  <2>3. emitted + 1 \notin ToSet(buffer) \cup InFlight \cup ToSet(shipped) \cup lost
    BY <2>2 DEF Places
  <2>4. /\ buffer' \in Seq(Nat) /\ ToSet(buffer') = ToSet(buffer) \cup {emitted + 1}
        /\ IsInjective(buffer')
    BY <2>1, <2>2, <2>3, AppendPlaces DEF AuditTypes, Places
  <2>5. InFlight' = InFlight
    BY <2>1 DEF InFlight
  <2>6. AuditTypes'
    BY <2>1, <2>4, AuditAssumption DEF AuditTypes
  <2>7. ToSet(buffer') \cup InFlight' \cup ToSet(shipped') \cup lost' = 1 .. emitted'
    BY <2>1, <2>2, <2>4, <2>5 DEF Places
  <2>8. /\ ToSet(buffer') \cap InFlight' = {} /\ ToSet(buffer') \cap ToSet(shipped') = {}
        /\ ToSet(buffer') \cap lost' = {} /\ InFlight' \cap ToSet(shipped') = {}
        /\ InFlight' \cap lost' = {} /\ ToSet(shipped') \cap lost' = {}
    BY <2>1, <2>3, <2>4, <2>5 DEF Places
  <2> QED
    BY <2>1, <2>4, <2>6, <2>7, <2>8 DEF Places
<1>2. ASSUME NEW by \in {"ticker", "record"}, Flush(by), UNCHANGED <<shipped, lost, emitted, boot>>,
             started' \in 0 .. MaxFlushes
      PROVE  AuditTypes' /\ Places'
  <2>1. /\ Places' /\ buffer' = <<>> /\ batches' \subseteq Batch
    BY <1>2, FlushPlaces
  <2> QED
    BY <1>2, <2>1 DEF AuditTypes
<1>3. ASSUME NEW b \in batches, Accept(b) PROVE AuditTypes' /\ Places'
  <2>1. /\ batches' = batches \ {b} /\ shipped' = shipped \o b.records
        /\ UNCHANGED <<buffer, started, lost, emitted, boot>>
    BY <1>3 DEF Accept
  <2>2. /\ ToSet(b.records) \subseteq InFlight
        /\ InFlight' = InFlight \ ToSet(b.records)
    BY <2>1, FlightWithout DEF InFlight
  <2>3. /\ b.records \in Seq(Nat) /\ shipped \in Seq(Nat)
        /\ IsInjective(b.records) /\ IsInjective(shipped)
        /\ ToSet(shipped) \cap ToSet(b.records) = {}
    BY <2>2 DEF AuditTypes, Batch, Places
  <2>4. /\ shipped' \in Seq(Nat) /\ IsInjective(shipped')
        /\ ToSet(shipped') = ToSet(shipped) \cup ToSet(b.records)
    BY <2>1, <2>3, ConcatPlaces
  <2>5. AuditTypes'
    BY <2>1, <2>4 DEF AuditTypes
  <2>6. ToSet(buffer') \cup InFlight' \cup ToSet(shipped') \cup lost' = 1 .. emitted'
    BY <2>1, <2>2, <2>4 DEF Places
  <2> QED
    BY <2>1, <2>2, <2>4, <2>5, <2>6 DEF Places
<1>4. ASSUME NEW b \in batches, Reject(b) PROVE AuditTypes' /\ Places'
  BY <1>4, DropPlaces DEF Reject
<1>5. ASSUME NEW b \in batches, Post(b) PROVE AuditTypes' /\ Places'
  BY <1>5, DropPlaces, PostPlaces DEF Post
<1>6. CASE AuditRestart
  <2>1. /\ lost' = lost \cup ToSet(buffer) \cup InFlight
        /\ buffer' = <<>> /\ batches' = {} /\ started' = 0 /\ boot' = emitted
        /\ UNCHANGED <<shipped, emitted>>
    BY <1>6 DEF AuditRestart
  <2>2. ToSet(buffer') = {} /\ IsInjective(buffer') /\ InFlight' = {}
    BY <2>1 DEF ToSet, IsInjective, InFlight
  <2> QED
    BY <2>1, <2>2, AuditAssumption DEF AuditTypes, Places
<1>7. CASE UNCHANGED auditVars
  BY <1>7 DEF auditVars, AuditTypes, Places, InFlight
<1>8. CASE AuditReload
  BY <1>8 DEF AuditReload, AuditTypes, Places, InFlight
<1>9. CASE TickerFlush
  BY <1>2, <1>9 DEF TickerFlush, AuditTypes
<1>10. CASE StartedFlush
  <2>1. started' \in 0 .. MaxFlushes
    BY <1>10, AuditAssumption DEF StartedFlush, AuditTypes
  <2> QED
    BY <1>2, <1>10, <2>1 DEF StartedFlush
<1> QED
  BY <1>1, <1>3, <1>4, <1>5, <1>6, <1>7, <1>8, <1>9, <1>10 DEF AuditNext, Settle

\* A record goes to the cell of the index; the others stay where they are.
LEMMA RingStep ==
  ASSUME AuditTypes, RingInv, [AuditNext]_auditVars
  PROVE  RingInv'
<1>0. RingSize \in Nat \ {0} /\ emitted \in Nat /\ boot \in Nat /\ boot <= emitted
  BY AuditAssumption DEF AuditTypes
<1>1. CASE EmitAuditRecord
  <2>1. /\ ring'.at = [ring.at EXCEPT ![ring.index] = emitted + 1]
        /\ ring'.index = (ring.index + 1) % RingSize
        /\ ring'.count = IF ring.count < RingSize THEN ring.count + 1 ELSE ring.count
        /\ emitted' = emitted + 1 /\ boot' = boot
    BY <1>1 DEF EmitAuditRecord, NextCount
  <2>2. ring.index + 1 \in Nat /\ ring.index + 1 < 2 * RingSize
    BY <1>0 DEF RingInv
  <2>3. ring'.index = IF ring.index + 1 < RingSize THEN ring.index + 1
                     ELSE (ring.index + 1) - RingSize
    <3>1. PICK x : x = ring.index + 1
      OBVIOUS
    <3>2. x % RingSize = IF x < RingSize THEN x ELSE x - RingSize
      BY <1>0, <2>2, <3>1, OnRing, Zenon
    <3> QED
      BY <2>1, <3>1, <3>2
  <2>4. /\ DOMAIN ring'.at = 0 .. RingSize - 1 /\ ring'.at[ring.index] = emitted + 1
        /\ \A c \in 0 .. RingSize - 1 : c # ring.index => ring'.at[c] = ring.at[c]
    BY <1>0, <2>1 DEF RingInv
  <2>5. /\ ring'.index \in 0 .. RingSize - 1 /\ ring'.count \in 0 .. RingSize
        /\ ring'.count = IF emitted' - boot' < RingSize THEN emitted' - boot' ELSE RingSize
        /\ ring'.count < RingSize => ring'.index = ring'.count
    BY <1>0, <2>1, <2>3 DEF RingInv
  <2>6. ASSUME NEW c \in 0 .. RingSize - 1
        PROVE  /\ c < ring'.index => ring'.at[c] = emitted' - ring'.index + 1 + c
               /\ c >= ring'.index /\ ring'.count = RingSize =>
                    ring'.at[c] = emitted' - ring'.index + 1 + c - RingSize
    <3>1. /\ c < ring.index => ring.at[c] = emitted - ring.index + 1 + c
          /\ c >= ring.index /\ ring.count = RingSize =>
               ring.at[c] = emitted - ring.index + 1 + c - RingSize
          /\ ring.index \in 0 .. RingSize - 1 /\ ring.count \in 0 .. RingSize
          /\ ring.count < RingSize => ring.index = ring.count
      BY DEF RingInv
    <3>0. /\ ring'.count = IF ring.count < RingSize THEN ring.count + 1 ELSE ring.count
          /\ emitted' = emitted + 1
      BY <2>1
    <3>2. CASE c = ring.index
      <4>1. ring'.at[c] = emitted + 1
        BY <2>4, <3>2
      <4> QED
        BY <1>0, <2>3, <3>0, <3>1, <3>2, <4>1
    <3>3. CASE c # ring.index
      <4>1. ring'.at[c] = ring.at[c]
        BY <2>4, <3>3
      <4>2. CASE ring.index + 1 < RingSize
        <5>1. ring'.index = ring.index + 1 /\ (ring'.count = RingSize => ring.count = RingSize)
          BY <1>0, <2>3, <3>0, <3>1, <4>2
        <5>2. c < ring'.index => c < ring.index
          BY <1>0, <3>1, <3>3, <5>1
        <5>3. c >= ring'.index => c >= ring.index
          BY <1>0, <3>1, <5>1
        <5>4. /\ emitted' - ring'.index + 1 + c = emitted - ring.index + 1 + c
              /\ emitted' - ring'.index + 1 + c - RingSize = emitted - ring.index + 1 + c - RingSize
          BY <1>0, <3>0, <3>1, <5>1
        <5> QED
          BY <3>1, <4>1, <5>1, <5>2, <5>3, <5>4
      <4>3. CASE ring.index + 1 = RingSize
        <5>1. ring'.index = 0 /\ c < ring.index
          BY <1>0, <2>3, <3>1, <3>3, <4>3
        <5>2. ring'.at[c] = emitted - ring.index + 1 + c
          BY <3>1, <4>1, <5>1
        <5> QED
          BY <1>0, <3>0, <3>1, <4>3, <5>1, <5>2
      <4> QED
        BY <1>0, <3>1, <4>2, <4>3
    <3> QED
      BY <3>2, <3>3
  <2> QED
    BY <2>4, <2>5, <2>6 DEF RingInv
<1>2. CASE TickerFlush \/ StartedFlush \/ Settle \/ AuditReload \/ UNCHANGED auditVars
  <2>1. UNCHANGED <<ring, emitted, boot>>
    BY <1>2 DEF TickerFlush, StartedFlush, Settle, Post, Accept, Reject, AuditReload,
       auditVars
  <2> QED
    BY <2>1 DEF RingInv
<1>3. CASE AuditRestart
  BY <1>0, <1>3 DEF AuditRestart, Fresh, RingInv
<1> QED
  BY <1>1, <1>2, <1>3 DEF AuditNext

\* The record that reaches the threshold starts a flush, and every flush empties
\* the buffer.
LEMMA FlushStep ==
  ASSUME AuditTypes, Places, FlushComes, [AuditNext]_auditVars
  PROVE  FlushComes'
<1>0. Threshold \in Nat \ {0} /\ started \in Nat /\ Len(buffer) \in Nat
  BY AuditAssumption DEF AuditTypes
<1>1. CASE EmitAuditRecord
  <2>1. /\ Len(buffer') = Len(buffer) + 1
        /\ started' = IF Len(buffer) + 1 >= Threshold THEN started + 1 ELSE started
    BY <1>1 DEF EmitAuditRecord, ShouldFlush, AuditTypes
  <2> QED
    BY <1>0, <2>1 DEF FlushComes
<1>2. CASE TickerFlush \/ StartedFlush \/ AuditRestart
  <2>1. buffer' = <<>>
    BY <1>2 DEF TickerFlush, StartedFlush, AuditRestart, Flush, Emptied
  <2> QED
    BY <1>0, <2>1 DEF FlushComes
<1>3. CASE Settle \/ AuditReload \/ UNCHANGED auditVars
  BY <1>3 DEF Settle, Post, Accept, Reject, AuditReload, auditVars, FlushComes
<1> QED
  BY <1>1, <1>2, <1>3 DEF AuditNext

\* Every step keeps the three together.
LEMMA AuditStep == AuditInv /\ [AuditNext]_auditVars => AuditInv'
BY PlacesStep, RingStep, FlushStep DEF AuditInv

\* They hold in every reachable state.
LEMMA AuditInvariant == AuditSpec => []AuditInv
BY AuditStart, AuditStep, PTL DEF AuditSpec

\* Whatever flushes run at once and whatever restarts there are, a record is in
\* exactly one place and the sink never gets it twice (audit.go:119-120).
THEOREM OnePlace == AuditSpec => []ExactlyOnePlace
<1>1. AuditInv => ExactlyOnePlace
  <2> SUFFICES ASSUME Places PROVE ExactlyOnePlace
    BY DEF AuditInv
  <2> DEFINE places == <<ToSet(buffer), InFlight, ToSet(shipped), lost>>
  <2>1. DOMAIN places = 1 .. 4
    OBVIOUS
  <2>2. UNION Range(places) = 1 .. emitted
    BY <2>1 DEF Places, Range
  <2>3. \A i, j \in DOMAIN places : i # j => places[i] \cap places[j] = {}
    BY <2>1 DEF Places
  <2> QED
    BY <2>2, <2>3 DEF ExactlyOnePlace, Places
<1> QED
  BY <1>1, AuditInvariant, PTL

\* The dashboard shows the last records of this run of the daemon, in their
\* order (audit.go:99-108).
THEOREM RingRecent == AuditSpec => []RingIsRecent
<1>1. AuditInv => RingIsRecent
  <2> SUFFICES ASSUME AuditTypes, RingInv, NEW i \in 1 .. ring.count
               PROVE  (IF ring.count < RingSize THEN ring.at[i - 1] ELSE FromOldest(i - 1))
                        = emitted - ring.count + i
    BY DEF AuditInv, RingIsRecent, GetRecentAuditRecords
  <2>0. /\ RingSize \in Nat \ {0} /\ emitted \in Nat /\ i \in Nat /\ 1 <= i /\ i <= ring.count
        /\ ring.index \in Nat /\ ring.index < RingSize
        /\ ring.count \in Nat /\ ring.count <= RingSize
        /\ ring.count < RingSize => ring.index = ring.count
    BY AuditAssumption DEF AuditTypes, RingInv
  <2>1. CASE ring.count < RingSize
    <3>1. i - 1 \in 0 .. RingSize - 1 /\ i - 1 < ring.index
      BY <2>0, <2>1
    <3>2. ring.at[i - 1] = emitted - ring.index + 1 + (i - 1)
      BY <3>1 DEF RingInv
    <3> QED
      BY <2>0, <2>1, <3>2
  <2>2. CASE ring.count = RingSize
    <3> DEFINE x == ring.index + (i - 1)
               c == IF x < RingSize THEN x ELSE x - RingSize
    <3>1. x \in Nat /\ x < 2 * RingSize
      BY <2>0, <2>2
    <3>2. x % RingSize = c
      <4> HIDE DEF x
      <4> QED
        BY <2>0, <3>1, OnRing, Zenon
    <3>3. c \in 0 .. RingSize - 1
      BY <2>0, <3>1
    <3>4. /\ c < ring.index => ring.at[c] = emitted - ring.index + 1 + c
          /\ c >= ring.index => ring.at[c] = emitted - ring.index + 1 + c - RingSize
      <4> HIDE DEF c
      <4> QED
        BY <2>2, <3>3 DEF RingInv
    <3>5. FromOldest(i - 1) = ring.at[c]
      <4> HIDE DEF c
      <4> QED
        BY <3>2 DEF FromOldest
    <3>6. ring.at[c] = emitted - ring.count + i
      <4>1. CASE x < RingSize
        <5>1. c = x /\ c >= ring.index
          BY <2>0, <4>1
        <5> QED
          BY <2>0, <2>2, <3>4, <5>1
      <4>2. CASE x >= RingSize
        <5>1. c = x - RingSize /\ c < ring.index
          BY <2>0, <2>2, <4>2
        <5> QED
          BY <2>0, <2>2, <3>4, <5>1
      <4> QED
        BY <3>1, <2>0, <4>1, <4>2
    <3>7. ~(ring.count < RingSize)
      BY <2>0, <2>2
    <3> QED
      BY <3>5, <3>6, <3>7
  <2> QED
    BY <2>0, <2>1, <2>2
<1> QED
  BY <1>1, AuditInvariant, PTL

\* A buffer at the threshold has a flush coming (audit.go:80).
THEOREM FlushIsComing == AuditSpec => []FullBufferHasFlush
<1>1. AuditInv => FullBufferHasFlush
  BY DEF AuditInv, FlushComes, FullBufferHasFlush
<1> QED
  BY <1>1, AuditInvariant, PTL

----------------------------------------------------------------------------
(* The cache.                                                              *)

\* The bodies that are sent, possibly after a failover, and what is stored.
Sent == UNION {{[b EXCEPT !.model = m] : m \in Models(b)} : b \in Bodies}
Entries == {[key |-> KeyOf(b), body |-> b, born |-> n] : b \in Sent, n \in Nat}

\* A request has a body of a client, and what it found has the same key.
AskerOK(s) ==
  /\ DOMAIN s = {"at", "body", "found", "old"}
  /\ s.at \in {"idle", "found", "ask", "answered"}
  /\ s.at # "idle" => s.body \in Bodies
  /\ s.at \in {"found", "answered"} => s.found \in Sent /\ KeyOf(s.found) = KeyOf(s.body)

OwnKeys(s) == \A i, j \in DOMAIN s : s[i].key = s[j].key => i = j

\* Every key is stored once. What was stored before the clear that is under
\* way has still to be deleted by it, and what was stored before the last that
\* succeeded is gone, but for what a deletion that failed left.
CacheInv ==
  /\ backend \in {"memory", "redis"}
  /\ store \in Seq(Entries) /\ OwnKeys(store)
  /\ expired \in Nat /\ expired <= Len(store)
  /\ begun \in Nat /\ ended \in Nat /\ ended <= begun
  /\ DOMAIN asker = Askers
  /\ \A a \in Askers : AskerOK(asker[a])
  /\ backend = "memory" => Len(store) <= MaxEntries /\ ~clearing
  /\ \A i \in DOMAIN store : ended <= store[i].born \/ store[i].key \in spared
  /\ clearing => \A i \in DOMAIN store :
                  store[i].born < begun => store[i].key \in sweep \cup spared

\* A sequence of entries without one of its elements.
LEMMA EntryRemoved ==
  ASSUME NEW S, NEW s \in Seq(S), NEW n \in 1 .. Len(s), OwnKeys(s)
  PROVE  /\ RemoveAt(s, n) \in Seq(S) /\ Len(RemoveAt(s, n)) = Len(s) - 1
         /\ OwnKeys(RemoveAt(s, n))
         /\ \A i \in DOMAIN RemoveAt(s, n) : \E j \in DOMAIN s \ {n} : RemoveAt(s, n)[i] = s[j]
<1> DEFINE a == SubSeq(s, 1, n - 1)
           b == SubSeq(s, n + 1, Len(s))
<1>0. Len(s) \in Nat /\ n \in Nat /\ 1 <= n /\ n <= Len(s) /\ DOMAIN s = 1 .. Len(s)
  OBVIOUS
<1>1. a \in Seq(S) /\ Len(a) = n - 1 /\ \A j \in 1 .. n - 1 : a[j] = s[j]
  OBVIOUS
<1>2. /\ b \in Seq(S) /\ Len(b) = Len(s) - n
      /\ \A j \in 1 .. Len(s) - n : b[j] = s[n + j]
  OBVIOUS
<1>3. RemoveAt(s, n) = a \o b
  BY DEF RemoveAt
<1> HIDE DEF a, b
<1>4. /\ a \o b \in Seq(S) /\ Len(a \o b) = Len(s) - 1
      /\ \A j \in 1 .. Len(s) - 1 :
           /\ j <= n - 1 => (a \o b)[j] = s[j]
           /\ j > n - 1 => (a \o b)[j] = s[j + 1]
  <2>1. /\ a \o b \in Seq(S) /\ Len(a \o b) = Len(a) + Len(b)
        /\ \A j \in 1 .. Len(a) + Len(b) :
             (a \o b)[j] = IF j <= Len(a) THEN a[j] ELSE b[j - Len(a)]
    BY <1>1, <1>2, ConcatProperties
  <2>2. Len(a) + Len(b) = Len(s) - 1
    BY <1>0, <1>1, <1>2
  <2>3. ASSUME NEW j \in 1 .. Len(s) - 1, j > n - 1 PROVE (a \o b)[j] = s[j + 1]
    <3>1. (a \o b)[j] = b[j - (n - 1)]
      BY <1>0, <1>1, <2>1, <2>2, <2>3
    <3>2. j - (n - 1) \in 1 .. Len(s) - n /\ n + (j - (n - 1)) = j + 1
      BY <1>0, <2>3
    <3> QED
      BY <1>2, <3>1, <3>2
  <2>4. ASSUME NEW j \in 1 .. Len(s) - 1, j <= n - 1 PROVE (a \o b)[j] = s[j]
    BY <1>0, <1>1, <2>1, <2>2, <2>4
  <2> QED
    BY <2>1, <2>2, <2>3, <2>4
<1>5. DOMAIN (a \o b) = 1 .. Len(s) - 1
  BY <1>4
<1> DEFINE place(j) == IF j <= n - 1 THEN j ELSE j + 1
<1>6. ASSUME NEW j \in 1 .. Len(s) - 1
      PROVE  place(j) \in 1 .. Len(s) /\ place(j) # n /\ (a \o b)[j] = s[place(j)]
  <2>0. j \in Nat /\ (j <= n - 1 \/ j > n - 1)
    BY <1>0
  <2>1. CASE j <= n - 1
    <3>1. place(j) = j /\ j \in 1 .. Len(s) /\ j # n
      BY <1>0, <2>1
    <3> QED
      BY <1>4, <2>1, <3>1
  <2>2. CASE j > n - 1
    <3>1. place(j) = j + 1 /\ j + 1 \in 1 .. Len(s) /\ j + 1 # n
      BY <1>0, <2>0, <2>2
    <3> QED
      BY <1>4, <2>2, <3>1
  <2> QED
    BY <2>0, <2>1, <2>2
<1>7. \A j, k \in 1 .. Len(s) - 1 : place(j) = place(k) => j = k
  BY <1>0
<1> HIDE DEF place
<1>8. OwnKeys(a \o b)
  <2> SUFFICES ASSUME NEW j \in 1 .. Len(s) - 1, NEW k \in 1 .. Len(s) - 1,
                      (a \o b)[j].key = (a \o b)[k].key
               PROVE  j = k
    BY <1>5 DEF OwnKeys
  <2>1. place(j) \in DOMAIN s /\ place(k) \in DOMAIN s /\ s[place(j)].key = s[place(k)].key
    BY <1>0, <1>6
  <2> QED
    BY <1>7, <2>1 DEF OwnKeys
<1>9. \A i \in DOMAIN (a \o b) : \E j \in DOMAIN s \ {n} : (a \o b)[i] = s[j]
  BY <1>0, <1>5, <1>6
<1> QED
  BY <1>3, <1>4, <1>8, <1>9

\* After the deletion nothing has the key, and nothing else is gone or new.
LEMMA DeletedFacts ==
  ASSUME NEW S, NEW s \in Seq(S), OwnKeys(s), NEW k
  PROVE  /\ Deleted(s, k) \in Seq(S) /\ Len(Deleted(s, k)) <= Len(s)
         /\ OwnKeys(Deleted(s, k))
         /\ \A i \in DOMAIN Deleted(s, k) :
              /\ Deleted(s, k)[i].key # k
              /\ \E j \in DOMAIN s : Deleted(s, k)[i] = s[j]
<1> DEFINE at == {i \in DOMAIN s : s[i].key = k}
           n == CHOOSE i \in at : TRUE
<1>0. Len(s) \in Nat /\ DOMAIN s = 1 .. Len(s)
  OBVIOUS
<1>1. CASE at = {}
  BY <1>0, <1>1 DEF Deleted
<1>2. CASE at # {}
  <2>1. n \in 1 .. Len(s) /\ s[n].key = k
    BY <1>0, <1>2
  <2>2. Deleted(s, k) = RemoveAt(s, n)
    BY <1>2 DEF Deleted
  <2> HIDE DEF n, at
  <2>3. /\ RemoveAt(s, n) \in Seq(S) /\ Len(RemoveAt(s, n)) = Len(s) - 1
        /\ OwnKeys(RemoveAt(s, n))
        /\ \A i \in DOMAIN RemoveAt(s, n) :
             \E j \in DOMAIN s \ {n} : RemoveAt(s, n)[i] = s[j]
    BY <2>1, EntryRemoved
  <2>4. \A j \in DOMAIN s \ {n} : s[j].key # k
    BY <1>0, <2>1 DEF OwnKeys
  <2> QED
    BY <1>0, <2>2, <2>3, <2>4
<1> QED
  BY <1>1, <1>2

\* The entries that are past their time and stay are no more than all that stay.
LEMMA OldOfKept ==
  ASSUME NEW S, NEW s \in Seq(S), OwnKeys(s), NEW k, NEW m \in Nat, m <= Len(s)
  PROVE  /\ Cardinality({i \in 1 .. m : s[i].key # k}) \in Nat
         /\ Cardinality({i \in 1 .. m : s[i].key # k}) <= Len(Deleted(s, k))
<1> DEFINE at == {i \in DOMAIN s : s[i].key = k}
           n == CHOOSE i \in at : TRUE
           old == {i \in 1 .. m : s[i].key # k}
<1>0. Len(s) \in Nat /\ DOMAIN s = 1 .. Len(s)
  OBVIOUS
<1>1. IsFiniteSet(1 .. Len(s)) /\ Cardinality(1 .. Len(s)) = Len(s)
  <2>1. PICK l \in Nat : l = Len(s)
    BY <1>0
  <2>2. IsFiniteSet(1 .. l) /\ Cardinality(1 .. l) = l
    BY FS_Interval
  <2> QED
    BY <2>1, <2>2
<1>2. old \in SUBSET (1 .. Len(s))
  BY <1>0
<1>3. IsFiniteSet(old) /\ Cardinality(old) \in Nat /\ Cardinality(old) <= Len(s)
  BY <1>1, <1>2, FS_Subset, FS_CardinalityType
<1>4. CASE at = {}
  <2>1. Deleted(s, k) = s
    BY <1>4 DEF Deleted
  <2> QED
    BY <1>3, <2>1
<1>5. CASE at # {}
  <2>1. n \in 1 .. Len(s) /\ s[n].key = k
    BY <1>0, <1>5
  <2>2. Deleted(s, k) = RemoveAt(s, n)
    BY <1>5 DEF Deleted
  <2> HIDE DEF n, at
  <2>3. Len(RemoveAt(s, n)) = Len(s) - 1
    BY <2>1, EntryRemoved
  <2>4. /\ IsFiniteSet((1 .. Len(s)) \ {n})
        /\ Cardinality((1 .. Len(s)) \ {n}) = Len(s) - 1
    BY <1>1, <2>1, FS_RemoveElement
  <2>5. old \in SUBSET ((1 .. Len(s)) \ {n})
    BY <1>2, <2>1
  <2>6. Cardinality(old) <= Len(s) - 1
    <3> HIDE DEF old
    <3> QED
      BY <2>4, <2>5, FS_Subset
  <2> QED
    BY <1>3, <2>2, <2>3, <2>6
<1> QED
  BY <1>4, <1>5

\* Every entry has the key of its body, and says how many clears had begun.
LEMMA EntryFacts ==
  CacheInv => \A i \in DOMAIN store : /\ store[i].born \in Nat /\ store[i].body \in Sent
                                     /\ store[i].key = KeyOf(store[i].body)
<1>1. \A e \in Entries : e.born \in Nat /\ e.body \in Sent /\ e.key = KeyOf(e.body)
  BY DEF Entries
<1>2. CacheInv => \A i \in DOMAIN store : store[i] \in Entries
  BY DEF CacheInv
<1> QED
  BY <1>1, <1>2

\* At the start nothing is stored and nobody asks.
LEMMA CacheStart == CacheInit => CacheInv
BY CacheAssumption DEF CacheInit, CacheInv, NotAsking, AskerOK, OwnKeys

\* A deletion, of whatever key.
LEMMA WithoutKeeps ==
  ASSUME CacheInv, NEW k, Without(k), UNCHANGED <<backend, clearing, begun, ended>>,
         DOMAIN asker' = Askers,
         \A a \in Askers : AskerOK(asker'[a]),
         sweep' = sweep \/ sweep' = sweep \ {k},
         spared' = spared \/ spared' = spared \ {k}
  PROVE  CacheInv'
<1>1. store' = Deleted(store, k)
  BY DEF Without
<1>2. /\ store' \in Seq(Entries) /\ Len(store') <= Len(store) /\ OwnKeys(store')
      /\ \A i \in DOMAIN store' : /\ store'[i].key # k
                                 /\ \E j \in DOMAIN store : store'[i] = store[j]
  BY <1>1, DeletedFacts DEF CacheInv
<1>3. expired' \in Nat /\ expired' <= Len(store')
  BY <1>1, OldOfKept DEF CacheInv, Without, ExpiredWithout
<1>4. backend = "memory" => Len(store') <= MaxEntries
  BY <1>2, CacheAssumption DEF CacheInv
<1>5. clearing => \A i \in DOMAIN store' :
                    store'[i].born < begun => store'[i].key \in sweep' \cup spared'
  BY <1>2 DEF CacheInv
<1>6. \A i \in DOMAIN store' : ended <= store'[i].born \/ store'[i].key \in spared'
  BY <1>2 DEF CacheInv
<1> QED
  BY <1>2, <1>3, <1>4, <1>5, <1>6 DEF CacheInv

\* An answer that is stored makes room for itself and was born with the clears
\* that have begun by now.
LEMMA InsertKeeps ==
  ASSUME CacheInv, NEW e \in Entries, e.born = begun, Insert(e),
         UNCHANGED <<backend, sweep, clearing, begun, ended>>,
         DOMAIN asker' = Askers,
         \A a \in Askers : AskerOK(asker'[a])
  PROVE  CacheInv'
<1> DEFINE full == backend = "memory" /\ ~BelowCapacity
           kept == IF full THEN Tail(store) ELSE store
           rest == Deleted(kept, e.key)
<1>0. MaxEntries \in Nat \ {0} /\ store \in Seq(Entries) /\ Len(store) \in Nat
  BY CacheAssumption DEF CacheInv
<1>1. full => store # <<>> /\ Len(store) = MaxEntries
  BY <1>0 DEF CacheInv, BelowCapacity
<1>2. /\ kept \in Seq(Entries) /\ OwnKeys(kept) /\ Len(kept) \in Nat
      /\ \A i \in DOMAIN kept : \E j \in DOMAIN store : kept[i] = store[j]
      /\ backend = "memory" => Len(kept) < MaxEntries
  <2>1. CASE full
    <3>1. /\ Tail(store) \in Seq(Entries) /\ Len(Tail(store)) = Len(store) - 1
          /\ \A i \in 1 .. Len(store) - 1 : Tail(store)[i] = store[i + 1]
      BY <1>0, <1>1, <2>1
    <3>2. DOMAIN Tail(store) = 1 .. Len(store) - 1 /\ DOMAIN store = 1 .. Len(store)
      BY <1>0, <3>1
    <3>3. \A i \in DOMAIN Tail(store) : i + 1 \in DOMAIN store /\ Tail(store)[i] = store[i + 1]
      BY <1>0, <3>1, <3>2
    <3>4. OwnKeys(Tail(store))
      <4>1. \A i, j \in DOMAIN Tail(store) : i + 1 = j + 1 => i = j
        BY <3>2
      <4> QED
        BY <3>3, <4>1 DEF CacheInv, OwnKeys
    <3> QED
      BY <1>0, <1>1, <2>1, <3>1, <3>3, <3>4
  <2>2. CASE ~full
    BY <1>0, <2>2 DEF CacheInv, BelowCapacity
  <2> QED
    BY <2>1, <2>2
<1>3. store' = Append(rest, e)
  BY DEF Insert
<1> HIDE DEF full, kept
<1>4. /\ rest \in Seq(Entries) /\ Len(rest) <= Len(kept) /\ OwnKeys(rest)
      /\ \A i \in DOMAIN rest : /\ rest[i].key # e.key
                               /\ \E j \in DOMAIN store : rest[i] = store[j]
  <2>1. /\ rest \in Seq(Entries) /\ Len(rest) <= Len(kept) /\ OwnKeys(rest)
        /\ \A i \in DOMAIN rest : /\ rest[i].key # e.key
                                 /\ \E j \in DOMAIN kept : rest[i] = kept[j]
    BY <1>2, DeletedFacts
  <2> QED
    BY <1>2, <2>1
<1> HIDE DEF rest
<1>5. /\ store' \in Seq(Entries) /\ Len(store') = Len(rest) + 1 /\ Len(rest) \in Nat
      /\ DOMAIN store' = 1 .. Len(rest) + 1 /\ DOMAIN rest = 1 .. Len(rest)
      /\ store'[Len(rest) + 1] = e /\ \A i \in 1 .. Len(rest) : store'[i] = rest[i]
  BY <1>3, <1>4
<1>6. \A i \in DOMAIN store' : i = Len(rest) + 1 \/ i \in DOMAIN rest
  BY <1>5
<1>7. OwnKeys(store')
  BY <1>4, <1>5, <1>6 DEF OwnKeys
<1>8. backend = "memory" => Len(store') <= MaxEntries
  BY <1>0, <1>2, <1>4, <1>5
<1>9. /\ \A i \in DOMAIN store' : ended <= store'[i].born \/ store'[i].key \in spared'
      /\ clearing => \A i \in DOMAIN store' :
                      store'[i].born < begun => store'[i].key \in sweep \cup spared'
  <2>0. spared' = spared \ {e.key}
    BY DEF Insert
  <2>1. ended <= e.born /\ ~(e.born < begun)
    BY DEF CacheInv
  <2>2. store'[Len(rest) + 1] = e
    BY <1>5
  <2>3. ASSUME NEW i \in DOMAIN rest
        PROVE  /\ ended <= store'[i].born \/ store'[i].key \in spared'
               /\ clearing /\ store'[i].born < begun => store'[i].key \in sweep \cup spared'
    <3>1. store'[i] = rest[i] /\ rest[i].key # e.key
      BY <1>4, <1>5, <2>3
    <3>2. PICK j \in DOMAIN store : rest[i] = store[j]
      BY <1>4, <2>3
    <3>3. /\ ended <= store[j].born \/ store[j].key \in spared
          /\ clearing /\ store[j].born < begun => store[j].key \in sweep \cup spared
      BY DEF CacheInv
    <3> QED
      BY <2>0, <3>1, <3>2, <3>3
  <2> QED
    BY <1>6, <2>1, <2>2, <2>3
<1>10. expired' \in Nat /\ expired' <= Len(store')
  <2> DEFINE left == IF full /\ expired > 0 THEN expired - 1 ELSE expired
  <2>1. left \in Nat /\ left <= Len(kept)
    BY <1>0, <1>1 DEF CacheInv, full, kept
  <2>2. expired' = Cardinality({i \in 1 .. left : kept[i].key # e.key})
    BY DEF Insert, full, kept
  <2> HIDE DEF left
  <2>3. expired' \in Nat /\ expired' <= Len(rest)
    BY <1>2, <2>1, <2>2, OldOfKept DEF rest
  <2> QED
    BY <1>5, <2>3
<1> QED
  BY <1>5, <1>7, <1>8, <1>9, <1>10 DEF CacheInv

\* Every step of a request, of the clock and of a clear keeps the store in order.
LEMMA CacheStep == CacheInv /\ [CacheNext]_cacheVars => CacheInv'
<1> SUFFICES ASSUME CacheInv, [CacheNext]_cacheVars PROVE CacheInv'
  OBVIOUS
<1>0. store \in Seq(Entries) /\ Len(store) \in Nat /\ MaxEntries \in Nat \ {0}
  BY CacheAssumption DEF CacheInv
<1>1. ASSUME NEW a \in Askers, NEW s, Asker(a, s), AskerOK(s)
      PROVE  DOMAIN asker' = Askers /\ \A x \in Askers : AskerOK(asker'[x])
  BY <1>1 DEF Asker, CacheInv
<1>2. ASSUME NEW a \in Askers,
             Miss(a) \/ Find(a) \/ Hit(a) \/ AnswerOnly(a) \/ CacheReturn(a)
      PROVE  CacheInv'
  <2>1. /\ UNCHANGED <<backend, store, expired, sweep, spared, clearing, begun, ended>>
        /\ \E s : Asker(a, s) /\ AskerOK(s)
    <3>1. CASE Miss(a)
      <4>1. PICK b \in Bodies : Asker(a, [NotAsking EXCEPT !.at = "ask", !.body = b])
        BY <3>1 DEF Miss
      <4>2. AskerOK([NotAsking EXCEPT !.at = "ask", !.body = b])
        BY DEF NotAsking, AskerOK
      <4>3. UNCHANGED <<backend, store, expired, sweep, spared, clearing, begun, ended>>
        BY <3>1 DEF Miss
      <4> QED
        BY <4>1, <4>2, <4>3
    <3>2. CASE Find(a)
      <4>1. PICK b \in Bodies, i \in DOMAIN store :
              /\ i \in Stored(KeyOf(b))
              /\ Asker(a, [at |-> "found", body |-> b, found |-> store[i].body,
                           old |-> i <= expired])
        BY <3>2 DEF Find, Stored
      <4>2. store[i].body \in Sent /\ KeyOf(store[i].body) = KeyOf(b)
        BY <4>1, EntryFacts DEF Stored
      <4> DEFINE s == [at |-> "found", body |-> b, found |-> store[i].body,
                       old |-> i <= expired]
      <4>4. AskerOK(s)
        BY <4>2 DEF AskerOK
      <4>3. UNCHANGED <<backend, store, expired, sweep, spared, clearing, begun, ended>>
        BY <3>2 DEF Find
      <4> QED
        BY <4>1, <4>3, <4>4
    <3>3. CASE Hit(a)
      <4>1. /\ Asker(a, [asker[a] EXCEPT !.at = "answered"]) /\ asker[a].at = "found"
            /\ UNCHANGED <<backend, store, expired, sweep, spared, clearing, begun, ended>>
        BY <3>3 DEF Hit
      <4>2. AskerOK([asker[a] EXCEPT !.at = "answered"])
        BY <4>1 DEF CacheInv, AskerOK
      <4> QED
        BY <4>1, <4>2
    <3>4. CASE AnswerOnly(a) \/ CacheReturn(a)
      <4>1. /\ Asker(a, NotAsking)
            /\ UNCHANGED <<backend, store, expired, sweep, spared, clearing, begun, ended>>
        BY <3>4 DEF AnswerOnly, CacheReturn
      <4>2. AskerOK(NotAsking)
        BY DEF NotAsking, AskerOK
      <4> QED
        BY <4>1, <4>2
    <3> QED
      BY <1>2, <3>1, <3>2, <3>3, <3>4
  <2> QED
    BY <1>1, <2>1 DEF CacheInv
<1>3. ASSUME NEW a \in Askers, DropOld(a) PROVE CacheInv'
  <2>1. PICK s : s = [asker[a] EXCEPT !.at = "ask", !.found = <<>>, !.old = FALSE]
    OBVIOUS
  <2>2. AskerOK(s)
    BY <1>3, <2>1 DEF DropOld, CacheInv, AskerOK
  <2>3. /\ Without(KeyOf(asker[a].body)) /\ Asker(a, s)
        /\ UNCHANGED <<backend, sweep, spared, clearing, begun, ended>>
    BY <1>3, <2>1 DEF DropOld
  <2> QED
    BY <1>1, <2>2, <2>3, WithoutKeeps
<1>4. ASSUME NEW a \in Askers, AnswerAndPut(a) PROVE CacheInv'
  <2>1. PICK b \in Bodies : b = asker[a].body
    BY <1>4 DEF AnswerAndPut, CacheInv, AskerOK
  <2>2. PICK m \in Models(b) : Insert(EntryFor(b, [b EXCEPT !.model = m]))
    BY <1>4, <2>1 DEF AnswerAndPut
  <2> DEFINE sent == [b EXCEPT !.model = m]
             e == EntryFor(b, sent)
  <2>3. sent \in Sent
    BY DEF Sent
  <2> HIDE DEF sent
  <2>4. e \in Entries /\ e.born = begun
    BY <2>3 DEF EntryFor, Entries, CacheInv
  <2>5. Insert(e)
    BY <2>2 DEF sent
  <2> HIDE DEF e
  <2>6. /\ Asker(a, NotAsking) /\ AskerOK(NotAsking)
        /\ UNCHANGED <<backend, sweep, clearing, begun, ended>>
    BY <1>4 DEF AnswerAndPut, NotAsking, AskerOK
  <2> QED
    BY <1>1, <2>4, <2>5, <2>6, InsertKeeps
<1>5. ASSUME NEW k \in sweep, Sweep(k) PROVE CacheInv'
  <2>1. /\ sweep' = sweep \ {k}
        /\ UNCHANGED <<backend, asker, clearing, begun, ended>>
    BY <1>5 DEF Sweep
  <2>2. CASE Without(k) /\ spared' = spared \ {k}
    BY <2>1, <2>2, WithoutKeeps DEF CacheInv
  <2>3. CASE spared' = spared \cup {k} /\ UNCHANGED <<store, expired>>
    BY <2>1, <2>3 DEF CacheInv
  <2> QED
    BY <1>5, <2>2, <2>3 DEF Sweep
<1>6. CASE Expire
  <2>1. /\ UNCHANGED <<backend, asker, sweep, spared, clearing, begun, ended>>
        /\ expired < Len(store)
        /\ \/ backend = "redis" /\ store # <<>> /\ store' = Tail(store) /\ expired' = expired
           \/ store' = store /\ expired' = expired + 1
    BY <1>6 DEF Expire, CacheInv
  <2>2. CASE backend = "redis" /\ store # <<>> /\ store' = Tail(store) /\ expired' = expired
    <3>1. /\ store' \in Seq(Entries) /\ Len(store') = Len(store) - 1
          /\ \A i \in DOMAIN store' : i + 1 \in DOMAIN store /\ store'[i] = store[i + 1]
      BY <1>0, <2>2
    <3>2. \A i, j \in DOMAIN store' : i + 1 = j + 1 => i = j
      BY <3>1
    <3>3. OwnKeys(store')
      BY <3>1, <3>2 DEF CacheInv, OwnKeys
    <3>4. expired' \in Nat /\ expired' <= Len(store')
      <4>1. expired \in Nat /\ expired < Len(store)
        BY <2>1 DEF CacheInv
      <4>2. expired' = expired /\ Len(store') = Len(store) - 1
        BY <2>2, <3>1
      <4> QED
        BY <1>0, <4>1, <4>2
    <3> QED
      BY <2>1, <2>2, <3>1, <3>3, <3>4 DEF CacheInv
  <2>3. CASE store' = store /\ expired' = expired + 1
    BY <2>1, <2>3 DEF CacheInv
  <2> QED
    BY <2>1, <2>2, <2>3
<1>7. CASE ClearMemory
  BY <1>0, <1>7 DEF ClearMemory, CacheInv, OwnKeys
<1>8. CASE BeginClear
  BY <1>8 DEF BeginClear, StoredKeys, CacheInv
<1>9. CASE EndClear
  <2>1. /\ clearing /\ sweep = {} /\ clearing' = FALSE /\ ended' = begun
        /\ UNCHANGED <<backend, store, expired, asker, spared, begun>>
    BY <1>9 DEF EndClear, SweptAll
  <2>2. \A i \in DOMAIN store :
          store[i].born \in Nat /\ (store[i].born < begun => store[i].key \in spared)
    BY <2>1, EntryFacts DEF CacheInv
  <2> QED
    BY <2>1, <2>2 DEF CacheInv
<1>10. CASE AbortClear
  BY <1>10 DEF AbortClear, CacheInv
<1>11. CASE UNCHANGED cacheVars
  BY <1>11 DEF cacheVars, CacheInv
<1> QED
  BY <1>2, <1>3, <1>4, <1>5, <1>6, <1>7, <1>8, <1>9, <1>10, <1>11
     DEF CacheNext, HandleCacheClear, CacheClearCmd

\* It is in order in every reachable state.
LEMMA CacheInvariant == CacheSpec => []CacheInv
BY CacheStart, CacheStep, PTL DEF CacheSpec

\* The map holds at most MaxEntries, each under a key of its own, whichever
\* puts, expiries and clears meet (semantic.go:149-158).
THEOREM Capacity == CacheSpec => []CapacityBound
<1>1. CacheInv => CapacityBound
  <2> SUFFICES ASSUME CacheInv PROVE Cardinality(StoredKeys) = Len(store)
    BY DEF CacheInv, CapacityBound
  <2> DEFINE f == [i \in DOMAIN store |-> store[i].key]
  <2>1. Len(store) \in Nat /\ DOMAIN store = 1 .. Len(store)
    BY DEF CacheInv
  <2>2. IsFiniteSet(DOMAIN store) /\ Cardinality(DOMAIN store) = Len(store)
    <3>1. /\ IsFiniteSet(1 .. Len(store))
          /\ Cardinality(1 .. Len(store)) = IF 1 > Len(store) THEN 0 ELSE (Len(store) - 1) + 1
      BY <2>1, FS_Interval
    <3> QED
      BY <2>1, <3>1
  <2>3. f \in Surjection(DOMAIN store, StoredKeys) /\ f \in Injection(DOMAIN store, StoredKeys)
    BY DEF CacheInv, OwnKeys, StoredKeys, Surjection, Injection, IsInjective
  <2> QED
    BY <2>2, <2>3, FS_Surjection
<1> QED
  BY <1>1, CacheInvariant, PTL

\* What was stored before the last successful clear began is no longer there,
\* but for the keys whose deletion failed, also where the clear is a scan
\* during which others store (redis.go:119-130).
THEOREM Forgets == CacheSpec => []ClearForgets
<1>1. CacheInv => ClearForgets
  <2> SUFFICES ASSUME CacheInv, NEW i \in DOMAIN store, store[i].key \notin spared
               PROVE  store[i].born >= ended
    BY DEF ClearForgets
  <2>1. store[i].born \in Nat /\ ended \in Nat /\ ended <= store[i].born
    BY EntryFacts DEF CacheInv
  <2> QED
    BY <2>1
<1> QED
  BY <1>1, CacheInvariant, PTL

\* A list of tools, and the names in it.
Tools == [name : Nat, code : Nat]
Names(tools) == {tools[i].name : i \in DOMAIN tools}
Before(names, x) == {n \in names : n < x}

\* The tools of a body that is sent are those of the body that came.
LEMMA SentTools ==
  ASSUME NEW c \in Sent
  PROVE  /\ c.tools \in Seq(Tools)
         /\ Len(c.messages) \in Nat /\ DOMAIN c.messages = 1 .. Len(c.messages)
<1>1. PICK d, m : d \in Bodies /\ c = [d EXCEPT !.model = m]
  BY DEF Sent
<1>2. c.messages = d.messages /\ c.tools = d.tools
  BY <1>1, CacheAssumption
<1> QED
  BY <1>1, <1>2, CacheAssumption DEF Tools

LEMMA BodyTools ==
  ASSUME NEW b \in Bodies
  PROVE  /\ b.tools \in Seq(Tools)
         /\ Len(b.messages) \in Nat /\ DOMAIN b.messages = 1 .. Len(b.messages)
BY CacheAssumption DEF Tools

\* Where no name repeats, the place of a tool is told by the names.
LEMMA PlaceByName ==
  ASSUME NEW tools \in Seq(Tools), NamedApart(tools), NEW i \in DOMAIN tools
  PROVE  Place(tools, i) = Cardinality(Before(Names(tools), tools[i].name)) + 1
<1> DEFINE S == Ahead(tools, i)
           T == Before(Names(tools), tools[i].name)
           f == [j \in S |-> tools[j].name]
<1>1. /\ DOMAIN tools = 1 .. Len(tools) /\ Len(tools) \in Nat
      /\ \A j \in DOMAIN tools : tools[j].name \in Nat
  <2>1. \A t \in Tools : t.name \in Nat
    BY DEF Tools
  <2>2. /\ DOMAIN tools = 1 .. Len(tools) /\ Len(tools) \in Nat
        /\ \A j \in DOMAIN tools : tools[j] \in Tools
    OBVIOUS
  <2> QED
    BY <2>1, <2>2
<1>2. S = {j \in DOMAIN tools : tools[j].name < tools[i].name}
  BY <1>1 DEF Ahead, NamedApart
<1>3. IsFiniteSet(S)
  <2>1. IsFiniteSet(1 .. Len(tools))
    BY <1>1, FS_Interval
  <2> QED
    BY <1>1, <1>2, <2>1, FS_Subset
<1>4. f \in Bijection(S, T)
  <2>1. f \in [S -> T] /\ \A t \in T : \E j \in S : f[j] = t
    BY <1>2 DEF Before, Names
  <2>2. \A j, k \in S : f[j] = f[k] => j = k
    BY <1>2 DEF NamedApart
  <2> HIDE DEF f, S, T
  <2> QED
    BY <2>1, <2>2 DEF Bijection, Injection, Surjection, IsInjective
<1>5. Cardinality(S) = Cardinality(T)
  <2> HIDE DEF f, S, T
  <2> QED
    BY <1>3, <1>4, FS_Bijection DEF ExistsBijection
<1> QED
  BY <1>5 DEF Place

\* The same tools are sorted alike, whatever their order.
LEMMA SortsAlike ==
  ASSUME NEW a \in Seq(Tools), NEW b \in Seq(Tools), NamedApart(a), NamedApart(b),
         ToSet(a) = ToSet(b)
  PROVE  sortToolsByName(a) \subseteq sortToolsByName(b)
<1> SUFFICES ASSUME NEW i \in DOMAIN a
             PROVE  [place |-> Place(a, i), tool |-> a[i]] \in sortToolsByName(b)
  BY DEF sortToolsByName
<1>1. PICK j \in DOMAIN b : b[j] = a[i]
  BY DEF ToSet
<1>2. Names(a) = {t.name : t \in ToSet(a)} /\ Names(b) = {t.name : t \in ToSet(b)}
  BY DEF Names, ToSet
<1>3. Place(a, i) = Place(b, j)
  BY <1>1, <1>2, PlaceByName
<1> QED
  BY <1>1, <1>3 DEF sortToolsByName

\* The sort loses no tool and makes none up.
LEMMA SortKeeps ==
  ASSUME NEW tools PROVE ToSet(tools) = {e.tool : e \in sortToolsByName(tools)}
<1>1. ASSUME NEW i \in DOMAIN tools
      PROVE  tools[i] \in {e.tool : e \in sortToolsByName(tools)}
  <2> DEFINE e == [place |-> Place(tools, i), tool |-> tools[i]]
  <2>1. e \in sortToolsByName(tools) /\ e.tool = tools[i]
    BY DEF sortToolsByName
  <2> QED
    BY <2>1
<1>2. ASSUME NEW e \in sortToolsByName(tools) PROVE e.tool \in ToSet(tools)
  BY DEF sortToolsByName, ToSet
<1> QED
  BY <1>1, <1>2 DEF ToSet

\* Bodies with the same key ask the same question.
LEMMA KeyTells ==
  ASSUME NEW b \in Bodies, NEW c \in Sent, KeyOf(b) = KeyOf(c)
  PROVE  SameQuestion(b, c)
<1>3. /\ Len(b.messages) \in Nat /\ DOMAIN b.messages = 1 .. Len(b.messages)
      /\ Len(c.messages) \in Nat /\ DOMAIN c.messages = 1 .. Len(c.messages)
  BY SentTools, BodyTools
<1>4. /\ b.model = c.model /\ b.form = c.form
      /\ scrubToolCallIDs(b.messages) = scrubToolCallIDs(c.messages)
      /\ sortToolsByName(b.tools) = sortToolsByName(c.tools)
  BY DEF KeyOf
<1>5. DOMAIN b.messages = DOMAIN c.messages
  BY <1>4 DEF scrubToolCallIDs
<1>6. Len(b.messages) = Len(c.messages)
  BY <1>3, <1>5
<1>7. \A i \in DOMAIN b.messages : b.messages[i].text = c.messages[i].text
  BY <1>4, <1>5 DEF scrubToolCallIDs
<1>8. ToSet(b.tools) = ToSet(c.tools)
  BY <1>4, SortKeeps
<1> QED
  BY <1>4, <1>6, <1>7, <1>8 DEF SameQuestion

\* A hit answers the question that was asked, of the model that was asked, also
\* when the stored answer came out of a failover, whatever tools there are and
\* whether or not they have names (middleware.go:820-940).
THEOREM HitAnswers == CacheSpec => []HitAnswersQuestion
<1>1. CacheInv => HitAnswersQuestion
  BY KeyTells DEF CacheInv, AskerOK, HitAnswersQuestion
<1> QED
  BY <1>1, CacheInvariant, PTL

\* Bodies that ask the same question have the same key, if the names of their
\* tools are all different.
LEMMA SameKey ==
  ASSUME NEW b \in Bodies, NEW c \in Sent, SameQuestion(b, c),
         NamedApart(b.tools), NamedApart(c.tools)
  PROVE  KeyOf(b) = KeyOf(c)
<1>3. /\ Len(b.messages) \in Nat /\ DOMAIN b.messages = 1 .. Len(b.messages)
      /\ Len(c.messages) \in Nat /\ DOMAIN c.messages = 1 .. Len(c.messages)
  BY SentTools, BodyTools
<1>4. /\ b.model = c.model /\ b.form = c.form
      /\ DOMAIN b.messages = DOMAIN c.messages
      /\ \A i \in DOMAIN b.messages : b.messages[i].text = c.messages[i].text
      /\ ToSet(b.tools) = ToSet(c.tools)
  BY <1>3 DEF SameQuestion
<1>5. scrubToolCallIDs(b.messages) = scrubToolCallIDs(c.messages)
  BY <1>4 DEF scrubToolCallIDs
<1>6. sortToolsByName(b.tools) = sortToolsByName(c.tools)
  <2>1. b.tools \in Seq(Tools) /\ c.tools \in Seq(Tools)
    BY SentTools, BodyTools
  <2> QED
    BY <1>4, <2>1, SortsAlike
<1> QED
  BY <1>4, <1>5, <1>6 DEF KeyOf

\* Every body that asks what a stored answer was asked is looked up under its
\* key, if the names of its tools are all different (README.md:213,
\* middleware.go:820-940).
THEOREM SameQuestions == CacheSpec => []SameQuestionHits
<1>1. ASSUME CacheInv, NEW i \in DOMAIN store, NEW b \in Bodies,
             SameQuestion(b, store[i].body),
             NamedApart(b.tools), NamedApart(store[i].body.tools)
      PROVE  KeyOf(b) = store[i].key
  <2>1. store[i] \in Entries
    BY <1>1 DEF CacheInv
  <2>2. PICK c \in Sent : store[i].key = KeyOf(c) /\ store[i].body = c
    BY <2>1 DEF Entries
  <2> QED
    BY <2>2, <1>1, SameKey
<1>2. CacheInv => SameQuestionHits
  BY <1>1 DEF SameQuestionHits
<1> QED
  BY <1>2, CacheInvariant, PTL

----------------------------------------------------------------------------
(* The parts side by side.                                                 *)

\* Nobody is granted the lease for more than its time.
LEMMA LeaseTime ==
  ASSUME ClusterInv, lease.left <= TTL, [ClusterNext]_clusterVars
  PROVE  lease'.left <= TTL
<1>0. TTL \in Nat /\ lease \in [holder : Nodes \cup {NoNode}, left : Nat]
  BY ClusterAssumption DEF ClusterInv, ElectionTypeOK
<1>1. CASE ClusterTick
  <2>1. CASE lease.left <= 1
    <3>1. lease' = Free
      BY <1>1, <2>1 DEF ClusterTick
    <3> QED
      BY <1>0, <3>1 DEF Free
  <2>2. CASE ~(lease.left <= 1)
    <3>1. lease' = [lease EXCEPT !.left = lease.left - 1]
      BY <1>1, <2>2 DEF ClusterTick
    <3>2. lease'.left = lease.left - 1 /\ lease.left \in Nat
      BY <1>0, <3>1
    <3> QED
      BY <1>0, <3>2
  <2> QED
    BY <2>1, <2>2
<1>2. ASSUME NEW n \in Nodes, RunScript(n) PROVE lease'.left <= TTL
  BY <1>0, <1>2 DEF RunScript, LeaseFor
<1>3. ASSUME NEW n \in Nodes,
             \/ Attempt(n) \/ Hears(n) \/ IsLate(n) \/ SentAgain(n)
             \/ AttemptFails(n) \/ NodeRestart(n) \/ Spending(n)
      PROVE  lease'.left <= TTL
  BY <1>3 DEF Attempt, Hears, IsLate, SentAgain, AttemptFails, NodeRestart, Spending,
              AdmitShared, AdmitLocal, Start, Serve, Forget, electionVars
<1>4. CASE UNCHANGED clusterVars
  BY <1>4 DEF clusterVars
<1> QED
  BY <1>1, <1>2, <1>3, <1>4 DEF ClusterNext, Election, AttemptGoesOn

\* Whatever steps, each part takes a step of its own or none.
LEMMA PartSteps ==
  [Next]_vars =>
    /\ [CacheNext]_cacheVars /\ [LimiterNext]_limiterVars /\ [AuditNext]_auditVars
    /\ [DiffNext]_diffVars /\ [ConfigNext]_configVars /\ [ClusterNext]_clusterVars
BY DEF Next, vars

\* What the parts keep, all together.
PartsInv ==
  /\ CacheInv /\ LimiterInv /\ AuditInv /\ DiffInv /\ FileInv
  /\ ClusterInv /\ SpendInv /\ lease.left <= TTL

\* The types of all the parts hold together: among them, nothing that has
\* expired is counted twice, a channel of a viewer is never closed while it is
\* registered (diff_stream.go:52-54), and no lease outlasts its time.
THEOREM PartsTypes == Spec => []PartsTypeOK
<1>1. Init => PartsInv
  <2>1. Init => lease.left <= TTL
    BY ClusterAssumption DEF Init, ClusterInit, Free
  <2> QED
    BY <2>1, CacheStart, LimiterStart, AuditStart, DiffInvInit, FileInit, ElectionInit,
       SpendStart
       DEF Init, PartsInv
<1>2. PartsInv /\ [Next]_vars => PartsInv'
  BY PartSteps, CacheStep, LimiterStep, AuditStep, DiffStep, FileStep, ElectionStep,
     SpendStep, LeaseTime
     DEF PartsInv
<1>3. PartsInv => PartsTypeOK
  <2> SUFFICES ASSUME PartsInv PROVE PartsTypeOK
    OBVIOUS
  <2>1. CacheTypeOK
    <3>1. CacheInv
      BY DEF PartsInv
    <3> QED
      BY <3>1 DEF CacheInv, AskerOK, CacheTypeOK
  <2>2. LimiterTypeOK
    BY DEF PartsInv, LimiterInv, LimiterTypes, LimiterTypeOK
  <2>3. AuditTypeOK
    BY DEF PartsInv, AuditInv, AuditTypes, RingInv, AuditTypeOK
  <2>4. DiffTypeOK /\ ConfigTypeOK
    BY DEF PartsInv, DiffInv, DiffTypes, DiffTypeOK, FileInv
  <2>5. ClusterTypeOK
    <3>1. /\ ElectionTypeOK /\ SpendTypes /\ lease.left <= TTL
          /\ TTL \in Nat /\ Period \in Nat
      BY ClusterAssumption DEF PartsInv, ClusterInv, SpendInv
    <3> QED
      BY <3>1 DEF ElectionTypeOK, ElectionRecord, SpendTypes, ClusterTypeOK
  <2> QED
    BY <2>1, <2>2, <2>3, <2>4, <2>5 DEF PartsTypeOK
<1> QED
  BY <1>1, <1>2, <1>3, PTL DEF Spec
==============================================================================
