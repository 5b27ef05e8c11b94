---------------------------- MODULE ConfigStore ----------------------------
(***************************************************************************)
(* The active configuration and the files it comes from                    *)
(* (internal/config/config.go, GET and PUT /api/config in                  *)
(* internal/api/server.go, InitWAF in internal/waf/scanner.go).  Operators *)
(* edit the file, dashboards read the configuration and put it back, a     *)
(* watcher reloads the file it was loaded from: nothing locks any of it.   *)
(***************************************************************************)
EXTENDS Naturals, FiniteSets

CONSTANTS
  Users,       \* dashboards
  Keys,        \* API keys of the one provider that is modelled
  Known,       \* whether it is one of the providers validateConfig seeds
  Envs,        \* environments the daemon may be started in
  MaxChanges,  \* bound on edits of a file and puts
  MaxStarts    \* bound on restarts

Absent == "absent"

\* The environment holds no key but one of the provider's.
ASSUME ConfigAssumption ==
  /\ Known \in BOOLEAN /\ MaxChanges \in Nat
  /\ \A e \in Envs : e.key \in Keys \cup {Absent}

VARIABLES
  cfg,       \* config.Cfg
  env,       \* the TKNGATE_ variables of the process
  viper,     \* what viper read last
  files,     \* ./tkngate.yaml and /etc/tkngate/tkngate.yaml
  home,      \* the one that was found at the start, and is watched
  watcher,   \* "idle", "told" of a change, "read": about to unmarshal, or
             \* "again": that, and told of another change
  compiled,  \* the blocklist the firewall compiled
  unsaved,   \* whether Cfg has what the watched file never got
  form,      \* what each dashboard shows
  put,       \* where each PUT is, and the configuration it carries
  changes, starts

configVars ==
  <<cfg, env, viper, files, home, watcher, compiled, unsaved, form, put,
    changes, starts>>

\* A configuration is [key, rules, amber]: the API key of the provider, the
\* version of waf.blocklist, and budget.amber_threshold_pct for every number
\* that has a default.
NoKey == "empty"
Placeholder == "[REDACTED]"

Empty == [key |-> Absent, rules |-> 0, amber |-> 0]   \* every field unset
Resting == [at |-> "idle", c |-> Empty]

\* What stands in a file, besides configurations: no file; text that is no
\* YAML; and, in place of the number, what is none.
NoFile == [Empty EXCEPT !.amber = 99]
Broken == [Empty EXCEPT !.amber = 98]
Mistyped == 97

\* viper gives what the file has, and what the environment says of it instead;
\* of what the file does not have it knows no name to look up.
Settings(v, e) ==
  [key |-> IF v.key = Absent \/ e.key = Absent THEN v.key ELSE e.key,
   rules |-> IF v.rules = 0 \/ e.rules = 0 THEN v.rules ELSE e.rules,
   amber |-> IF v.amber = 0 \/ e.amber = 0 THEN v.amber ELSE e.amber]

Decodes(s) == s.amber # Mistyped

\* viper.Unmarshal into Cfg: what the settings do not have stays as it was.
Unmarshal(c, s) ==
  [key |-> IF s.key = Absent THEN c.key ELSE s.key,
   rules |-> IF s.rules = 0 THEN c.rules ELSE s.rules,
   amber |-> IF s.amber = 0 THEN c.amber ELSE s.amber]

\* When it fails at the number, the other fields may have been set.
PartlyDecoded(c, s) ==
  [key : {c.key, Unmarshal(c, s).key}, rules : {c.rules, Unmarshal(c, s).rules},
   amber : {c.amber}]

\* validateConfig seeds the known providers and fills in the defaults.
validateConfig(c) ==
  [key |-> IF Known /\ c.key = Absent THEN NoKey ELSE c.key,
   rules |-> c.rules, amber |-> IF c.amber = 0 THEN 70 ELSE c.amber]

Found(fs) ==
  IF fs.cwd # NoFile THEN "cwd" ELSE IF fs.etc # NoFile THEN "etc" ELSE "none"

Read(fs, h) == IF h = "none" THEN Empty ELSE fs[h]

\* LoadConfig and InitWAF in a new process, which ends at once when the file it
\* finds cannot be read or decoded.
Starts(fs, e) ==
  Read(fs, Found(fs)) # Broken /\ Decodes(Settings(Read(fs, Found(fs)), e))
Loaded(fs, e) == validateConfig(Unmarshal(Empty, Settings(Read(fs, Found(fs)), e)))

ConfigInit ==
  /\ \E at \in {"cwd", "etc", "none"}, key \in Keys \cup {Absent} :
       files = [f \in {"cwd", "etc"} |->
                  IF f = at THEN [key |-> key, rules |-> 1, amber |-> 0]
                            ELSE NoFile]
  /\ home = Found(files)
  /\ env \in Envs
  /\ viper = Read(files, home)
  /\ cfg = Loaded(files, env)
  /\ compiled = cfg.rules
  /\ watcher = "idle" /\ unsaved = FALSE
  /\ form = [u \in Users |-> Empty]
  /\ put = [u \in Users |-> Resting]
  /\ changes = 0 /\ starts = 0

----------------------------------------------------------------------------
(* The file and the watcher.                                               *)

\* Mutant: a change that comes while it unmarshals is not seen.
ToldOnce(f) == IF f = home /\ watcher = "idle" THEN "told" ELSE watcher

\* A write to the watched file tells the watcher.
Told(f) ==
  CASE f # home -> watcher
    [] f = home /\ watcher \in {"idle", "told"} -> "told"
    [] f = home /\ watcher \in {"read", "again"} -> "again"

\* Someone edits a file, or Kubernetes replaces the ConfigMap, for better or
\* worse.
EditFile(f) ==
  /\ changes < MaxChanges /\ files[f] # NoFile
  /\ changes' = changes + 1
  /\ \/ \E key \in {files[f].key, Absent} \cup Keys,
           rules \in {files[f].rules, changes + 2}, amber \in {0, Mistyped} :
          files' = [files EXCEPT ![f] =
                      [key |-> key, rules |-> rules, amber |-> amber]]
     \/ files' = [files EXCEPT ![f] = Broken]
  /\ watcher' = Told(f)
  /\ UNCHANGED <<cfg, env, viper, home, compiled, unsaved, form, put, starts>>

\* viper reads the file, keeps what it had if it cannot, and then calls
\* OnConfigChange.
WatchRead ==
  /\ watcher = "told"
  /\ watcher' = "read"
  /\ viper' = IF files[home] = Broken THEN viper ELSE files[home]
  /\ UNCHANGED <<cfg, env, files, home, compiled, unsaved, form, put, changes,
                 starts>>

WatchApply ==
  /\ watcher \in {"read", "again"}
  /\ LET s == Settings(viper, env) IN
     IF Decodes(s) THEN cfg' = validateConfig(Unmarshal(cfg, s))
                   ELSE cfg' \in PartlyDecoded(cfg, s)
  /\ watcher' = IF watcher = "again" THEN "told" ELSE "idle"
  /\ unsaved' = FALSE
  /\ UNCHANGED <<env, viper, files, home, compiled, form, put, changes, starts>>

----------------------------------------------------------------------------
(* The dashboard.                                                          *)

Redacted(c) ==
  IF c.key \in {Absent, NoKey} THEN c ELSE [c EXCEPT !.key = Placeholder]

GetConfig(u) ==
  /\ put[u].at = "idle"
  /\ form' = [form EXCEPT ![u] = Redacted(cfg)]
  /\ UNCHANGED <<cfg, env, viper, files, home, watcher, compiled, unsaved, put,
                 changes, starts>>

\* The request is decoded over a copy of Cfg: a provider that the form does
\* not have keeps its key.
PutConfig(u) ==
  /\ put[u].at = "idle" /\ changes < MaxChanges /\ form[u] # Empty
  /\ changes' = changes + 1
  /\ \E key \in {form[u].key} \cup Keys,
        rules \in {form[u].rules, changes + 2}, amber \in {form[u].amber, 0} :
       put' = [put EXCEPT ![u] =
         [at |-> "check",
          c |-> [key |-> IF key = Absent THEN cfg.key ELSE key,
                 rules |-> rules, amber |-> amber]]]
  /\ UNCHANGED <<cfg, env, viper, files, home, watcher, compiled, unsaved,
                 form, starts>>

\* validator.ValidateKey asks the provider about every key in clear.
RejectPut(u) ==
  /\ put[u].at = "check" /\ put[u].c.key \in Keys
  /\ put' = [put EXCEPT ![u] = Resting]
  /\ UNCHANGED <<cfg, env, viper, files, home, watcher, compiled, unsaved,
                 form, changes, starts>>

\* Mutant: the placeholder is stored.
KeepPlaceholder(c) == c
\* A placeholder stands for the active key, if the provider is configured.
Restored(c) ==
  IF c.key = Placeholder /\ cfg.key # Absent THEN [c EXCEPT !.key = cfg.key]
  ELSE c

SaveConfig(u) ==
  /\ put[u].at = "check"
  /\ cfg' = Restored(put[u].c)
  /\ unsaved' = (unsaved \/ home # "cwd")
  /\ put' = [put EXCEPT ![u].at = "marshal"]
  /\ UNCHANGED <<env, viper, files, home, watcher, compiled, form, changes,
                 starts>>

\* It marshals Cfg as it is by now, not what it assigned.
Marshal(u) ==
  /\ put[u].at = "marshal"
  /\ put' = [put EXCEPT ![u] = [at |-> "truncate", c |-> cfg]]
  /\ UNCHANGED <<cfg, env, viper, files, home, watcher, compiled, unsaved,
                 form, changes, starts>>

\* os.WriteFile truncates ./tkngate.yaml and then writes it.
Truncate(u) ==
  /\ put[u].at = "truncate"
  /\ files' = [files EXCEPT !.cwd = Empty]
  /\ watcher' = Told("cwd")
  /\ put' = [put EXCEPT ![u].at = "write"]
  /\ UNCHANGED <<cfg, env, viper, home, compiled, unsaved, form, changes, starts>>

WriteFile(u) ==
  /\ put[u].at = "write"
  /\ files' = [files EXCEPT !.cwd = put[u].c]
  /\ watcher' = Told("cwd")
  /\ put' = [put EXCEPT ![u] = Resting]
  /\ UNCHANGED <<cfg, env, viper, home, compiled, unsaved, form, changes, starts>>

\* The file cannot be opened: the caller is told, and Cfg keeps the change.
WriteFails(u) ==
  /\ put[u].at = "truncate"
  /\ unsaved' = TRUE
  /\ put' = [put EXCEPT ![u] = Resting]
  /\ UNCHANGED <<cfg, env, viper, files, home, watcher, compiled, form,
                 changes, starts>>

\* The process dies, wherever it is, and starts again, perhaps in another
\* environment.
ConfigRestart ==
  /\ starts < MaxStarts
  /\ starts' = starts + 1
  /\ env' \in Envs /\ Starts(files, env')
  /\ home' = Found(files)
  /\ viper' = Read(files, home')
  /\ cfg' = Loaded(files, env')
  /\ compiled' = cfg'.rules
  /\ watcher' = "idle" /\ unsaved' = FALSE
  /\ put' = [u \in Users |-> Resting]
  /\ UNCHANGED <<files, form, changes>>

Watch == WatchRead \/ WatchApply

Saving(u) ==
  \/ RejectPut(u) \/ SaveConfig(u) \/ Marshal(u)
  \/ Truncate(u) \/ WriteFile(u) \/ WriteFails(u)

ConfigNext ==
  \/ \E f \in {"cwd", "etc"} : EditFile(f)
  \/ Watch
  \/ \E u \in Users : GetConfig(u) \/ PutConfig(u) \/ Saving(u)
  \/ ConfigRestart

ConfigSpec == ConfigInit /\ [][ConfigNext]_configVars

----------------------------------------------------------------------------
(* Properties.                                                             *)

ConfigTypeOK ==
  /\ home \in {"cwd", "etc", "none"}
  /\ watcher \in {"idle", "told", "read", "again"}
  /\ home = "none" => watcher = "idle"
  /\ changes \in 0 .. MaxChanges

Writes(u) == put[u].at \in {"marshal", "truncate", "write"}

\* "Restore redacted values from the active configuration" (config.go:189):
\* what the dashboard shows in place of a key never becomes the key, in
\* memory or in a file, however old the form is that is put back.
NoPlaceholderKey ==
  Placeholder \notin {cfg.key, files.cwd.key, files.etc.key}

Settled == watcher = "idle" /\ \A u \in Users : ~Writes(u)

\* When the watcher is done and nobody is writing, what was read last is the
\* watched file, unless that is no YAML, and everything it says, or the
\* environment in its place, is in force, and no number is unset, unless it
\* did not decode; whichever edits and puts crossed each other, unless a put
\* could not write it (config.go:161-183, :207-215).
ActiveFollowsFile ==
  (home # "none" /\ Settled /\ ~unsaved) =>
    /\ files[home] # Broken => viper = files[home]
    /\ LET s == Settings(viper, env) IN
       Decodes(s) => cfg = validateConfig(Unmarshal(cfg, s))

\* "dynamically reload WAF rules and budgets without pod restarts"
\* (CHANGELOG.md:26): the firewall matches the blocklist that is in force.
RulesFollowConfig == Settled => compiled = cfg.rules
=============================================================================
