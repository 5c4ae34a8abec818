------------------------------ MODULE ConfigReload ------------------------------
(***************************************************************************)
(* NewConfig of config/config.go, and the reloads that follow it.          *)
(*                                                                         *)
(* NewConfig starts viper's watcher, registers the callback and loads, in  *)
(* this order.  On an event the watcher reads the file as it stands into   *)
(* viper, unexpanded, and then runs the callback, which loads again.  All  *)
(* of it works on one viper without a lock, and so do those who read it.   *)
(*                                                                         *)
(* A load gives viper an empty map first and fills that map afterwards;    *)
(* with a remote provider it fills viper's other map, which is looked at   *)
(* only for what the first one lacks.  A map is the texts it was filled    *)
(* from.  viper and fsnotify are modelled from how they are used.          *)
(***************************************************************************)
EXTENDS ExpandEnv, FiniteSets, SequencesExt

CONSTANTS Texts,       \* what the file may be written to hold
          MaxChanges,  \* bound: changes of the file
          RemoteTexts  \* what a remote provider may hold

ASSUME ReloadAssumption == /\ MaxChanges \in Nat /\ Texts # {}
                           /\ \A text \in Texts : text \in Seq(Char)

Loader == {"main", "watcher"}

\* Without a remote provider, with one whose type can read the file, with another, or
\* with one that url.Parse or AddRemoteProvider refuses.
Provider == {"none", "sameType", "otherType", "refused"}

\* The parser of the file's type: braces are balanced.
Parses(text) ==
  LET Depth(depth, char) == IF depth < 0 THEN -1
                            ELSE IF char = "{" THEN depth + 1
                            ELSE IF char = "}" THEN depth - 1 ELSE depth
  IN  FoldLeft(Depth, 0, text) = 0

VARIABLES
  provider, \* the -remote flag, or REMOTE_CONFIG
  file,     \* the file: whether it exists and what it holds
  events,   \* what the watcher has not looked at yet
  changes,  \* how often the file changed
  watcher,  \* "off", "on", or "ended"
  callback, \* is onConfigChange set
  config,   \* v.config: who made the map, and the texts it was filled from
  kvstore,  \* v.kvstore, the texts it was filled from
  typed,    \* was the provider's type set
  load,     \* what each loader is doing, with the text it read
  fate,     \* "alive" or "crashed"
  past      \* history: "raced": the last load met another one; "shadowed": the file
            \* was read into the map that comes before the provider's

reloadVars == <<provider, file, events, changes, watcher, callback, config, kvstore, typed, load, fate,
          past>>

-------------------------------------------------------------------------------
Idle == [stage |-> "idle", text |-> <<>>]
At(p, stage) == fate = "alive" /\ load[p].stage = stage
Becomes(p, stage) == load' = [load EXCEPT ![p].stage = stage]
Remote == provider # "none"
Loading(p) == load[p].stage \in {"begun", "read", "made"}

ReloadInit == /\ provider \in Provider
              /\ \E text \in Texts : file = [exists |-> TRUE, text |-> text]
              /\ events = <<>> /\ changes = 0
              /\ watcher = "off" /\ callback = FALSE
              /\ config = [owner |-> "none", texts |-> {}]
              /\ kvstore = {} /\ typed = FALSE
              /\ load = [p \in Loader |-> Idle]
              /\ fate = "alive" /\ past = {}

\* The operating system: the file is written, or removed, and the watcher is told.
Notify(event) ==
  /\ changes < MaxChanges /\ fate = "alive"
  /\ changes' = changes + 1
  /\ events' = IF watcher = "on" THEN Append(events, event) ELSE events
  /\ UNCHANGED <<provider, watcher, callback, config, kvstore, typed, load, fate, past>>

WriteFile(text) == file' = [exists |-> TRUE, text |-> text] /\ Notify("write")
RemoveFile == file.exists /\ file' = [file EXCEPT !.exists = FALSE] /\ Notify("remove")

-------------------------------------------------------------------------------
\* NewConfig: watch, then register, then load.
WatchConfig ==
  /\ At("main", "idle") /\ watcher = "off"
  /\ watcher' = "on"
  /\ UNCHANGED <<provider, file, events, changes, callback, config, kvstore, typed, load, fate, past>>

OnConfigChange ==
  /\ At("main", "idle") /\ watcher # "off" /\ ~callback
  /\ callback' = TRUE
  /\ UNCHANGED <<provider, file, events, changes, watcher, config, kvstore, typed, load, fate, past>>

\* Two loads at once.
Begins(p) ==
  /\ Becomes(p, "begun")
  /\ past' = past \cup (IF \E other \in Loader \ {p} : Loading(other) THEN {"raced"} ELSE {})

NewConfigLoads ==
  /\ At("main", "idle") /\ callback
  /\ Begins("main")
  /\ UNCHANGED <<provider, file, events, changes, watcher, callback, config, kvstore, typed, fate>>

\* viper's type is the file's until a provider's was set.
FileReadable == file.exists /\ Parses(file.text) /\ (typed => provider = "sameType")

\* The watcher takes an event: viper reads the file as it is, if it can, and the
\* callback runs in either case.
WatcherReads ==
  /\ At("watcher", "idle") /\ watcher = "on"
  /\ events # <<>> /\ Head(events) = "write"
  /\ events' = Tail(events)
  /\ config' = IF FileReadable THEN [owner |-> "raw", texts |-> {file.text}] ELSE config
  /\ past' = past
             \cup (IF Remote /\ FileReadable THEN {"shadowed"} ELSE {})
             \cup (IF Loading("main") THEN {"raced"} ELSE {})
  /\ load' = [load EXCEPT !["watcher"].stage = "changed"]
  /\ UNCHANGED <<provider, file, changes, watcher, callback, kvstore, typed, fate>>

\* A removed file is not watched any more.
WatcherEnds ==
  /\ At("watcher", "idle") /\ watcher = "on"
  /\ events # <<>> /\ Head(events) = "remove"
  /\ events' = <<>>
  /\ watcher' = "ended"
  /\ UNCHANGED <<provider, file, changes, callback, config, kvstore, typed, load, fate, past>>

\* Mutant of Calls: only the first event is acted upon.
CallsFirst == callback /\ config.owner # "watcher"

\* if v.onConfigChange != nil
Calls == callback

WatcherCalls ==
  /\ At("watcher", "changed")
  /\ IF Calls THEN Begins("watcher") ELSE Becomes("watcher", "idle") /\ UNCHANGED past
  /\ UNCHANGED <<provider, file, events, changes, watcher, callback, config, kvstore, typed, fate>>

-------------------------------------------------------------------------------
\* Mutant of Loaded: the text is loaded as it was read.
LoadedRaw(text) == text

Loaded(text) == expandEnv(text)

\* loadConfig with a file: it is read and expanded.
ReadFile(p) ==
  /\ At(p, "begun") /\ ~Remote
  /\ load' = [load EXCEPT ![p] =
       IF file.exists THEN [stage |-> "read", text |-> Loaded(file.text)]
                      ELSE [stage |-> "failed", text |-> <<>>]]
  /\ UNCHANGED <<provider, file, events, changes, watcher, callback, config, kvstore, typed, fate, past>>

\* Mutant of Fresh: what was loaded before stays in the map.
FreshKept(p) == [owner |-> p, texts |-> config.texts]

\* v.config = make(map[string]any)
Fresh(p) == [owner |-> p, texts |-> {}]

MakeMap(p) ==
  /\ At(p, "read")
  /\ config' = Fresh(p)
  /\ Becomes(p, "made")
  /\ past' = IF p = "watcher" /\ ~Loading("main") THEN past \ {"raced"} ELSE past
  /\ UNCHANGED <<provider, file, events, changes, watcher, callback, kvstore, typed, fate>>

\* v.unmarshalReader(in, v.config): the map is the own one, or one that another has
\* put there, before v.config was read or since.
FillMap(p) ==
  LET filled == [config EXCEPT !.texts = @ \cup {load[p].text}]
  IN  /\ At(p, "made")
      /\ \/ Parses(load[p].text) /\ config' = filled
         \/ Parses(load[p].text) /\ config.owner # p /\ UNCHANGED config
         \/ ~Parses(load[p].text) /\ UNCHANGED config
      /\ load' = [load EXCEPT ![p].stage = IF Parses(load[p].text) THEN "loaded" ELSE "failed"]
      /\ UNCHANGED <<provider, file, events, changes, watcher, callback, kvstore, typed, fate, past>>

\* loadConfigFromRemote: unless the provider is refused, its type is set, and its values
\* are filled into kvstore as they are, unexpanded; or it does not answer.
ReadRemoteConfig(p) ==
  /\ At(p, "begun") /\ Remote
  /\ typed' = (typed \/ provider # "refused")
  /\ \/ /\ provider # "refused"
        /\ \E text \in RemoteTexts : kvstore' = kvstore \cup {text}
        /\ Becomes(p, "loaded")
     \/ Becomes(p, "failed") /\ UNCHANGED kvstore
  /\ UNCHANGED <<provider, file, events, changes, watcher, callback, config, fate, past>>

\* The watcher waits for the next event, whatever came of the load.
Reloaded ==
  /\ At("watcher", "loaded") \/ At("watcher", "failed")
  /\ load' = [load EXCEPT !["watcher"].stage = "idle"]
  /\ UNCHANGED <<provider, file, events, changes, watcher, callback, config, kvstore, typed, fate, past>>

-------------------------------------------------------------------------------
\* A map is filled while the application looks at it, or by two at once: the
\* process dies, if the accesses are noticed.
ConcurrentMapAccess ==
  /\ fate = "alive"
  /\ \/ load["main"].stage = "loaded"
        /\ load["watcher"].stage = (IF Remote THEN "begun" ELSE "made")
     \/ \A p \in Loader : load[p].stage = "made"
  /\ fate' = "crashed"
  /\ UNCHANGED <<provider, file, events, changes, watcher, callback, config, kvstore, typed,
                 load, past>>

LoaderStep(p) == ReadFile(p) \/ MakeMap(p) \/ FillMap(p) \/ ReadRemoteConfig(p)
MainStep == WatchConfig \/ OnConfigChange \/ NewConfigLoads \/ LoaderStep("main")
WatcherStep ==
  WatcherReads \/ WatcherEnds \/ WatcherCalls \/ LoaderStep("watcher") \/ Reloaded

ReloadNext == \/ \E text \in Texts : WriteFile(text)
              \/ RemoveFile
              \/ MainStep \/ WatcherStep
              \/ ConcurrentMapAccess

\* Both goroutines run on; the file need not change.
ReloadSpec == /\ ReloadInit /\ [][ReloadNext]_reloadVars
              /\ WF_reloadVars(MainStep) /\ WF_reloadVars(WatcherStep)

-------------------------------------------------------------------------------
\* Every variable has its type, and a map is filled from one text, unless two loads
\* met (ReadConfig starts with an empty map).
ReloadTypeOK ==
  /\ provider \in Provider
  /\ file.exists \in BOOLEAN /\ file.text \in Texts
  /\ events \in Seq({"write", "remove"}) /\ changes \in 0 .. MaxChanges
  /\ watcher \in {"off", "on", "ended"}
  /\ callback \in BOOLEAN /\ typed \in BOOLEAN
  /\ config.owner \in Loader \cup {"none", "raw"}
  /\ "raced" \notin past => Cardinality(config.texts) <= 1
  /\ kvstore \subseteq RemoteTexts
  /\ \A p \in Loader : load[p].stage \in {"idle", "changed", "begun", "read", "made",
                                          "loaded", "failed"}
  /\ fate \in {"alive", "crashed"} /\ past \subseteq {"raced", "shadowed"}

\* NewConfig has returned a configuration, and the watcher has nothing to do.
Quiet == /\ fate = "alive" /\ load["main"].stage = "loaded"
         /\ watcher = "on" /\ events = <<>> /\ load["watcher"].stage = "idle"

\* What a look at the configuration finds.
Seen == IF config.texts # {} THEN config.texts ELSE kvstore

\* What viper holds: the expansion of the file as it is, or nothing if that does not
\* parse, whatever was there before; of a provider, what it held at some time.
UpToDate ==
  IF Remote THEN Seen # {} /\ Seen \subseteq RemoteTexts
  ELSE LET text == Expansion(file.text)
       IN  config.texts = IF Parses(text) THEN {text} ELSE {}

\* Whenever nothing is going on, the configuration is the file's last version with
\* its variables replaced: events before the registration, between a read and a load
\* or during one are not missed, and the raw text that viper reads itself is gone.
\* Excepted are a load that met another one and a file that shadows a provider; a
\* removed file ends the watching (NewConfig, loadConfig).
FreshWhenQuiet == Quiet /\ past = {} => UpToDate

\* The configuration gets there once the file changes no more, unless NewConfig
\* failed, the process died, or one of those exceptions holds.
Settles ==
  <>[](\/ fate = "crashed" \/ load["main"].stage = "failed"
       \/ watcher = "ended" \/ past # {}
       \/ UpToDate)
===============================================================================
