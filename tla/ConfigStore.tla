---------------------------- MODULE ConfigStore ----------------------------
(***************************************************************************)
(* The configuration file and its copies in memory:                        *)
(*   LinqoraHost/internal/config/config.go                                 *)
(*   LinqoraHost/cmd/linqora_cli.go (config, auth, serve), linqora_gui.go  *)
(*   LinqoraHost/internal/auth/auth.go (RespondToAuthRequest)              *)
(*                                                                         *)
(* Two processes: the host, with a window or as "serve", and a command     *)
(* line that edits the file.  In the host the window's variable cfg and    *)
(* the authorization manager's config are pointers, to one object or two.  *)
(* A step is a load, a change with the marshalling of the save that        *)
(* follows, or one operation of that save on the file.  The window has one *)
(* thread, so the host saves one change after the other.                   *)
(***************************************************************************)
EXTENDS FiniteSets

CONSTANTS
  CfgDevices,  \* device ids
  CfgSecrets,  \* shared secrets
  NoSecret     \* the empty one

ASSUME ConfigAssumption ==
  /\ NoSecret \in CfgSecrets
  /\ CfgDevices \cap {"off", "loaded", "set"} = {}

VARIABLES
  cfgFile,     \* content of the file: see File
  process,     \* the host: "down", "window" or "serve"
  object,      \* the ServerConfig objects of the host
  cfg,         \* linqora_cli.go: cfg, the object it points to
  amConfig,    \* authManager.config, likewise; "nil" before the first start
  cli,         \* the command line: "off", "loaded" or what it is saving
  cliCfg,      \* its copy
  saving,      \* what each process has marshalled
  stage,       \* of its save: "idle", "begun", "open"
  author,      \* history: whose content the file should have, or "other"
  gone         \* history: devices revoked while no host ran, not approved since

configVars ==
  <<cfgFile, process, object, cfg, amConfig, cli, cliCfg, saving, stage, author, gone>>

Objects == {"a", "b"}
Processes == {"host", "cli"}
Content == [devs : SUBSET CfgDevices, secret : CfgSecrets]
DefaultConfig == [devs |-> {}, secret |-> NoSecret]
Written(content) == [is |-> "written", has |-> content]
Not(is) == [is |-> is, has |-> DefaultConfig]   \* absent; empty and torn do not parse
File == {Written(content) : content \in Content} \cup {Not(is) : is \in {"absent", "empty", "torn"}}

ConfigTypeOK ==
  /\ cfgFile \in File
  /\ process \in {"down", "window", "serve"}
  /\ object \in [Objects -> Content]
  /\ cfg \in Objects \cup {"nil"} /\ amConfig \in Objects \cup {"nil"}
  /\ cli \in {"off", "loaded", "set"} \cup CfgDevices /\ cliCfg \in Content
  /\ saving \in [Processes -> Content]
  /\ stage \in [Processes -> {"idle", "begun", "open"}]
  /\ author \in Objects \cup {"other"}
  /\ gone \subseteq CfgDevices

ConfigInit ==
  /\ cfgFile = Not("absent") /\ process = "down"
  /\ object = [o \in Objects |-> DefaultConfig]
  /\ cfg = "nil" /\ amConfig = "nil"
  /\ cli = "off" /\ cliCfg = DefaultConfig
  /\ saving = [p \in Processes |-> DefaultConfig]
  /\ stage = [p \in Processes |-> "idle"]
  /\ author = "other" /\ gone = {}

-----------------------------------------------------------------------------
(* SaveConfig marshals, and WriteFile truncates... *)
BeginSave(p, content) ==
  /\ saving' = [saving EXCEPT ![p] = content]
  /\ stage' = [stage EXCEPT ![p] = "begun"]

NoSave == UNCHANGED <<saving, stage>>

EndSave(p) ==
  /\ saving' = [saving EXCEPT ![p] = DefaultConfig]
  /\ stage' = [stage EXCEPT ![p] = "idle"]

SaveOpens(p) ==
  /\ stage[p] = "begun"
  /\ cfgFile' = Not("empty")
  /\ stage' = [stage EXCEPT ![p] = "open"]
  /\ author' = IF p = "cli" THEN "other" ELSE author
  /\ UNCHANGED <<process, object, cfg, amConfig, cli, cliCfg, saving, gone>>

(* ... and writes, over what another process may have written meanwhile.     *)
(* With no host running, the device the command line has taken out is gone.  *)
SaveWrites(p) ==
  /\ stage[p] = "open"
  /\ cfgFile' \in {Written(saving[p])} \cup (IF cfgFile.is = "empty" THEN {} ELSE {Not("torn")})
  /\ EndSave(p)
  /\ IF p = "cli"
     THEN /\ cli' = IF cli = "loaded" THEN "loaded" ELSE "off"
          /\ author' = "other"
          /\ gone' = gone \cup (IF process = "down" THEN CfgDevices \cap {cli} ELSE {})
     ELSE /\ author' = IF cfgFile' = Written(saving[p]) /\ stage["cli"] # "open" THEN author ELSE "other"
          /\ UNCHANGED <<cli, gone>>
  /\ UNCHANGED <<process, object, cfg, amConfig, cliCfg>>

(* Either may fail: a command ends with the error, unless it was creating    *)
(* the file, and the host goes on.                                           *)
SaveFails(p) ==
  /\ stage[p] # "idle"
  /\ cfgFile' \in IF stage[p] = "open" THEN {cfgFile, Not("torn")} ELSE {cfgFile}
  /\ EndSave(p)
  /\ cli' = IF p = "cli" /\ cli # "loaded" THEN "off" ELSE cli
  /\ author' = "other"
  /\ UNCHANGED <<process, object, cfg, amConfig, cliCfg, gone>>

(* A process is killed, in the middle of a save or not. *)
Killed(p) ==
  /\ cfgFile' \in IF stage[p] = "open" THEN {cfgFile, Not("torn")} ELSE {cfgFile}
  /\ EndSave(p)
  /\ author' = "other"
  /\ IF p = "cli"
     THEN cli # "off" /\ cli' = "off" /\ UNCHANGED <<process, cfg, amConfig>>
     ELSE /\ process # "down" /\ process' = "down"
          /\ cfg' = "nil" /\ amConfig' = "nil" /\ UNCHANGED cli
  /\ UNCHANGED <<object, cliCfg, gone>>

(* LoadConfig: an absent file gives the defaults, which are saved. *)
Readable == cfgFile.is \in {"written", "absent"}
LoadConfig == cfgFile.has
Create(p) == IF cfgFile.is = "absent" THEN BeginSave(p, DefaultConfig) ELSE NoSave

-----------------------------------------------------------------------------
(* Every command of "config" and "auth" loads first, and ends if the file    *)
(* does not parse.                                                           *)
CliLoad ==
  /\ cli = "off" /\ stage["cli"] = "idle" /\ Readable
  /\ cli' = "loaded" /\ cliCfg' = LoadConfig
  /\ Create("cli")
  /\ UNCHANGED <<cfgFile, process, object, cfg, amConfig, author, gone>>

CliSaves(content, what) ==
  /\ cli = "loaded" /\ stage["cli"] = "idle"
  /\ cli' = what
  /\ cliCfg' = DefaultConfig
  /\ BeginSave("cli", content)
  /\ UNCHANGED <<cfgFile, process, object, cfg, amConfig, author, gone>>

(* Mutant of DeviceRevoke: it saves before it deletes. *)
RevokeSavesFirst(d) == d \in cliCfg.devs /\ CliSaves(cliCfg, d)

DeviceRevoke(d) ==
  d \in cliCfg.devs /\ CliSaves([cliCfg EXCEPT !.devs = @ \ {d}], d)

(* config set and gen-secret. *)
ConfigSet(s) == CliSaves([cliCfg EXCEPT !.secret = s], "set")

(* config show, auth list, and what is refused before anything is saved. *)
CliShow ==
  /\ cli = "loaded" /\ stage["cli"] = "idle" /\ cli' = "off"
  /\ cliCfg' = DefaultConfig
  /\ NoSave /\ UNCHANGED <<cfgFile, process, object, cfg, amConfig, author, gone>>

-----------------------------------------------------------------------------
Idle == stage["host"] = "idle"

(* RunGUI: a file that does not parse counts as the defaults, and stays. *)
RunGUI ==
  /\ process = "down" /\ Idle
  /\ process' = "window" /\ cfg' = "a"
  /\ object' = [object EXCEPT !["a"] = IF Readable THEN LoadConfig ELSE DefaultConfig]
  /\ author' = IF Readable THEN "a" ELSE "other"
  /\ Create("host")
  /\ UNCHANGED <<cfgFile, amConfig, cli, cliCfg, gone>>

(* runServer and StartServerBackground: load, set the TLS fields, save, and  *)
(* hand the object to a new authorization manager.  A file that does not     *)
(* parse is replaced by the defaults.                                        *)
StartServer ==
  /\ process # "serve" /\ Idle
  /\ process' = IF process = "down" THEN "serve" ELSE process
  /\ cfg' = "a" /\ amConfig' = "a" /\ author' = "a"
  /\ LET loaded == IF Readable THEN LoadConfig ELSE DefaultConfig
     IN  object' = [object EXCEPT !["a"] = loaded] /\ BeginSave("host", loaded)
  /\ UNCHANGED <<cfgFile, cli, cliCfg, gone>>

(* A change of the object that x points to, and the save of it. *)
Change(x, content) ==
  /\ x # "nil" /\ Idle
  /\ object' = [object EXCEPT ![x] = content]
  /\ author' = x
  /\ BeginSave("host", content)
  /\ UNCHANGED <<cfgFile, process, cfg, amConfig, cli, cliCfg>>

(* RespondToAuthRequest with an approval, in either kind of host. *)
Approve(d) ==
  /\ amConfig # "nil"
  /\ Change(amConfig, [object[amConfig] EXCEPT !.devs = @ \cup {d}])
  /\ gone' = gone \ {d}

(* Mutant of GuiRevoke: it does not save. *)
GuiRevokeForgets(d) ==
  /\ process = "window" /\ d \in object[cfg].devs /\ Idle
  /\ object' = [object EXCEPT ![cfg].devs = @ \ {d}]
  /\ NoSave /\ UNCHANGED <<cfgFile, process, cfg, amConfig, cli, cliCfg, author, gone>>

(* "Revoke Selected", for a device in the list. *)
GuiRevoke(d) ==
  /\ process = "window" /\ d \in object[cfg].devs
  /\ Change(cfg, [object[cfg] EXCEPT !.devs = @ \ {d}])
  /\ UNCHANGED gone

(* "Save Settings": the form keeps what was loaded when the window opened or *)
(* what was typed since, which may be any secret.                            *)
SaveSettings(s) ==
  /\ process = "window"
  /\ Change(cfg, [object[cfg] EXCEPT !.secret = s])
  /\ UNCHANGED gone

(* "Refresh" makes cfg point to a new object; amConfig keeps the old one. *)
Refresh ==
  /\ process = "window" /\ Idle /\ Readable
  /\ \E o \in Objects \ {amConfig} :
       /\ cfg' = o /\ author' = o
       /\ object' = [object EXCEPT ![o] = LoadConfig]
  /\ Create("host")
  /\ UNCHANGED <<cfgFile, process, amConfig, cli, cliCfg, gone>>

ConfigNext ==
  \/ \E p \in Processes : SaveOpens(p) \/ SaveWrites(p) \/ SaveFails(p) \/ Killed(p)
  \/ CliLoad \/ CliShow
  \/ \E d \in CfgDevices : DeviceRevoke(d) \/ Approve(d) \/ GuiRevoke(d)
  \/ \E s \in CfgSecrets : ConfigSet(s) \/ SaveSettings(s)
  \/ RunGUI \/ StartServer \/ Refresh

ConfigSpec == ConfigInit /\ [][ConfigNext]_configVars

-----------------------------------------------------------------------------
(* "auth revoke" while no host runs: no process has a copy with the device   *)
(* any more, so nothing brings it back before the operator approves it, be   *)
(* it a later save, a crash in a save, or a file replaced by the defaults.   *)
QuietRevocationHolds ==
  \A d \in gone :
    /\ d \notin cfgFile.has.devs
    /\ process # "down" => /\ cfg # "nil" => d \notin object[cfg].devs
                           /\ amConfig # "nil" => d \notin object[amConfig].devs
    /\ Idle \/ d \notin saving["host"].devs

(* With no save under way the file is what the object last loaded or saved   *)
(* holds, until a save fails or another process writes: no change made in    *)
(* the window or by an approval is kept in memory only.                      *)
SettledIsOnDisk ==
  Idle /\ author # "other" /\ stage["cli"] # "open" => cfgFile = Written(object[author])
=============================================================================
