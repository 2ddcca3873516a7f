----------------------------- MODULE HostProofs -----------------------------
(***************************************************************************)
(* Proofs about a host process: its configuration file, for any devices    *)
(* and secrets (ConfigStore.tla), and its runs, for any number of them     *)
(* (Host.tla); and about the clipboard it watches, for any texts and       *)
(* capacity (Clipboard.tla).                                               *)
(*   - the type invariants;                                                *)
(*   - a device taken out while no host runs does not come back by itself; *)
(*   - between saves the file holds what the host's object holds;          *)
(*   - the announcement is that of the run the host stands for, and as     *)
(*     long as no run fails, that run is watched;                          *)
(*   - a clipboard feed at rest has told what the clipboard holds.         *)
(* The second needs to know that nothing that can still reach the file     *)
(* has the device, the third what a save under way will write, the fourth  *)
(* that a failure is never forgotten, the last which text is the latest    *)
(* under way.                                                              *)
(***************************************************************************)
EXTENDS ConfigStore, Host, Clipboard, SequenceTheorems, TLAPS

USE ConfigAssumption DEF ConfigAssumption, Processes, Objects

-----------------------------------------------------------------------------
(* Contents and what the file may hold. *)
LEMMA ContentTypes ==
  /\ DefaultConfig \in Content /\ DefaultConfig.devs = {}
  /\ \A is \in {"absent", "empty", "torn"} :
       /\ Not(is) \in File
       /\ Not(is).is = is /\ Not(is).has = DefaultConfig
  /\ \A content \in Content :
       /\ Written(content) \in File
       /\ Written(content).is = "written" /\ Written(content).has = content
  /\ \A f \in File : /\ f.has \in Content
                     /\ f.is = "written" => f = Written(f.has)
                     /\ f.is # "written" => f.has = DefaultConfig
<1>1. DefaultConfig \in Content /\ DefaultConfig.devs = {}
  BY DEF DefaultConfig, Content
<1> QED
  BY <1>1 DEF Not, Written, File

LEMMA EditedTypes ==
  ASSUME NEW content \in Content, NEW d \in CfgDevices, NEW s \in CfgSecrets
  PROVE  /\ [content EXCEPT !.devs = @ \ {d}] \in Content
         /\ [content EXCEPT !.devs = @ \ {d}].devs = content.devs \ {d}
         /\ [content EXCEPT !.devs = @ \cup {d}] \in Content
         /\ [content EXCEPT !.devs = @ \cup {d}].devs = content.devs \cup {d}
         /\ [content EXCEPT !.secret = s] \in Content
         /\ [content EXCEPT !.secret = s].devs = content.devs
BY DEF Content

(* What a save leaves of the two functions over the processes.               *)
LEMMA SaveTypes ==
  ASSUME ConfigTypeOK, NEW p \in Processes, NEW content \in Content
  PROVE  /\ BeginSave(p, content) =>
              /\ saving' \in [Processes -> Content]
              /\ stage' \in [Processes -> {"idle", "begun", "open"}]
              /\ saving'[p] = content /\ stage'[p] = "begun"
              /\ \A q \in Processes \ {p} : saving'[q] = saving[q] /\ stage'[q] = stage[q]
         /\ EndSave(p) =>
              /\ saving' \in [Processes -> Content]
              /\ stage' \in [Processes -> {"idle", "begun", "open"}]
              /\ saving'[p] = DefaultConfig /\ stage'[p] = "idle"
              /\ \A q \in Processes \ {p} : saving'[q] = saving[q] /\ stage'[q] = stage[q]
BY ContentTypes DEF ConfigTypeOK, BeginSave, EndSave

(* LoadConfig, and the file it may create. *)
LEMMA CreateTypes ==
  ASSUME ConfigTypeOK, NEW p \in Processes, Create(p)
  PROVE  /\ saving' \in [Processes -> Content]
         /\ stage' \in [Processes -> {"idle", "begun", "open"}]
         /\ \A q \in Processes \ {p} : saving'[q] = saving[q] /\ stage'[q] = stage[q]
         /\ \/ saving'[p] = saving[p] /\ stage'[p] = stage[p] /\ cfgFile.is # "absent"
            \/ saving'[p] = DefaultConfig /\ stage'[p] = "begun" /\ cfgFile.is = "absent"
BY ContentTypes, SaveTypes DEF Create, NoSave, ConfigTypeOK

-----------------------------------------------------------------------------
(* What can still reach the file, or be loaded from it, is clean of the      *)
(* devices that are gone.                                                    *)
Clean(content) == gone \cap content.devs = {}

Quiet ==
  /\ Clean(cfgFile.has)
  /\ cli = "loaded" => Clean(cliCfg)
  /\ cli \in CfgDevices => cli \notin saving["cli"].devs
  /\ \A p \in Processes : stage[p] = "idle" \/ Clean(saving[p])
  /\ process = "down" => cfg = "nil" /\ amConfig = "nil" /\ Idle
  /\ cfg # "nil" => Clean(object[cfg])
  /\ amConfig # "nil" => Clean(object[amConfig])

(* What a save under way will write is what the author holds. *)
Settled ==
  author # "other" =>
    /\ ~Idle => saving["host"] = object[author]
    /\ Idle /\ stage["cli"] # "open" => cfgFile = Written(object[author])

ConfigInv == ConfigTypeOK /\ Quiet /\ Settled

LEMMA ConfigInitially == ConfigInit => ConfigInv
<1> SUFFICES ASSUME ConfigInit PROVE ConfigInv
  OBVIOUS
<1>1. ConfigTypeOK
  BY ContentTypes DEF ConfigInit, ConfigTypeOK
<1>2. Quiet
  BY ContentTypes DEF ConfigInit, Quiet, Clean, Idle
<1> QED
  BY <1>1, <1>2 DEF ConfigInit, ConfigInv, Settled

-----------------------------------------------------------------------------
(* The steps of a save.                                                      *)
LEMMA OpensKeeps ==
  ASSUME ConfigInv, NEW p \in Processes, SaveOpens(p)
  PROVE  ConfigInv'
<1>1. ConfigTypeOK /\ Quiet /\ Settled
  BY DEF ConfigInv
<1>2. /\ cfgFile' = Not("empty") /\ stage[p] = "begun"
      /\ stage' \in [Processes -> {"idle", "begun", "open"}] /\ stage'[p] = "open"
      /\ \A q \in Processes \ {p} : stage'[q] = stage[q]
      /\ author' = IF p = "cli" THEN "other" ELSE author
      /\ UNCHANGED <<process, object, cfg, amConfig, cli, cliCfg, saving, gone>>
  BY <1>1 DEF SaveOpens, ConfigTypeOK
<1>3. ConfigTypeOK'
  BY <1>1, <1>2, ContentTypes DEF ConfigTypeOK
<1>4. Quiet'
  BY <1>1, <1>2, ContentTypes DEF Quiet, Clean, Idle
<1>5. Settled'
  BY <1>1, <1>2 DEF Settled, Idle
<1> QED
  BY <1>3, <1>4, <1>5 DEF ConfigInv

LEMMA WritesKeeps ==
  ASSUME ConfigInv, NEW p \in Processes, SaveWrites(p)
  PROVE  ConfigInv'
<1>1. ConfigTypeOK /\ Quiet /\ Settled
  BY DEF ConfigInv
<1>2. /\ stage[p] = "open"
      /\ saving' \in [Processes -> Content]
      /\ stage' \in [Processes -> {"idle", "begun", "open"}] /\ stage'[p] = "idle"
      /\ \A q \in Processes \ {p} : saving'[q] = saving[q] /\ stage'[q] = stage[q]
      /\ UNCHANGED <<process, object, cfg, amConfig, cliCfg>>
      /\ saving[p] \in Content
  BY <1>1, ContentTypes, SaveTypes DEF SaveWrites, ConfigTypeOK
<1>3. cfgFile' = Written(saving[p]) \/ cfgFile' = Not("torn")
  BY DEF SaveWrites
<1>4. cfgFile' \in File /\ cfgFile'.has \in {saving[p], DefaultConfig}
  BY <1>2, <1>3, ContentTypes
<1>5. CASE p = "cli"
  <2>1. /\ cli' = IF cli = "loaded" THEN "loaded" ELSE "off"
        /\ author' = "other"
        /\ gone' = gone \cup (IF process = "down" THEN CfgDevices \cap {cli} ELSE {})
    BY <1>5 DEF SaveWrites
  <2>2. ConfigTypeOK'
    BY <1>1, <1>2, <1>4, <2>1 DEF ConfigTypeOK
  <2>3. gone' \cap saving["cli"].devs = {}
    BY <1>1, <1>2, <1>5, <2>1 DEF Quiet, Clean
  <2>4. Clean(cfgFile.has)'
    BY <1>4, <1>5, <2>3, ContentTypes DEF Clean
  <2>5. cli' = "loaded" => gone' = gone
    BY <2>1
  <2>6. process # "down" => gone' = gone
    BY <2>1
  <2>7. process = "down" => stage["host"] = "idle"
    BY <1>1 DEF Quiet, Idle
  <2>8. Quiet'
    BY <1>1, <1>2, <1>5, <2>1, <2>4, <2>5, <2>6, <2>7 DEF Quiet, Clean, Idle
  <2> QED
    BY <2>1, <2>2, <2>8 DEF ConfigInv, Settled
<1>6. CASE p = "host"
  <2>1. /\ author' = IF cfgFile' = Written(saving["host"]) /\ stage["cli"] # "open"
                     THEN author ELSE "other"
        /\ UNCHANGED <<cli, gone>>
    BY <1>6 DEF SaveWrites
  <2>2. ConfigTypeOK'
    BY <1>1, <1>2, <1>4, <2>1 DEF ConfigTypeOK
  <2>3. Clean(saving["host"])
    BY <1>1, <1>2, <1>6 DEF Quiet
  <2>4. Quiet'
    BY <1>1, <1>2, <1>4, <1>6, <2>1, <2>3, ContentTypes DEF Quiet, Clean, Idle
  <2>5. Settled'
    BY <1>1, <1>2, <1>6, <2>1 DEF Settled, Idle
  <2> QED
    BY <2>2, <2>4, <2>5 DEF ConfigInv
<1> QED
  BY <1>5, <1>6

(* A save that fails, or is cut short with its process.                      *)
LEMMA FailsKeeps ==
  ASSUME ConfigInv, NEW p \in Processes, SaveFails(p) \/ Killed(p)
  PROVE  ConfigInv'
<1>1. ConfigTypeOK /\ Quiet /\ Settled
  BY DEF ConfigInv
<1>2. /\ cfgFile' = cfgFile \/ cfgFile' = Not("torn")
      /\ author' = "other" /\ UNCHANGED <<object, cliCfg, gone>>
  BY DEF SaveFails, Killed
<1>3. EndSave(p)
  BY DEF SaveFails, Killed
<1>4. /\ saving' \in [Processes -> Content]
      /\ stage' \in [Processes -> {"idle", "begun", "open"}]
      /\ saving'[p] = DefaultConfig /\ stage'[p] = "idle"
      /\ \A q \in Processes \ {p} : saving'[q] = saving[q] /\ stage'[q] = stage[q]
  BY <1>1, <1>3, ContentTypes, SaveTypes
<1>5. /\ cli' \in {cli, "off"}
      /\ \/ UNCHANGED <<process, cfg, amConfig>>
         \/ p = "host" /\ process' = "down" /\ cfg' = "nil" /\ amConfig' = "nil"
  BY DEF SaveFails, Killed
<1>6. ConfigTypeOK'
  BY <1>1, <1>2, <1>4, <1>5, ContentTypes DEF ConfigTypeOK
<1>7. Quiet'
  BY <1>1, <1>2, <1>4, <1>5, ContentTypes DEF Quiet, Clean, Idle
<1> QED
  BY <1>2, <1>6, <1>7 DEF ConfigInv, Settled

-----------------------------------------------------------------------------
(* The steps of the command line.                                            *)
LEMMA CliLoadKeeps == ASSUME ConfigInv, CliLoad PROVE ConfigInv'
<1>1. ConfigTypeOK /\ Quiet /\ Settled
  BY DEF ConfigInv
<1>2. /\ cli' = "loaded" /\ cliCfg' = cfgFile.has /\ Create("cli") /\ stage["cli"] = "idle"
      /\ UNCHANGED <<cfgFile, process, object, cfg, amConfig, author, gone>>
  BY DEF CliLoad, LoadConfig
<1>3. /\ saving' \in [Processes -> Content]
      /\ stage' \in [Processes -> {"idle", "begun", "open"}]
      /\ saving'["host"] = saving["host"] /\ stage'["host"] = stage["host"]
      /\ \/ saving'["cli"] = saving["cli"] /\ stage'["cli"] = stage["cli"]
         \/ saving'["cli"] = DefaultConfig /\ stage'["cli"] = "begun"
  BY <1>1, <1>2, CreateTypes
<1>4. ConfigTypeOK'
  BY <1>1, <1>2, <1>3, ContentTypes DEF ConfigTypeOK
<1>5. Quiet'
  BY <1>1, <1>2, <1>3, ContentTypes DEF Quiet, Clean, Idle
<1>6. Settled'
  BY <1>1, <1>2, <1>3 DEF Settled, Idle
<1> QED
  BY <1>4, <1>5, <1>6 DEF ConfigInv

LEMMA CliSavesKeeps ==
  ASSUME ConfigInv, NEW content \in Content, NEW what \in {"set"} \cup CfgDevices,
         CliSaves(content, what),
         Clean(cliCfg) => Clean(content),
         what \in CfgDevices => what \notin content.devs
  PROVE  ConfigInv'
<1>1. ConfigTypeOK /\ Quiet /\ Settled
  BY DEF ConfigInv
<1>2. /\ cli = "loaded" /\ stage["cli"] = "idle" /\ cli' = what /\ cliCfg' = DefaultConfig
      /\ BeginSave("cli", content)
      /\ UNCHANGED <<cfgFile, process, object, cfg, amConfig, author, gone>>
  BY DEF CliSaves
<1>3. /\ saving' \in [Processes -> Content]
      /\ stage' \in [Processes -> {"idle", "begun", "open"}]
      /\ saving'["host"] = saving["host"] /\ stage'["host"] = stage["host"]
      /\ saving'["cli"] = content /\ stage'["cli"] = "begun"
  BY <1>1, <1>2, SaveTypes
<1>4. ConfigTypeOK'
  BY <1>1, <1>2, <1>3, ContentTypes DEF ConfigTypeOK
<1>5. Clean(content)
  BY <1>1, <1>2 DEF Quiet
<1>6. Quiet'
  BY <1>1, <1>2, <1>3, <1>5 DEF Quiet, Clean, Idle
<1>7. Settled'
  BY <1>1, <1>2, <1>3 DEF Settled, Idle
<1> QED
  BY <1>4, <1>6, <1>7 DEF ConfigInv

LEMMA CliEditsKeep ==
  ASSUME ConfigInv,
         \/ \E d \in CfgDevices : DeviceRevoke(d)
         \/ \E s \in CfgSecrets : ConfigSet(s)
         \/ CliShow
  PROVE  ConfigInv'
<1>1. ConfigTypeOK /\ Quiet /\ Settled
  BY DEF ConfigInv
<1>2. ASSUME NEW d \in CfgDevices, DeviceRevoke(d) PROVE ConfigInv'
  <2> DEFINE content == [cliCfg EXCEPT !.devs = @ \ {d}]
  <2>1. content \in Content /\ content.devs = cliCfg.devs \ {d}
    BY <1>1, EditedTypes DEF ConfigTypeOK
  <2>2. CliSaves(content, d)
    BY <1>2 DEF DeviceRevoke
  <2> HIDE DEF content
  <2>3. Clean(cliCfg) => Clean(content)
    BY <2>1 DEF Clean
  <2> QED
    BY <2>1, <2>2, <2>3, CliSavesKeeps
<1>3. ASSUME NEW s \in CfgSecrets, ConfigSet(s) PROVE ConfigInv'
  <2> DEFINE content == [cliCfg EXCEPT !.secret = s]
  <2>1. content \in Content /\ content.devs = cliCfg.devs
    BY <1>1 DEF ConfigTypeOK, Content
  <2>2. CliSaves(content, "set")
    BY <1>3 DEF ConfigSet
  <2> HIDE DEF content
  <2>3. Clean(cliCfg) => Clean(content)
    BY <2>1 DEF Clean
  <2> QED
    BY <2>1, <2>2, <2>3, CliSavesKeeps
<1>4. ASSUME CliShow PROVE ConfigInv'
  <2>1. /\ cli' = "off" /\ cliCfg' = DefaultConfig /\ UNCHANGED <<saving, stage>>
        /\ UNCHANGED <<cfgFile, process, object, cfg, amConfig, author, gone>>
    BY <1>4 DEF CliShow, NoSave
  <2>2. ConfigTypeOK'
    BY <1>1, <2>1, ContentTypes DEF ConfigTypeOK
  <2>3. Quiet'
    BY <1>1, <2>1 DEF Quiet, Clean, Idle
  <2>4. Settled'
    BY <1>1, <2>1 DEF Settled, Idle
  <2> QED
    BY <2>2, <2>3, <2>4 DEF ConfigInv
<1> QED
  BY <1>2, <1>3, <1>4

-----------------------------------------------------------------------------
(* The steps of the host.                                                    *)
LEMMA StartsKeep == ASSUME ConfigInv, RunGUI \/ StartServer PROVE ConfigInv'
<1>1. ConfigTypeOK /\ Quiet /\ Settled
  BY DEF ConfigInv
<1> DEFINE loaded == IF Readable THEN LoadConfig ELSE DefaultConfig
<1>2. loaded \in Content /\ Clean(loaded)
  BY <1>1, ContentTypes DEF ConfigTypeOK, Quiet, Clean, LoadConfig
<1>3. CASE RunGUI
  <2>1. /\ process = "down" /\ stage["host"] = "idle" /\ process' = "window" /\ cfg' = "a"
        /\ object' = [object EXCEPT !["a"] = loaded]
        /\ author' = IF Readable THEN "a" ELSE "other"
        /\ Create("host")
        /\ UNCHANGED <<cfgFile, amConfig, cli, cliCfg, gone>>
    BY <1>3 DEF RunGUI, Idle
  <2>2. object'["a"] = loaded /\ object' \in [Objects -> Content]
    BY <1>1, <1>2, <2>1 DEF ConfigTypeOK
  <2>3. /\ saving' \in [Processes -> Content]
        /\ stage' \in [Processes -> {"idle", "begun", "open"}]
        /\ saving'["cli"] = saving["cli"] /\ stage'["cli"] = stage["cli"]
        /\ \/ saving'["host"] = saving["host"] /\ stage'["host"] = stage["host"] /\ cfgFile.is # "absent"
           \/ saving'["host"] = DefaultConfig /\ stage'["host"] = "begun" /\ cfgFile.is = "absent"
    BY <1>1, <2>1, CreateTypes
  <2>4. ConfigTypeOK'
    BY <1>1, <2>1, <2>2, <2>3 DEF ConfigTypeOK
  <2>5. Quiet'
    BY <1>1, <1>2, <2>1, <2>2, <2>3, ContentTypes DEF Quiet, Clean, Idle
  <2>6. Readable /\ cfgFile.is # "absent" => cfgFile = Written(loaded)
    BY <1>1, ContentTypes DEF ConfigTypeOK, Readable, LoadConfig
  <2>7. Readable /\ cfgFile.is = "absent" => loaded = DefaultConfig
    BY <1>1, ContentTypes DEF ConfigTypeOK, Readable, LoadConfig
  <2>8. Settled'
    BY <2>1, <2>2, <2>3, <2>6, <2>7 DEF Settled, Idle
  <2> QED
    BY <2>4, <2>5, <2>8 DEF ConfigInv
<1>4. CASE StartServer
  <2>1. /\ process # "serve" /\ process' = IF process = "down" THEN "serve" ELSE process
        /\ cfg' = "a" /\ amConfig' = "a" /\ author' = "a"
        /\ object' = [object EXCEPT !["a"] = loaded] /\ BeginSave("host", loaded)
        /\ UNCHANGED <<cfgFile, cli, cliCfg, gone>>
    BY <1>4 DEF StartServer
  <2>2. object'["a"] = loaded /\ object' \in [Objects -> Content]
    BY <1>1, <1>2, <2>1 DEF ConfigTypeOK
  <2>3. /\ saving' \in [Processes -> Content]
        /\ stage' \in [Processes -> {"idle", "begun", "open"}]
        /\ saving'["cli"] = saving["cli"] /\ stage'["cli"] = stage["cli"]
        /\ saving'["host"] = loaded /\ stage'["host"] = "begun"
    BY <1>1, <1>2, <2>1, SaveTypes
  <2>4. ConfigTypeOK'
    BY <1>1, <2>1, <2>2, <2>3 DEF ConfigTypeOK
  <2>5. Quiet'
    BY <1>1, <1>2, <2>1, <2>2, <2>3 DEF Quiet, Clean, Idle, ConfigTypeOK
  <2>6. Settled'
    BY <2>1, <2>2, <2>3 DEF Settled, Idle
  <2> QED
    BY <2>4, <2>5, <2>6 DEF ConfigInv
<1> QED
  BY <1>3, <1>4

(* A change in the host: what it saves has no device that is gone after it.  *)
LEMMA ChangeKeeps ==
  ASSUME ConfigInv, NEW x \in Objects, NEW content \in Content, Change(x, content), process # "down",
         gone' \subseteq gone, gone' \cap content.devs = {}
  PROVE  ConfigInv'
<1>1. ConfigTypeOK /\ Quiet /\ Settled
  BY DEF ConfigInv
<1>2. /\ stage["host"] = "idle" /\ x # "nil"
      /\ object' = [object EXCEPT ![x] = content] /\ author' = x
      /\ BeginSave("host", content)
      /\ UNCHANGED <<cfgFile, process, cfg, amConfig, cli, cliCfg>>
  BY DEF Change, Idle
<1>3. object' \in [Objects -> Content] /\ \A y \in Objects : object'[y] \in {object[y], content}
  BY <1>1, <1>2 DEF ConfigTypeOK
<1>4. object'[x] = content
  BY <1>1, <1>2 DEF ConfigTypeOK
<1>5. /\ saving' \in [Processes -> Content]
      /\ stage' \in [Processes -> {"idle", "begun", "open"}]
      /\ saving'["cli"] = saving["cli"] /\ stage'["cli"] = stage["cli"]
      /\ saving'["host"] = content /\ stage'["host"] = "begun"
  BY <1>1, <1>2, SaveTypes
<1>6. ConfigTypeOK'
  BY <1>1, <1>2, <1>3, <1>5 DEF ConfigTypeOK
<1>7. \A c \in Content : Clean(c) \/ c = content => gone' \cap c.devs = {}
  BY DEF Clean
<1>8. /\ cfg # "nil" => gone' \cap object'[cfg].devs = {}
      /\ amConfig # "nil" => gone' \cap object'[amConfig].devs = {}
  BY <1>1, <1>3, <1>7 DEF Quiet, Clean, ConfigTypeOK
<1>9. Quiet'
  BY <1>1, <1>2, <1>5, <1>8 DEF Quiet, Clean, Idle
<1>10. Settled'
  BY <1>2, <1>4, <1>5 DEF Settled, Idle
<1> QED
  BY <1>6, <1>9, <1>10 DEF ConfigInv

LEMMA HostEditsKeep ==
  ASSUME ConfigInv,
         \/ \E d \in CfgDevices : Approve(d) \/ GuiRevoke(d)
         \/ \E s \in CfgSecrets : SaveSettings(s)
  PROVE  ConfigInv'
<1>1. ConfigTypeOK /\ Quiet /\ Settled
  BY DEF ConfigInv
<1>2. ASSUME NEW d \in CfgDevices, Approve(d) PROVE ConfigInv'
  <2> DEFINE content == [object[amConfig] EXCEPT !.devs = @ \cup {d}]
  <2>1. amConfig \in Objects /\ object[amConfig] \in Content /\ Clean(object[amConfig])
    BY <1>1, <1>2 DEF Approve, ConfigTypeOK, Quiet
  <2>2. content \in Content /\ content.devs = object[amConfig].devs \cup {d}
    BY <2>1, EditedTypes
  <2>3. Change(amConfig, content) /\ gone' = gone \ {d} /\ process # "down"
    BY <1>1, <1>2 DEF Approve, Quiet
  <2> HIDE DEF content
  <2>4. gone' \cap content.devs = {}
    BY <2>1, <2>2, <2>3 DEF Clean
  <2> QED
    BY <2>1, <2>2, <2>3, <2>4, ChangeKeeps
<1>3. ASSUME NEW d \in CfgDevices, GuiRevoke(d) PROVE ConfigInv'
  <2> DEFINE content == [object[cfg] EXCEPT !.devs = @ \ {d}]
  <2>1. Change(cfg, content) /\ gone' = gone /\ process # "down" /\ cfg # "nil"
    BY <1>3 DEF GuiRevoke, Change
  <2>2. cfg \in Objects /\ object[cfg] \in Content /\ Clean(object[cfg])
    BY <1>1, <2>1 DEF ConfigTypeOK, Quiet
  <2>3. content \in Content /\ content.devs = object[cfg].devs \ {d}
    BY <2>2, EditedTypes
  <2> HIDE DEF content
  <2>4. gone' \cap content.devs = {}
    BY <2>1, <2>2, <2>3 DEF Clean
  <2> QED
    BY <2>1, <2>2, <2>3, <2>4, ChangeKeeps
<1>4. ASSUME NEW s \in CfgSecrets, SaveSettings(s) PROVE ConfigInv'
  <2> DEFINE content == [object[cfg] EXCEPT !.secret = s]
  <2>1. Change(cfg, content) /\ gone' = gone /\ process # "down" /\ cfg # "nil"
    BY <1>4 DEF SaveSettings, Change
  <2>2. cfg \in Objects /\ object[cfg] \in Content /\ Clean(object[cfg])
    BY <1>1, <2>1 DEF ConfigTypeOK, Quiet
  <2>3. content \in Content /\ content.devs = object[cfg].devs
    BY <2>2 DEF Content
  <2> HIDE DEF content
  <2>4. gone' \cap content.devs = {}
    BY <2>1, <2>2, <2>3 DEF Clean
  <2> QED
    BY <2>1, <2>2, <2>3, <2>4, ChangeKeeps
<1> QED
  BY <1>2, <1>3, <1>4

LEMMA RefreshKeeps == ASSUME ConfigInv, Refresh PROVE ConfigInv'
<1>1. ConfigTypeOK /\ Quiet /\ Settled
  BY DEF ConfigInv
<1>2. PICK o \in Objects \ {amConfig} :
        cfg' = o /\ author' = o /\ object' = [object EXCEPT ![o] = cfgFile.has]
  BY DEF Refresh, LoadConfig
<1>3. /\ process = "window" /\ stage["host"] = "idle" /\ Readable /\ Create("host")
      /\ UNCHANGED <<cfgFile, process, amConfig, cli, cliCfg, gone>>
  BY DEF Refresh, Idle
<1>4. cfgFile.has \in Content /\ Clean(cfgFile.has)
  BY <1>1, ContentTypes DEF ConfigTypeOK, Quiet
<1>5. /\ object' \in [Objects -> Content] /\ object'[o] = cfgFile.has
      /\ \A y \in Objects \ {o} : object'[y] = object[y]
  BY <1>1, <1>2, <1>4 DEF ConfigTypeOK
<1>6. /\ saving' \in [Processes -> Content]
      /\ stage' \in [Processes -> {"idle", "begun", "open"}]
      /\ saving'["cli"] = saving["cli"] /\ stage'["cli"] = stage["cli"]
      /\ \/ saving'["host"] = saving["host"] /\ stage'["host"] = stage["host"] /\ cfgFile.is # "absent"
         \/ saving'["host"] = DefaultConfig /\ stage'["host"] = "begun" /\ cfgFile.is = "absent"
  BY <1>1, <1>3, CreateTypes
<1>7. ConfigTypeOK'
  BY <1>1, <1>2, <1>3, <1>5, <1>6 DEF ConfigTypeOK
<1>8. amConfig # "nil" => object'[amConfig] = object[amConfig]
  BY <1>1, <1>2, <1>5 DEF ConfigTypeOK
<1>9. Quiet'
  BY <1>1, <1>2, <1>3, <1>4, <1>5, <1>6, <1>8, ContentTypes DEF Quiet, Clean, Idle
<1>10. /\ cfgFile.is # "absent" => cfgFile = Written(cfgFile.has)
       /\ cfgFile.is = "absent" => cfgFile.has = DefaultConfig
  BY <1>1, <1>3, ContentTypes DEF ConfigTypeOK, Readable
<1>11. Settled'
  BY <1>2, <1>3, <1>5, <1>6, <1>10 DEF Settled, Idle
<1> QED
  BY <1>7, <1>9, <1>11 DEF ConfigInv

LEMMA ConfigStep == ConfigInv /\ [ConfigNext]_configVars => ConfigInv'
<1>1. ConfigInv /\ UNCHANGED configVars => ConfigInv'
  BY DEF configVars, ConfigInv, ConfigTypeOK, Quiet, Settled, Clean, Idle
<1> QED
  BY <1>1, OpensKeeps, WritesKeeps, FailsKeeps, CliLoadKeeps, CliEditsKeep, StartsKeep,
     HostEditsKeep, RefreshKeeps
     DEF ConfigNext

LEMMA ConfigInvariant == ConfigSpec => []ConfigInv
BY ConfigInitially, ConfigStep, PTL DEF ConfigSpec

-----------------------------------------------------------------------------
(* The type invariant. *)
THEOREM ConfigTypes == ConfigSpec => []ConfigTypeOK
<1>1. ConfigInv => ConfigTypeOK
  BY DEF ConfigInv
<1> QED
  BY ConfigInvariant, <1>1, PTL

(* "auth revoke" with no host running: neither the file nor any copy that    *)
(* may be written to it has the device again, until it is approved again.    *)
THEOREM QuietRevocationsHold == ConfigSpec => []QuietRevocationHolds
<1>1. ConfigInv => QuietRevocationHolds
  BY DEF ConfigInv, Quiet, Clean, Idle, QuietRevocationHolds
<1> QED
  BY ConfigInvariant, <1>1, PTL

(* Between two saves, and until one fails or another process writes, the     *)
(* file is what the host's object holds.                                     *)
THEOREM ChangesReachTheDisk == ConfigSpec => []SettledIsOnDisk
<1>1. ConfigInv => SettledIsOnDisk
  BY DEF ConfigInv, Settled, SettledIsOnDisk
<1> QED
  BY ConfigInvariant, <1>1, PTL

-----------------------------------------------------------------------------
(* The runs of the server.                                                   *)
LEMMA RunTypes ==
  /\ NewRun \in Run /\ NewRun.advert /\ ~NewRun.stopped /\ NewRun.watched
  /\ StillbornRun \in Run /\ ~StillbornRun.advert /\ StillbornRun.serve = "erred"
<1>1. /\ NewRun.advert = TRUE /\ NewRun.stopped = FALSE /\ NewRun.watched = TRUE
      /\ StillbornRun.advert = FALSE /\ StillbornRun.serve = "erred"
  BY Zenon DEF NewRun, StillbornRun
<1>2. NewRun \in Run /\ StillbornRun \in Run
  BY DEF NewRun, StillbornRun, Run
<1> QED
  BY <1>1, <1>2

LEMMA EditedRuns ==
  ASSUME NEW s \in Seq(Run), NEW r \in DOMAIN s, NEW run \in Run
  PROVE  LET t == [s EXCEPT ![r] = run]
         IN  /\ t \in Seq(Run) /\ Len(t) = Len(s) /\ DOMAIN t = DOMAIN s /\ s[r] \in Run
             /\ DOMAIN s = 1..Len(s) /\ Len(s) \in Nat
             /\ \A q \in DOMAIN s : t[q] = IF q = r THEN run ELSE s[q]
<1>1. DOMAIN s = 1..Len(s) /\ Len(s) \in Nat
  BY LenProperties
<1>2. s[r] \in Run
  BY <1>1, ElementOfSeq
<1> QED
  BY <1>1, <1>2, ExceptSeq

(* What a goroutine of a run does to it: it announces nothing, forgets no    *)
(* failure, and a watcher ends only when its stopCh is closed.               *)
Bad == {"failed", "erred"}

Aged(old, new) ==
  /\ new.advert = old.advert
  /\ old.serve \in Bad => new.serve \in Bad
  /\ new.stopped = old.stopped
  /\ new.watched = old.watched \/ old.stopped

LEMMA RunAges ==
  ASSUME NEW run \in Run, NEW port \in {"none", "bound", "refused", "closed"},
         NEW serve \in {"serving", "closing", "draining", "failed", "ended", "erred"},
         NEW flag \in SUBSET (ContextLoops \cup {"battery"}),
         run.serve \in Bad => serve \in Bad
  PROVE  /\ [run EXCEPT !.port = port] \in Run /\ Aged(run, [run EXCEPT !.port = port])
         /\ [run EXCEPT !.serve = serve] \in Run /\ Aged(run, [run EXCEPT !.serve = serve])
         /\ [run EXCEPT !.serve = serve].serve = serve
         /\ [run EXCEPT !.serve = serve, !.port = port] \in Run
         /\ Aged(run, [run EXCEPT !.serve = serve, !.port = port])
         /\ [run EXCEPT !.serve = serve, !.loops = flag] \in Run
         /\ Aged(run, [run EXCEPT !.serve = serve, !.loops = flag])
         /\ [run EXCEPT !.watched = FALSE] \in Run
         /\ run.stopped => Aged(run, [run EXCEPT !.watched = FALSE])
         /\ [run EXCEPT !.cancelled = TRUE] \in Run /\ Aged(run, [run EXCEPT !.cancelled = TRUE])
         /\ [run EXCEPT !.advert = FALSE] \in Run
         /\ [run EXCEPT !.stopped = TRUE] \in Run
<1>1. /\ [run EXCEPT !.port = port] \in Run /\ [run EXCEPT !.serve = serve] \in Run
      /\ [run EXCEPT !.serve = serve, !.port = port] \in Run
      /\ [run EXCEPT !.serve = serve, !.loops = flag] \in Run
      /\ [run EXCEPT !.watched = FALSE] \in Run /\ [run EXCEPT !.cancelled = TRUE] \in Run
      /\ [run EXCEPT !.advert = FALSE] \in Run /\ [run EXCEPT !.stopped = TRUE] \in Run
  BY DEF Run
<1>2. Aged(run, [run EXCEPT !.port = port])
  BY DEF Run, Aged
<1>3. Aged(run, [run EXCEPT !.serve = serve]) /\ [run EXCEPT !.serve = serve].serve = serve
  BY DEF Run, Aged
<1>4. Aged(run, [run EXCEPT !.serve = serve, !.port = port])
  BY DEF Run, Aged
<1>5. Aged(run, [run EXCEPT !.serve = serve, !.loops = flag])
  BY DEF Run, Aged
<1>6. run.stopped => Aged(run, [run EXCEPT !.watched = FALSE])
  BY DEF Run, Aged
<1>7. Aged(run, [run EXCEPT !.cancelled = TRUE])
  BY DEF Run, Aged
<1> QED
  BY <1>1, <1>2, <1>3, <1>4, <1>5, <1>6, <1>7

HostInv ==
  /\ HostTypeOK
  /\ \A r \in DOMAIN runs : runs[r].advert =>
       /\ r = Newest /\ ui \notin {"stopped", "signalling"}
       /\ mode = "console" => ui # "exited"
  /\ ui \in {"running", "cancelling", "withdrawing", "signalling"} => Newest \in DOMAIN runs
  /\ ui = "running" /\ ~Failed => ~runs[Newest].stopped /\ runs[Newest].watched

LEMMA HostInitially == HostInit => HostInv
<1> SUFFICES ASSUME HostInit PROVE HostInv
  OBVIOUS
<1>1. runs = <<>> /\ Len(runs) = 0 /\ DOMAIN runs = {} /\ runs \in Seq(Run)
  BY DEF HostInit
<1> QED
  BY <1>1, HostAssumption DEF HostInit, HostInv, HostTypeOK, HostAssumption, Doing

(* A step inside a run that ages it alone. *)
LEMMA AgingKeeps ==
  ASSUME HostInv, NEW r \in DOMAIN runs, NEW run \in Run, Aged(runs[r], run),
         runs' = [runs EXCEPT ![r] = run], UNCHANGED <<mode, ui>>
  PROVE  HostInv'
<1>1. runs \in Seq(Run) /\ Len(runs) <= MaxRuns
  BY DEF HostInv, HostTypeOK
<1>2. /\ runs' \in Seq(Run) /\ Len(runs') = Len(runs) /\ DOMAIN runs' = DOMAIN runs
      /\ \A q \in DOMAIN runs : runs'[q] = IF q = r THEN run ELSE runs[q]
  BY <1>1, EditedRuns
<1>3. HostTypeOK'
  BY <1>1, <1>2 DEF HostInv, HostTypeOK
<1>4. Newest' = Newest
  BY <1>2 DEF Newest
<1>5. \A q \in DOMAIN runs : /\ runs'[q].advert = runs[q].advert
                             /\ runs[q].serve \in Bad => runs'[q].serve \in Bad
                             /\ runs'[q].stopped = runs[q].stopped
                             /\ runs'[q].watched = runs[q].watched \/ runs[q].stopped
  BY <1>2 DEF Aged
<1>6. ~Failed' => ~Failed
  BY <1>2, <1>5 DEF Failed, Bad
<1> QED
  BY <1>2, <1>3, <1>4, <1>5, <1>6 DEF HostInv

(* A failed Start closes the stopCh of the newest run, itself failed.        *)
LEMMA FailureKeeps ==
  ASSUME HostInv, NEW r \in DOMAIN runs, CloseStopOnError(r)
  PROVE  HostInv'
<1>1. runs \in Seq(Run) /\ Len(runs) <= MaxRuns
  BY DEF HostInv, HostTypeOK
<1> DEFINE run == [runs[r] EXCEPT !.serve = "erred"]
           s == [runs EXCEPT ![r] = run]
           n == Len(runs)
           last == [s[n] EXCEPT !.stopped = TRUE]
<1>2. runs[r] \in Run /\ DOMAIN runs = 1..n /\ n \in Nat /\ n \in DOMAIN runs
  BY <1>1, LenProperties, ElementOfSeq
<1>3. run \in Run /\ Aged(runs[r], run) /\ run.serve = "erred"
  BY <1>2, RunAges DEF Bad
<1>4. runs' = [s EXCEPT ![n] = last] /\ UNCHANGED <<mode, ui>>
  BY DEF CloseStopOnError, Newest
<1> HIDE DEF run
<1>5. /\ s \in Seq(Run) /\ Len(s) = n /\ DOMAIN s = DOMAIN runs
      /\ \A q \in DOMAIN runs : s[q] = IF q = r THEN run ELSE runs[q]
  BY <1>1, <1>3, EditedRuns
<1> HIDE DEF s
<1>6. s[n] \in Run
  BY <1>2, <1>5, ElementOfSeq
<1>7. last \in Run /\ last.advert = s[n].advert /\ last.serve = s[n].serve
  BY <1>6 DEF Run
<1> HIDE DEF last
<1>8. /\ runs' \in Seq(Run) /\ Len(runs') = n /\ DOMAIN runs' = DOMAIN runs
      /\ \A q \in DOMAIN runs : runs'[q] = IF q = n THEN last ELSE s[q]
  BY <1>2, <1>4, <1>5, <1>7, EditedRuns
<1>9. HostTypeOK'
  BY <1>1, <1>4, <1>8 DEF HostInv, HostTypeOK
<1>10. \A q \in DOMAIN runs : runs'[q].advert = runs[q].advert
  BY <1>3, <1>5, <1>7, <1>8 DEF Aged
<1>11. Failed'
  <2>1. runs'[r].serve = "erred"
    BY <1>3, <1>5, <1>7, <1>8
  <2> QED
    BY <1>8, <2>1 DEF Failed
<1>12. Newest' = Newest
  BY <1>8 DEF Newest
<1> QED
  BY <1>4, <1>8, <1>9, <1>10, <1>11, <1>12 DEF HostInv

LEMMA ServeKeeps ==
  ASSUME HostInv, NEW r \in DOMAIN runs, Serve(r) \/ WatchEnds(r)
  PROVE  HostInv'
<1>1. runs[r] \in Run
  BY LenProperties, ElementOfSeq DEF HostInv, HostTypeOK
<1>2. CASE Listen(r)
  <2>1. PICK port \in {"none", "bound", "refused", "closed"} :
          runs' = [runs EXCEPT ![r] = [runs[r] EXCEPT !.port = port]]
    BY <1>2 DEF Listen
  <2>2. /\ [runs[r] EXCEPT !.port = port] \in Run
        /\ Aged(runs[r], [runs[r] EXCEPT !.port = port])
    BY <1>1 DEF Run, Aged
  <2>3. PICK run \in Run : Aged(runs[r], run) /\ runs' = [runs EXCEPT ![r] = run]
    BY <2>1, <2>2
  <2>4. UNCHANGED <<mode, ui>>
    BY <1>2 DEF Listen
  <2> QED
    BY <2>3, <2>4, AgingKeeps
<1>3. CASE ServeFails(r)
  <2>1. runs' = [runs EXCEPT ![r] = [runs[r] EXCEPT !.serve = "failed"]]
    BY <1>3 DEF ServeFails
  <2> QED
    BY <1>1, <1>3, <2>1, RunAges, AgingKeeps DEF ServeFails, Bad
<1>4. CASE Shutdown(r)
  <2>1. runs' = [runs EXCEPT ![r] = [runs[r] EXCEPT !.serve = "closing"]] /\ runs[r].serve \notin Bad
    BY <1>4 DEF Shutdown, Bad
  <2>2. /\ [runs[r] EXCEPT !.serve = "closing"] \in Run
        /\ Aged(runs[r], [runs[r] EXCEPT !.serve = "closing"])
    BY <1>1, <2>1, RunAges
  <2>3. PICK run \in Run : Aged(runs[r], run) /\ runs' = [runs EXCEPT ![r] = run]
    BY <2>1, <2>2
  <2>4. UNCHANGED <<mode, ui>>
    BY <1>4 DEF Shutdown
  <2> QED
    BY <2>3, <2>4, AgingKeeps
<1>5. CASE CloseListener(r)
  <2>1. PICK port \in {"none", "bound", "refused", "closed"} :
          runs' = [runs EXCEPT ![r] = [runs[r] EXCEPT !.serve = "draining", !.port = port]]
    BY <1>1, <1>5 DEF CloseListener, Run
  <2>2. runs[r].serve \notin Bad
    BY <1>5 DEF CloseListener, Bad
  <2>3. /\ [runs[r] EXCEPT !.serve = "draining", !.port = port] \in Run
        /\ Aged(runs[r], [runs[r] EXCEPT !.serve = "draining", !.port = port])
    BY <1>1, <2>2 DEF Run, Aged
  <2>4. PICK run \in Run : Aged(runs[r], run) /\ runs' = [runs EXCEPT ![r] = run]
    BY <2>1, <2>3
  <2>5. UNCHANGED <<mode, ui>>
    BY <1>5 DEF CloseListener
  <2> QED
    BY <2>4, <2>5, AgingKeeps
<1>6. CASE Drained(r)
  <2>1. runs[r].serve \notin Bad
    BY <1>6 DEF Drained, Bad
  <2>2. \/ runs' = [runs EXCEPT ![r] = [runs[r] EXCEPT !.serve = "ended", !.loops = @ \ ContextLoops]]
        \/ runs' = [runs EXCEPT ![r] = [runs[r] EXCEPT !.serve = "failed"]]
    BY <1>6 DEF Drained
  <2>3. /\ [runs[r] EXCEPT !.serve = "ended", !.loops = @ \ ContextLoops] \in Run
        /\ Aged(runs[r], [runs[r] EXCEPT !.serve = "ended", !.loops = @ \ ContextLoops])
    BY <1>1, <2>1 DEF Run, Aged
  <2>4. /\ [runs[r] EXCEPT !.serve = "failed"] \in Run
        /\ Aged(runs[r], [runs[r] EXCEPT !.serve = "failed"])
    BY <1>1, <2>1, RunAges
  <2>5. UNCHANGED <<mode, ui>>
    BY <1>6 DEF Drained
  <2>6. PICK run \in Run : Aged(runs[r], run) /\ runs' = [runs EXCEPT ![r] = run]
    BY <2>2, <2>3, <2>4
  <2> QED
    BY <2>5, <2>6, AgingKeeps
<1>7. CASE CloseStopOnError(r)
  BY <1>7, FailureKeeps
<1>8. CASE WatchEnds(r)
  <2>1. runs' = [runs EXCEPT ![r] = [runs[r] EXCEPT !.watched = FALSE]] /\ runs[r].stopped
    BY <1>8 DEF WatchEnds
  <2>2. [runs[r] EXCEPT !.watched = FALSE] \in Run /\ Aged(runs[r], [runs[r] EXCEPT !.watched = FALSE])
    BY <1>1, <2>1 DEF Run, Aged
  <2> QED
    BY <1>1, <1>8, <2>1, <2>2, AgingKeeps DEF WatchEnds
<1> QED
  BY <1>2, <1>3, <1>4, <1>5, <1>6, <1>7, <1>8 DEF Serve

(* The window and the console. *)
LEMMA StartKeeps == ASSUME HostInv, StartServerBackground PROVE HostInv'
<1>1. /\ runs \in Seq(Run) /\ Len(runs) < MaxRuns /\ ui = "stopped" /\ UNCHANGED mode
      /\ MaxRuns \in Nat /\ Len(runs) \in Nat /\ DOMAIN runs = 1..Len(runs)
  BY HostAssumption, LenProperties DEF HostInv, HostTypeOK, StartServerBackground, Newest, HostAssumption
<1>2. PICK run \in {NewRun, StillbornRun} :
        /\ runs' = Append(runs, run)
        /\ run = NewRun => ui' = "running"
        /\ run = StillbornRun => ui' = IF mode = "console" THEN "exited" ELSE "stopped"
  <2>1. NewRun # StillbornRun
    BY RunTypes
  <2> QED
    BY <1>1, <2>1 DEF StartServerBackground
<1>3. run \in Run
  BY RunTypes
<1> DEFINE n == Len(runs) + 1
<1>4. /\ runs' \in Seq(Run) /\ Len(runs') = n /\ runs'[n] = run
      /\ \A q \in DOMAIN runs : runs'[q] = runs[q]
  BY <1>1, <1>2, <1>3, AppendProperties
<1>5. DOMAIN runs' = DOMAIN runs \cup {n} /\ n <= MaxRuns /\ Newest' = n
  BY <1>1, <1>4, LenProperties DEF Newest
<1> HIDE DEF n
<1>6. HostTypeOK'
  BY <1>1, <1>2, <1>4, <1>5 DEF HostInv, HostTypeOK, Doing
<1>7. \A q \in DOMAIN runs : ~runs'[q].advert
  BY <1>1, <1>4 DEF HostInv
<1>8. CASE run = NewRun
  BY <1>2, <1>4, <1>5, <1>6, <1>7, <1>8, RunTypes DEF HostInv
<1>9. CASE run = StillbornRun
  BY <1>2, <1>4, <1>5, <1>6, <1>7, <1>9, RunTypes DEF HostInv
<1> QED
  BY <1>8, <1>9

LEMMA ShutdownKeeps ==
  ASSUME HostInv, GracefulShutdown
  PROVE  HostInv'
<1>1. runs \in Seq(Run) /\ Len(runs) <= MaxRuns /\ Newest \in DOMAIN runs /\ runs[Newest] \in Run
  <2>1. runs \in Seq(Run) /\ Len(runs) <= MaxRuns /\ Newest \in DOMAIN runs
    BY DEF HostInv, HostTypeOK, GracefulShutdown, Cancel, Withdraw, Signal
  <2> QED
    BY <2>1, LenProperties, ElementOfSeq
<1>2. CASE Cancel
  <2>1. PICK run \in Run : run.advert = runs[Newest].advert /\ runs' = [runs EXCEPT ![Newest] = run]
    <3>1. runs' = [runs EXCEPT ![Newest] = [runs[Newest] EXCEPT !.cancelled = TRUE]]
      BY <1>2 DEF Cancel
    <3>2. /\ [runs[Newest] EXCEPT !.cancelled = TRUE] \in Run
          /\ [runs[Newest] EXCEPT !.cancelled = TRUE].advert = runs[Newest].advert
      BY <1>1 DEF Run
    <3> QED
      BY <3>1, <3>2
  <2>2. /\ runs' \in Seq(Run) /\ Len(runs') = Len(runs) /\ DOMAIN runs' = DOMAIN runs
        /\ \A q \in DOMAIN runs : runs'[q] = IF q = Newest THEN run ELSE runs[q]
    BY <1>1, <2>1, EditedRuns
  <2>3. Newest' = Newest
    BY <2>2 DEF Newest
  <2>4. ui = "cancelling" /\ ui' = "withdrawing" /\ UNCHANGED mode
    BY <1>2 DEF Cancel
  <2>5. HostTypeOK'
    BY <1>1, <2>2, <2>4 DEF HostInv, HostTypeOK, Doing
  <2> QED
    BY <1>1, <2>1, <2>2, <2>3, <2>4, <2>5 DEF HostInv
<1>3. CASE Withdraw
  <2>1. PICK run \in Run : ~run.advert /\ runs' = [runs EXCEPT ![Newest] = run]
    <3>1. runs' = [runs EXCEPT ![Newest] = [runs[Newest] EXCEPT !.advert = FALSE]]
      BY <1>3 DEF Withdraw
    <3>2. [runs[Newest] EXCEPT !.advert = FALSE] \in Run /\ ~[runs[Newest] EXCEPT !.advert = FALSE].advert
      BY <1>1 DEF Run
    <3> QED
      BY <3>1, <3>2
  <2>2. /\ runs' \in Seq(Run) /\ Len(runs') = Len(runs) /\ DOMAIN runs' = DOMAIN runs
        /\ \A q \in DOMAIN runs : runs'[q] = IF q = Newest THEN run ELSE runs[q]
    BY <1>1, <2>1, EditedRuns
  <2>3. Newest' = Newest
    BY <2>2 DEF Newest
  <2>4. ui = "withdrawing" /\ ui' = "signalling" /\ UNCHANGED mode
    BY <1>3 DEF Withdraw
  <2>5. HostTypeOK'
    BY <1>1, <2>2, <2>4 DEF HostInv, HostTypeOK, Doing
  <2> QED
    BY <1>1, <2>1, <2>2, <2>3, <2>4, <2>5 DEF HostInv
<1>4. CASE Signal
  <2>1. PICK run \in Run : run.advert = runs[Newest].advert /\ runs' = [runs EXCEPT ![Newest] = run]
    <3>1. runs' = [runs EXCEPT ![Newest] = [runs[Newest] EXCEPT !.stopped = TRUE]]
      BY <1>4 DEF Signal
    <3>2. /\ [runs[Newest] EXCEPT !.stopped = TRUE] \in Run
          /\ [runs[Newest] EXCEPT !.stopped = TRUE].advert = runs[Newest].advert
      BY <1>1 DEF Run
    <3> QED
      BY <3>1, <3>2
  <2>2. /\ runs' \in Seq(Run) /\ Len(runs') = Len(runs) /\ DOMAIN runs' = DOMAIN runs
        /\ \A q \in DOMAIN runs : runs'[q] = IF q = Newest THEN run ELSE runs[q]
    BY <1>1, <2>1, EditedRuns
  <2>3. Newest' = Newest
    BY <2>2 DEF Newest
  <2>4. ui = "signalling" /\ ui' \in {"stopped", "exited"} /\ UNCHANGED mode
    BY <1>4 DEF Signal
  <2>5. HostTypeOK'
    BY <1>1, <2>2, <2>4 DEF HostInv, HostTypeOK, Doing
  <2>6. \A q \in DOMAIN runs : ~runs'[q].advert
    BY <2>1, <2>2, <2>4 DEF HostInv
  <2> QED
    BY <2>2, <2>4, <2>5, <2>6 DEF HostInv
<1> QED
  BY <1>2, <1>3, <1>4 DEF GracefulShutdown

LEMMA HostStep == HostInv /\ [HostNext]_serverVars => HostInv'
<1> SUFFICES ASSUME HostInv, [HostNext]_serverVars PROVE HostInv'
  OBVIOUS
<1>1. CASE StopServer
  BY <1>1 DEF StopServer, HostInv, HostTypeOK, Doing, Failed, Newest
<1>2. CASE Quit
  BY <1>2 DEF Quit, HostInv, HostTypeOK, Doing, Failed, Newest
<1>3. CASE UNCHANGED serverVars
  BY <1>3 DEF serverVars, HostInv, HostTypeOK, Failed, Newest
<1> QED
  BY <1>1, <1>2, <1>3, StartKeeps, ShutdownKeeps, ServeKeeps DEF HostNext

LEMMA HostInvariant == HostSpec => []HostInv
BY HostInitially, HostStep, PTL DEF HostSpec

(* The type invariant. *)
THEOREM HostTypes == HostSpec => []HostTypeOK
<1>1. HostInv => HostTypeOK
  BY DEF HostInv
<1> QED
  BY HostInvariant, <1>1, PTL

(* The announcement on the network is that of the run the host stands for.   *)
THEOREM AdvertsEnd == HostSpec => []AdvertEndsWithRun
<1>1. HostInv => AdvertEndsWithRun
  BY DEF HostInv, AdvertEndsWithRun
<1> QED
  BY HostInvariant, <1>1, PTL

(* As long as no run has failed, the run under way has its watcher.          *)
THEOREM RunsAreWatched == HostSpec => []RunningIsWatched
<1>1. HostInv => RunningIsWatched
  BY DEF HostInv, RunningIsWatched
<1> QED
  BY HostInvariant, <1>1, PTL

-----------------------------------------------------------------------------
(* A stopped run ends.  A server holds its port until Shutdown closes the    *)
(* listener, and the loops of its context end before Start returns without   *)
(* an error; its battery loop runs on.                                       *)
Bounded(run) ==
  /\ run.port = "bound" => run.serve \in {"serving", "closing"}
  /\ run.serve = "ended" => run.loops \cap ContextLoops = {}
  /\ run.serve # "erred" => "battery" \in run.loops

RunsBounded == \A r \in DOMAIN runs : Bounded(runs[r])

LEMMA EditBounds ==
  ASSUME HostTypeOK, RunsBounded, NEW r \in DOMAIN runs, NEW run \in Run, Bounded(run),
         runs' = [runs EXCEPT ![r] = run]
  PROVE  RunsBounded'
<1>1. runs \in Seq(Run)
  BY DEF HostTypeOK
<1>2. /\ DOMAIN runs' = DOMAIN runs
      /\ \A q \in DOMAIN runs : runs'[q] = IF q = r THEN run ELSE runs[q]
  BY <1>1, EditedRuns
<1> QED
  BY <1>2 DEF RunsBounded

LEMMA ServeBounds ==
  ASSUME HostTypeOK, RunsBounded, NEW r \in DOMAIN runs, Serve(r)
  PROVE  RunsBounded'
<1>1. runs \in Seq(Run) /\ runs[r] \in Run /\ DOMAIN runs = 1..Len(runs) /\ Len(runs) \in Nat
  BY LenProperties, ElementOfSeq DEF HostTypeOK
<1>2. Bounded(runs[r])
  BY DEF RunsBounded
<1>3. CASE Listen(r)
  <2>1. PICK port \in {"bound", "refused", "closed"} :
          /\ runs' = [runs EXCEPT ![r] = [runs[r] EXCEPT !.port = port]]
          /\ port = "bound" => runs[r].serve \in {"serving", "closing"}
    BY <1>3 DEF Listen
  <2>2. [runs[r] EXCEPT !.port = port] \in Run /\ Bounded([runs[r] EXCEPT !.port = port])
    BY <1>1, <1>2, <2>1 DEF Run, Bounded
  <2>3. PICK run \in Run : Bounded(run) /\ runs' = [runs EXCEPT ![r] = run]
    BY <2>1, <2>2
  <2> QED
    BY <2>3, EditBounds
<1>4. CASE ServeFails(r)
  <2>1. runs' = [runs EXCEPT ![r] = [runs[r] EXCEPT !.serve = "failed"]]
        /\ runs[r].port = "refused" /\ runs[r].serve = "serving"
    BY <1>4 DEF ServeFails
  <2>2. [runs[r] EXCEPT !.serve = "failed"] \in Run /\ Bounded([runs[r] EXCEPT !.serve = "failed"])
    BY <1>1, <1>2, <2>1 DEF Run, Bounded
  <2>3. PICK run \in Run : Bounded(run) /\ runs' = [runs EXCEPT ![r] = run]
    BY <2>1, <2>2
  <2> QED
    BY <2>3, EditBounds
<1>5. CASE Shutdown(r)
  <2>1. /\ runs' = [runs EXCEPT ![r] = [runs[r] EXCEPT !.serve = "closing"]]
        /\ runs[r].serve = "serving"
    BY <1>5 DEF Shutdown
  <2>2. [runs[r] EXCEPT !.serve = "closing"] \in Run /\ Bounded([runs[r] EXCEPT !.serve = "closing"])
    BY <1>1, <1>2, <2>1 DEF Run, Bounded
  <2>3. PICK run \in Run : Bounded(run) /\ runs' = [runs EXCEPT ![r] = run]
    BY <2>1, <2>2
  <2> QED
    BY <2>3, EditBounds
<1>6. CASE CloseListener(r)
  <2>1. PICK port \in {"none", "refused", "closed"} :
          /\ runs' = [runs EXCEPT ![r] = [runs[r] EXCEPT !.serve = "draining", !.port = port]]
          /\ runs[r].serve = "closing"
    BY <1>1, <1>6 DEF CloseListener, Run
  <2>2. /\ [runs[r] EXCEPT !.serve = "draining", !.port = port] \in Run
        /\ Bounded([runs[r] EXCEPT !.serve = "draining", !.port = port])
    BY <1>1, <1>2, <2>1 DEF Run, Bounded
  <2>3. PICK run \in Run : Bounded(run) /\ runs' = [runs EXCEPT ![r] = run]
    BY <2>1, <2>2
  <2> QED
    BY <2>3, EditBounds
<1>7. CASE Drained(r)
  <2>1. runs[r].port # "bound" /\ runs[r].serve = "draining" /\ "battery" \notin ContextLoops
    BY <1>2, <1>7 DEF Drained, Bounded, ContextLoops
  <2>2. \/ runs' = [runs EXCEPT ![r] = [runs[r] EXCEPT !.serve = "ended", !.loops = @ \ ContextLoops]]
        \/ runs' = [runs EXCEPT ![r] = [runs[r] EXCEPT !.serve = "failed"]]
    BY <1>7 DEF Drained
  <2>3. /\ [runs[r] EXCEPT !.serve = "ended", !.loops = @ \ ContextLoops] \in Run
        /\ Bounded([runs[r] EXCEPT !.serve = "ended", !.loops = @ \ ContextLoops])
    BY <1>1, <1>2, <2>1 DEF Run, Bounded
  <2>4. /\ [runs[r] EXCEPT !.serve = "failed"] \in Run
        /\ Bounded([runs[r] EXCEPT !.serve = "failed"])
    BY <1>1, <1>2, <2>1 DEF Run, Bounded
  <2>5. PICK run \in Run : Bounded(run) /\ runs' = [runs EXCEPT ![r] = run]
    BY <2>2, <2>3, <2>4
  <2> QED
    BY <2>5, EditBounds
<1>8. CASE CloseStopOnError(r)
  <2>1. Newest \in DOMAIN runs /\ runs[r].serve = "failed"
    BY <1>1, <1>8 DEF CloseStopOnError, Newest
  <2>2. PICK run : run = [runs[r] EXCEPT !.serve = "erred"]
    OBVIOUS
  <2>3. run \in Run /\ Bounded(run)
    BY <1>1, <1>2, <2>1, <2>2 DEF Run, Bounded
  <2>4. PICK s : s = [runs EXCEPT ![r] = run]
    OBVIOUS
  <2>5. runs' = [s EXCEPT ![Newest] = [s[Newest] EXCEPT !.stopped = TRUE]]
    BY <1>8, <2>2, <2>4 DEF CloseStopOnError
  <2>6. /\ s \in Seq(Run) /\ DOMAIN s = DOMAIN runs
        /\ \A q \in DOMAIN runs : s[q] = IF q = r THEN run ELSE runs[q]
    BY <1>1, <2>3, <2>4, EditedRuns
  <2>7. s[Newest] \in Run /\ \A q \in DOMAIN runs : Bounded(s[q])
    BY <2>1, <2>3, <2>6, LenProperties, ElementOfSeq DEF RunsBounded
  <2>8. PICK last : last = [s[Newest] EXCEPT !.stopped = TRUE]
    OBVIOUS
  <2>9. last \in Run /\ Bounded(last)
    BY <2>1, <2>7, <2>8 DEF Run, Bounded
  <2>10. runs' = [s EXCEPT ![Newest] = last]
    BY <2>5, <2>8
  <2>11. /\ DOMAIN runs' = DOMAIN s
         /\ \A q \in DOMAIN s : runs'[q] = IF q = Newest THEN last ELSE s[q]
    BY <2>1, <2>6, <2>9, <2>10, EditedRuns
  <2> QED
    BY <2>6, <2>7, <2>9, <2>11 DEF RunsBounded
<1> QED
  BY <1>3, <1>4, <1>5, <1>6, <1>7, <1>8 DEF Serve

(* The others leave port, state and loops alone. *)
LEMMA OtherBounds ==
  ASSUME HostTypeOK, RunsBounded, NEW r \in DOMAIN runs, NEW run,
         run \in {[runs[r] EXCEPT !.watched = FALSE], [runs[r] EXCEPT !.cancelled = TRUE],
                  [runs[r] EXCEPT !.advert = FALSE], [runs[r] EXCEPT !.stopped = TRUE]},
         runs' = [runs EXCEPT ![r] = run]
  PROVE  RunsBounded'
<1>1. runs[r] \in Run /\ Bounded(runs[r])
  BY LenProperties, ElementOfSeq DEF HostTypeOK, RunsBounded
<1>2. run \in Run /\ run.port = runs[r].port /\ run.serve = runs[r].serve /\ run.loops = runs[r].loops
  BY <1>1 DEF Run
<1>3. Bounded(run)
  BY <1>1, <1>2 DEF Bounded
<1> QED
  BY <1>2, <1>3, EditBounds

LEMMA BoundsKept == HostInv /\ RunsBounded /\ [HostNext]_serverVars => RunsBounded'
<1> SUFFICES ASSUME HostInv, RunsBounded, [HostNext]_serverVars PROVE RunsBounded'
  OBVIOUS
<1>1. HostTypeOK
  BY DEF HostInv
<1>2. CASE StartServerBackground
  <2>1. PICK run \in {NewRun, StillbornRun} : runs' = Append(runs, run)
    BY <1>2 DEF StartServerBackground
  <2>2. run \in Run /\ runs \in Seq(Run)
    BY <1>1, RunTypes DEF HostTypeOK
  <2>3. Bounded(run)
    BY <2>1 DEF NewRun, StillbornRun, Bounded
  <2>4. /\ DOMAIN runs = 1..Len(runs) /\ DOMAIN runs' = 1..(Len(runs) + 1) /\ Len(runs) \in Nat
        /\ runs'[Len(runs) + 1] = run /\ \A q \in 1..Len(runs) : runs'[q] = runs[q]
    BY <2>1, <2>2, AppendProperties, LenProperties
  <2> QED
    BY <2>3, <2>4 DEF RunsBounded
<1>3. CASE StopServer \/ Quit \/ UNCHANGED serverVars
  BY <1>3 DEF StopServer, Quit, serverVars, RunsBounded
<1>4. ASSUME GracefulShutdown PROVE RunsBounded'
  <2>1. Newest \in DOMAIN runs
    BY <1>4 DEF HostInv, GracefulShutdown, Cancel, Withdraw, Signal
  <2>2. PICK run \in {[runs[Newest] EXCEPT !.cancelled = TRUE],
                      [runs[Newest] EXCEPT !.advert = FALSE],
                      [runs[Newest] EXCEPT !.stopped = TRUE]} : runs' = [runs EXCEPT ![Newest] = run]
    BY <1>4 DEF GracefulShutdown, Cancel, Withdraw, Signal
  <2> QED
    BY <1>1, <2>1, <2>2, OtherBounds
<1>5. ASSUME NEW r \in DOMAIN runs, WatchEnds(r) PROVE RunsBounded'
  <2>1. runs' = [runs EXCEPT ![r] = [runs[r] EXCEPT !.watched = FALSE]]
    BY <1>5 DEF WatchEnds
  <2> QED
    BY <1>1, <2>1, OtherBounds
<1>6. ASSUME NEW r \in DOMAIN runs, Serve(r) PROVE RunsBounded'
  BY <1>1, <1>6, ServeBounds
<1> QED
  BY <1>2, <1>3, <1>4, <1>5, <1>6 DEF HostNext

LEMMA BoundsInvariant == HostSpec => [](HostInv /\ RunsBounded)
<1>1. HostInit => HostInv /\ RunsBounded
  BY HostInitially DEF HostInit, RunsBounded
<1> QED
  BY <1>1, HostStep, BoundsKept, PTL DEF HostSpec

(* The guards of Serve, which say when Start or its listener has a step left.*)
(* The provers know of ENABLED only that it is a predicate: that the guards  *)
(* of an action whose primed variables it all assigns enable it is given.    *)
Unfinished(r) ==
  \/ runs[r].port = "none"
  \/ runs[r].serve = "serving" /\ (runs[r].port = "refused" \/ runs[r].cancelled)
  \/ runs[r].serve \in {"closing", "draining", "failed"}

GuardsEnableServe ==
  \A r \in DOMAIN runs : Unfinished(r) /\ ui # "exited" => ENABLED Serve(r)

(* A run that was told to stop is at work on it until its port is free and,  *)
(* unless Start returned an error, the loops of its context have ended; then *)
(* its battery loop is all that is left.                                     *)
StoppedRunWorks ==
  \A r \in DOMAIN runs :
    runs[r].cancelled /\ ~Unfinished(r) =>
      runs[r].port # "bound" /\ (runs[r].serve # "erred" => runs[r].loops = {"battery"})

LEMMA BoundedRunsEnd == HostInv /\ RunsBounded => StoppedRunWorks
<1> SUFFICES ASSUME HostInv, RunsBounded, NEW r \in DOMAIN runs,
                    runs[r].cancelled, ~Unfinished(r)
             PROVE  runs[r].port # "bound" /\ (runs[r].serve # "erred" => runs[r].loops = {"battery"})
  BY DEF StoppedRunWorks
<1>1. runs[r] \in Run /\ Bounded(runs[r])
  BY LenProperties, ElementOfSeq DEF HostInv, HostTypeOK, RunsBounded
<1>2. runs[r].serve \in {"serving", "closing", "draining", "failed", "ended", "erred"}
  BY <1>1 DEF Run
<1>3. runs[r].loops \subseteq ContextLoops \cup {"battery"}
  BY <1>1 DEF Run
<1> QED
  BY <1>1, <1>2, <1>3 DEF Bounded, Unfinished

(* It has a step left as long as it holds its port or, unless Start returned *)
(* an error, a loop of its context.                                          *)
THEOREM StoppedRunsWork == HostSpec => []StoppedRunWorks
BY BoundsInvariant, BoundedRunsEnd, PTL

(* And as the run states it, with ENABLED.                                   *)
THEOREM StoppedRunsEnd == HostSpec /\ []GuardsEnableServe => []StoppedRunEnds
<1>1. StoppedRunWorks /\ GuardsEnableServe => StoppedRunEnds
  <2> SUFFICES ASSUME StoppedRunWorks, GuardsEnableServe, NEW r \in DOMAIN runs,
                      runs[r].cancelled, ~ENABLED Serve(r), ui # "exited"
               PROVE  runs[r].port # "bound" /\ (runs[r].serve # "erred" => runs[r].loops = {"battery"})
    BY DEF StoppedRunEnds
  <2>1. ~Unfinished(r)
    BY DEF GuardsEnableServe
  <2> QED
    BY <2>1 DEF StoppedRunWorks
<1> QED
  BY <1>1, StoppedRunsWork, PTL

-----------------------------------------------------------------------------
(* Clipboard.tla.  The latest text a feed has under way, or else has told.   *)
LatestOf(x) ==
  IF x.buffer # <<>> THEN x.buffer[Len(x.buffer)]
  ELSE IF x.forwarder = "holds" THEN x.hand ELSE x.said

(* It is the one the watcher saw last, unless that one is still in its hand. *)
InStep(x) ==
  /\ x.live => x.watcher # "ended" /\ x.forwarder # "ended"
  /\ x.watcher = "starts" => x.buffer = <<>> /\ x.forwarder # "holds"
  /\ x.watcher = "polls" => LatestOf(x) = x.last
  /\ Len(x.buffer) <= ClipCap

ClipInv == ClipboardTypeOK /\ \A f \in DOMAIN feeds : InStep(feeds[f])

LEMMA FeedTypes ==
  ASSUME ClipInv, NEW f \in DOMAIN feeds
  PROVE  /\ feeds \in Seq(Feed) /\ feeds[f] \in Feed /\ InStep(feeds[f])
         /\ DOMAIN feeds = 1..Len(feeds) /\ Len(feeds) \in Nat
BY LenProperties, ElementOfSeq DEF ClipInv, ClipboardTypeOK

LEMMA OneFeed ==
  ASSUME ClipInv, NEW f \in DOMAIN feeds, NEW x \in Feed, InStep(x),
         feeds' = [feeds EXCEPT ![f] = x], text' \in Texts
  PROVE  ClipInv'
<1>1. feeds \in Seq(Feed) /\ Len(feeds) <= MaxFeeds
  BY DEF ClipInv, ClipboardTypeOK
<1>2. /\ feeds' \in Seq(Feed) /\ Len(feeds') = Len(feeds) /\ DOMAIN feeds' = DOMAIN feeds
      /\ \A g \in DOMAIN feeds : feeds'[g] = IF g = f THEN x ELSE feeds[g]
  BY <1>1, ExceptSeq, LenProperties
<1>3. \A g \in DOMAIN feeds : InStep(feeds'[g])
  BY <1>2 DEF ClipInv
<1> QED
  BY <1>1, <1>2, <1>3 DEF ClipInv, ClipboardTypeOK, InStep

LEMMA WatchKeeps ==
  ASSUME ClipInv, NEW f \in DOMAIN feeds, Watch(f)
  PROVE  ClipInv'
<1>1. PICK old : old = feeds[f]
  OBVIOUS
<1>2. old \in Feed /\ InStep(old) /\ text \in Texts /\ NoText \in Texts
  BY <1>1, FeedTypes, ClipboardAssumption DEF ClipInv, ClipboardTypeOK, ClipboardAssumption
<1>3. /\ old.live \in BOOLEAN /\ old.watcher \in {"starts", "polls", "sends", "ended"}
      /\ old.last \in Texts /\ old.buffer \in Seq(Texts) /\ old.hand \in Texts /\ old.said \in Texts
      /\ old.forwarder \in {"waits", "holds", "ended"}
      /\ Len(old.buffer) \in Nat /\ DOMAIN old.buffer = 1..Len(old.buffer)
  BY <1>2, LenProperties DEF Feed
<1>4. CASE FirstGet(f)
  <2>1. PICK t \in Texts :
          feeds' = [feeds EXCEPT ![f] = [old EXCEPT !.watcher = "polls", !.last = t, !.said = t]]
    BY <1>1, <1>2, <1>4 DEF FirstGet
  <2>2. PICK x : x = [old EXCEPT !.watcher = "polls", !.last = t, !.said = t]
    OBVIOUS
  <2>3. /\ x \in Feed /\ x.live = old.live /\ x.watcher = "polls" /\ x.last = t /\ x.said = t
        /\ x.buffer = old.buffer /\ x.forwarder = old.forwarder
    BY <1>2, <2>1, <2>2 DEF Feed
  <2>4. InStep(x)
    BY <1>1, <1>2, <1>4, <2>3 DEF FirstGet, InStep, LatestOf
  <2> QED
    BY <1>2, <1>4, <2>1, <2>2, <2>3, <2>4, OneFeed DEF FirstGet
<1>5. CASE Poll(f)
  <2>1. PICK x : x = [old EXCEPT !.watcher = "sends", !.last = text]
    OBVIOUS
  <2>2. feeds' = [feeds EXCEPT ![f] = x] /\ UNCHANGED text /\ old.watcher = "polls"
    BY <1>1, <1>5, <2>1 DEF Poll
  <2>3. /\ x \in Feed /\ x.live = old.live /\ x.watcher = "sends"
        /\ x.buffer = old.buffer /\ x.forwarder = old.forwarder
    BY <1>2, <2>1 DEF Feed
  <2>4. InStep(x)
    BY <1>2, <2>3 DEF InStep
  <2> QED
    BY <1>2, <2>2, <2>3, <2>4, OneFeed
<1>6. CASE Send(f)
  <2>1. PICK x : x = [old EXCEPT !.watcher = "polls", !.buffer = Append(old.buffer, old.last)]
    OBVIOUS
  <2>2. /\ feeds' = [feeds EXCEPT ![f] = x] /\ UNCHANGED text
        /\ old.watcher = "sends" /\ Len(old.buffer) < ClipCap
    BY <1>1, <1>6, <2>1 DEF Send
  <2>3. /\ Append(old.buffer, old.last) \in Seq(Texts) /\ Append(old.buffer, old.last) # <<>>
        /\ Len(Append(old.buffer, old.last)) = Len(old.buffer) + 1
        /\ Append(old.buffer, old.last)[Len(old.buffer) + 1] = old.last
    BY <1>3, AppendProperties
  <2>4. /\ x \in Feed /\ x.live = old.live /\ x.watcher = "polls" /\ x.last = old.last
        /\ x.forwarder = old.forwarder /\ x.buffer = Append(old.buffer, old.last)
    BY <1>2, <2>1, <2>3 DEF Feed
  <2>5. Len(x.buffer) <= ClipCap
    BY <1>3, <2>2, <2>3, <2>4, ClipboardAssumption DEF ClipboardAssumption
  <2>6. InStep(x)
    BY <1>2, <2>2, <2>3, <2>4, <2>5 DEF InStep, LatestOf
  <2> QED
    BY <1>2, <2>2, <2>4, <2>6, OneFeed
<1>7. CASE WatcherEnds(f)
  <2>1. PICK x : x = [old EXCEPT !.watcher = "ended"]
    OBVIOUS
  <2>2. feeds' = [feeds EXCEPT ![f] = x] /\ UNCHANGED text /\ ~old.live
    BY <1>1, <1>7, <2>1 DEF WatcherEnds
  <2>3. /\ x \in Feed /\ x.live = old.live /\ x.watcher = "ended"
        /\ x.buffer = old.buffer /\ x.forwarder = old.forwarder
    BY <1>2, <2>1 DEF Feed
  <2>4. InStep(x)
    BY <1>2, <2>2, <2>3 DEF InStep
  <2> QED
    BY <1>2, <2>2, <2>3, <2>4, OneFeed
<1> QED
  BY <1>4, <1>5, <1>6, <1>7 DEF Watch

LEMMA WatchLoopKeeps ==
  ASSUME ClipInv, NEW f \in DOMAIN feeds, WatchLoop(f)
  PROVE  ClipInv'
<1>1. PICK old : old = feeds[f]
  OBVIOUS
<1>2. old \in Feed /\ InStep(old) /\ text \in Texts
  BY <1>1, FeedTypes DEF ClipInv, ClipboardTypeOK
<1>3. /\ old.live \in BOOLEAN /\ old.watcher \in {"starts", "polls", "sends", "ended"}
      /\ old.last \in Texts /\ old.buffer \in Seq(Texts) /\ old.hand \in Texts /\ old.said \in Texts
      /\ old.forwarder \in {"waits", "holds", "ended"}
      /\ Len(old.buffer) \in Nat /\ DOMAIN old.buffer = 1..Len(old.buffer)
  BY <1>2, LenProperties DEF Feed
<1>4. CASE Take(f)
  <2>1. PICK x : x = [old EXCEPT !.forwarder = "holds", !.hand = Head(old.buffer),
                                 !.buffer = Tail(old.buffer)]
    OBVIOUS
  <2>2. /\ feeds' = [feeds EXCEPT ![f] = x] /\ UNCHANGED text
        /\ old.forwarder = "waits" /\ old.buffer # <<>>
    BY <1>1, <1>4, <2>1 DEF Take
  <2>3. /\ Head(old.buffer) \in Texts /\ Tail(old.buffer) \in Seq(Texts)
        /\ Len(Tail(old.buffer)) = Len(old.buffer) - 1 /\ Len(old.buffer) > 0
        /\ \A i \in 1..Len(Tail(old.buffer)) : Tail(old.buffer)[i] = old.buffer[i + 1]
        /\ Head(old.buffer) = old.buffer[1]
    BY <1>3, <2>2, HeadTailProperties, EmptySeq
  <2>4. /\ x \in Feed /\ x.live = old.live /\ x.watcher = old.watcher /\ x.last = old.last
        /\ x.forwarder = "holds" /\ x.hand = Head(old.buffer) /\ x.buffer = Tail(old.buffer)
    BY <1>2, <2>1, <2>3 DEF Feed
  <2>5. Len(x.buffer) <= ClipCap
    BY <1>2, <1>3, <2>3, <2>4, ClipboardAssumption DEF InStep, ClipboardAssumption
  <2>6. LatestOf(x) = old.buffer[Len(old.buffer)]
    <3>1. PICK n : n = Len(old.buffer)
      OBVIOUS
    <3>2. PICK rest : rest = x.buffer
      OBVIOUS
    <3>3. /\ rest \in Seq(Texts) /\ n \in Nat /\ n > 0 /\ Len(rest) = n - 1
          /\ \A i \in 1..(n - 1) : rest[i] = old.buffer[i + 1]
      BY <1>3, <2>3, <2>4, <3>1, <3>2
    <3>4. CASE n = 1
      <4>1. rest = <<>>
        BY <3>3, <3>4, EmptySeq
      <4> QED
        BY <2>3, <2>4, <3>1, <3>2, <3>4, <4>1 DEF LatestOf
    <3>5. CASE n > 1
      <4>1. rest # <<>>
        BY <3>3, <3>5, EmptySeq
      <4>2. rest[Len(rest)] = old.buffer[n]
        BY <3>3, <3>5
      <4>3. LatestOf(x) = rest[Len(rest)]
        BY <3>2, <4>1 DEF LatestOf
      <4> QED
        BY <3>1, <4>2, <4>3
    <3> QED
      BY <3>3, <3>4, <3>5
  <2>7. InStep(x)
    BY <1>2, <2>2, <2>4, <2>5, <2>6 DEF InStep, LatestOf
  <2> QED
    BY <1>2, <2>2, <2>4, <2>7, OneFeed
<1>5. CASE BroadcastClipboard(f)
  <2>1. PICK x : x = [old EXCEPT !.forwarder = "waits", !.said = old.hand]
    OBVIOUS
  <2>2. feeds' = [feeds EXCEPT ![f] = x] /\ UNCHANGED text /\ old.forwarder = "holds"
    BY <1>1, <1>5, <2>1 DEF BroadcastClipboard
  <2>3. /\ x \in Feed /\ x.live = old.live /\ x.watcher = old.watcher /\ x.last = old.last
        /\ x.forwarder = "waits" /\ x.said = old.hand /\ x.buffer = old.buffer
    BY <1>2, <1>3, <2>1 DEF Feed
  <2>4. InStep(x)
    BY <1>2, <2>2, <2>3 DEF InStep, LatestOf
  <2> QED
    BY <1>2, <2>2, <2>3, <2>4, OneFeed
<1>6. CASE ForwarderEnds(f)
  <2>1. PICK x : x = [old EXCEPT !.forwarder = "ended"]
    OBVIOUS
  <2>2. feeds' = [feeds EXCEPT ![f] = x] /\ UNCHANGED text /\ ~old.live /\ old.forwarder = "waits"
    BY <1>1, <1>6, <2>1 DEF ForwarderEnds
  <2>3. /\ x \in Feed /\ x.live = old.live /\ x.watcher = old.watcher /\ x.last = old.last
        /\ x.forwarder = "ended" /\ x.said = old.said /\ x.buffer = old.buffer
    BY <1>2, <2>1 DEF Feed
  <2>4. InStep(x)
    BY <1>2, <2>2, <2>3 DEF InStep, LatestOf
  <2> QED
    BY <1>2, <2>2, <2>3, <2>4, OneFeed
<1> QED
  BY <1>4, <1>5, <1>6 DEF WatchLoop

LEMMA ClipInitially == ClipboardInit => ClipInv
<1> SUFFICES ASSUME ClipboardInit PROVE ClipInv
  OBVIOUS
<1>1. feeds = <<>> /\ Len(feeds) = 0 /\ DOMAIN feeds = {} /\ feeds \in Seq(Feed)
  BY DEF ClipboardInit
<1> QED
  BY <1>1, ClipboardAssumption DEF ClipboardInit, ClipInv, ClipboardTypeOK, ClipboardAssumption

LEMMA ClipStep == ClipInv /\ [ClipboardNext]_clipVars => ClipInv'
<1> SUFFICES ASSUME ClipInv, [ClipboardNext]_clipVars PROVE ClipInv'
  OBVIOUS
<1>1. CASE StartClipboard
  <2>1. PICK x : x = [live |-> TRUE, watcher |-> "starts", last |-> NoText,
                      buffer |-> <<>>, forwarder |-> "waits", hand |-> NoText, said |-> NoText]
    OBVIOUS
  <2>2. feeds' = Append(feeds, x) /\ UNCHANGED text /\ Len(feeds) < MaxFeeds
    BY <1>1, <2>1 DEF StartClipboard
  <2>3. x \in Feed /\ x.watcher = "starts" /\ x.buffer = <<>> /\ x.forwarder = "waits"
    BY <2>1, ClipboardAssumption DEF Feed, ClipboardAssumption
  <2>4. InStep(x)
    BY <2>3, ClipboardAssumption DEF InStep, ClipboardAssumption
  <2>5. /\ feeds' \in Seq(Feed) /\ Len(feeds') = Len(feeds) + 1 /\ Len(feeds) \in Nat
        /\ DOMAIN feeds' = 1..Len(feeds') /\ DOMAIN feeds = 1..Len(feeds)
        /\ feeds'[Len(feeds) + 1] = x /\ \A g \in 1..Len(feeds) : feeds'[g] = feeds[g]
    BY <2>2, <2>3, AppendProperties, LenProperties DEF ClipInv, ClipboardTypeOK
  <2>6. \A g \in DOMAIN feeds' : InStep(feeds'[g])
    BY <2>4, <2>5 DEF ClipInv
  <2> QED
    BY <2>2, <2>5, <2>6, ClipboardAssumption DEF ClipInv, ClipboardTypeOK, InStep, ClipboardAssumption
<1>2. CASE StopClipboard
  <2>1. PICK n : n = Len(feeds)
    OBVIOUS
  <2>2. n \in DOMAIN feeds
    <3>1. feeds # <<>> /\ feeds \in Seq(Feed)
      BY <1>2 DEF StopClipboard, IsRunning, ClipInv, ClipboardTypeOK
    <3> QED
      BY <2>1, <3>1, EmptySeq, LenProperties
  <2>3. PICK old : old = feeds[n]
    OBVIOUS
  <2>4. old \in Feed /\ InStep(old)
    BY <2>2, <2>3, FeedTypes
  <2>5. PICK x : x = [old EXCEPT !.live = FALSE]
    OBVIOUS
  <2>6. feeds' = [feeds EXCEPT ![n] = x] /\ UNCHANGED text
    BY <1>2, <2>1, <2>3, <2>5 DEF StopClipboard
  <2>7. /\ x \in Feed /\ x.live = FALSE /\ x.watcher = old.watcher /\ x.last = old.last
        /\ x.hand = old.hand
        /\ x.forwarder = old.forwarder /\ x.said = old.said /\ x.buffer = old.buffer
    BY <2>4, <2>5 DEF Feed
  <2>8. InStep(x)
    BY <2>4, <2>7 DEF InStep, LatestOf
  <2> QED
    BY <2>2, <2>6, <2>7, <2>8, OneFeed DEF ClipInv, ClipboardTypeOK
<1>3. ASSUME NEW t \in Texts, Copy(t) PROVE ClipInv'
  BY <1>3 DEF Copy, ClipInv, ClipboardTypeOK, InStep, LatestOf
<1>4. CASE UNCHANGED clipVars
  BY <1>4 DEF clipVars, ClipInv, ClipboardTypeOK, InStep, LatestOf
<1> QED
  BY <1>1, <1>2, <1>3, <1>4, WatchKeeps, WatchLoopKeeps DEF ClipboardNext

LEMMA ClipInvariant == ClipboardSpec => []ClipInv
BY ClipInitially, ClipStep, PTL DEF ClipboardSpec

(* The type invariant, with the bounds of the channel and of the feeds.      *)
THEOREM ClipboardTypes == ClipboardSpec => []ClipboardTypeOK
<1>1. ClipInv => ClipboardTypeOK
  BY DEF ClipInv
<1> QED
  BY ClipInvariant, <1>1, PTL

(* The guards of a feed's two goroutines.  The provers know of ENABLED only  *)
(* that it is a predicate: that the guards of an action whose primed         *)
(* variables it all assigns enable it is given.                              *)
Ready(f) ==
  \/ feeds[f].watcher = "starts"
  \/ feeds[f].watcher = "polls" /\ text # feeds[f].last
  \/ feeds[f].watcher = "sends" /\ Len(feeds[f].buffer) < ClipCap
  \/ feeds[f].forwarder = "waits" /\ feeds[f].buffer # <<>>
  \/ feeds[f].forwarder = "holds"

GuardsEnableFeed ==
  \A f \in DOMAIN feeds : Ready(f) => ENABLED (Watch(f) \/ WatchLoop(f))

RestingFeedIsCurrent ==
  \A f \in DOMAIN feeds : feeds[f].live /\ ~Ready(f) => feeds[f].said = text

(* A feed at rest is current: a full channel has a forwarder that empties it,*)
(* so that the two goroutines never wait for each other.                     *)
LEMMA RestingIsCurrent == ClipInv => RestingFeedIsCurrent
<1> SUFFICES ASSUME ClipInv, NEW f \in DOMAIN feeds, feeds[f].live, ~Ready(f)
             PROVE  feeds[f].said = text
  BY DEF RestingFeedIsCurrent
<1>1. PICK x : x = feeds[f]
  OBVIOUS
<1>2. x \in Feed /\ InStep(x) /\ x.live
  BY <1>1, FeedTypes
<1>3. x.watcher \in {"polls", "sends"} /\ x.forwarder = "waits"
  BY <1>1, <1>2 DEF Feed, InStep, Ready
<1>4. x.buffer = <<>>
  BY <1>1, <1>3 DEF Ready
<1>5. x.watcher = "polls" /\ x.last = text
  BY <1>1, <1>3, <1>4, ClipboardAssumption DEF Ready, ClipboardAssumption
<1> QED
  BY <1>1, <1>2, <1>3, <1>4, <1>5 DEF InStep, LatestOf

(* A feed that is on and has no step to take has told what is there.         *)
THEOREM RestingFeedsAreCurrent == ClipboardSpec => []RestingFeedIsCurrent
BY ClipInvariant, RestingIsCurrent, PTL

(* And as the run states it, with ENABLED.                                   *)
THEOREM FeedsAreCurrent == ClipboardSpec /\ []GuardsEnableFeed => []FeedIsCurrent
<1>1. RestingFeedIsCurrent /\ GuardsEnableFeed => FeedIsCurrent
  <2> SUFFICES ASSUME RestingFeedIsCurrent, GuardsEnableFeed, NEW f \in DOMAIN feeds,
                      feeds[f].live, ~ENABLED (Watch(f) \/ WatchLoop(f))
               PROVE  feeds[f].said = text
    BY DEF FeedIsCurrent
  <2>1. ~Ready(f)
    BY DEF GuardsEnableFeed
  <2> QED
    BY <2>1 DEF RestingFeedIsCurrent
<1> QED
  BY <1>1, RestingFeedsAreCurrent, PTL
=============================================================================
