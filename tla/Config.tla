------------------------------ MODULE Config ------------------------------
(***************************************************************************)
(* The configuration: DMBridge.exe -config set/default keeps the path of   *)
(* the file in the registry; every start reads the path, in two registry   *)
(* calls, then the file, and turns it into the list of enabled APIs and    *)
(* the whitelist of the ServiceManager.  Starts, -config commands and the  *)
(* editing of files interleave.                                            *)
(*                                                                         *)
(* A JSON document is the kind of its root and of the two values that are  *)
(* looked up; strings are folded to one case, as the code compares them.   *)
(***************************************************************************)
EXTENDS Naturals, SequencesExt

CONSTANTS
  Process,           \* starts of DMBridge.exe
  Path,              \* the full paths that -config set is given
  PathLength,        \* and their lengths
  Directory,         \* the directories DMBridge.exe is started in
  ExeDirectory,      \* the one it lies in
  Api,               \* _interfaceMap
  DefaultWhitelist,  \* NTServiceConfig::ApplyDefaults
  NotAString,        \* an item of an array that is no string
  Document,          \* the documents files hold
  Missing, Malformed \* no file, or one that does not parse

\* The registry value: never written, or empty for the default.
NoValue == "no value"
EmptyValue == ""

ASSUME PathAssumption ==
  /\ PathLength \in [Path -> Nat \ {0}]
  /\ Path \cap (Directory \cup {NoValue, EmptyValue}) = {}
ASSUME DirectoryAssumption == ExeDirectory \in Directory
ASSUME ContentAssumption == Missing \notin Document /\ Malformed \notin Document
ASSUME WhitelistAssumption == DefaultWhitelist \subseteq STRING
ASSUME DocumentAssumption ==
  \A d \in Document : d.root = "object" =>
    /\ d.api.kind = "array" => d.api.items \in Seq(STRING)
    /\ d.servicemanager.root = "object" /\ d.servicemanager.whitelist.kind = "array" =>
         d.servicemanager.whitelist.items \in Seq(STRING)

\* The file dmbridge.config.json of a directory is named by the directory.
File == Path \cup Directory

VARIABLES
  configFile,  \* the registry value ConfigFile
  files,       \* what the files hold
  pc,          \* where each start is
  cwd,         \* the directory a process was started in
  dataSize,    \* the size that the first RegGetValue returned, until the second
  file,        \* the file it loads
  loaded,      \* what the file held when it was parsed
  item,        \* the item of a list that is read next
  enabled,     \* DMBridgeServer's configuration: the APIs enabled so far
  whitelist,   \* NTService's configuration, as far as it was read
  seen,        \* auxiliary: the values ConfigFile had while it was read
  failed       \* auxiliary: a registry call failed

results == <<loaded, item, enabled, whitelist>>
history == <<seen, failed>>
vars == <<configFile, files, pc, cwd, dataSize, file, results, history>>

Value == Path \cup {NoValue, EmptyValue}
Loading == {"Parse", "Apis", "Services"}
Step == Loading \cup {"off", "ReadSize", "ReadData", "up"}
Size(v) == IF v = EmptyValue THEN 0 ELSE PathLength[v]

\* ParseJSON looks values up in an object only.
JsonTrue == [root |-> "other"]
Array(items) == [kind |-> "array", items |-> items]

Init ==
  /\ configFile = NoValue
  /\ files \in [File -> {Missing}]
  /\ pc = [p \in Process |-> "off"]
  /\ cwd = [p \in Process |-> ExeDirectory]
  /\ dataSize = [p \in Process |-> 0]
  /\ file = [p \in Process |-> ExeDirectory]
  /\ loaded = [p \in Process |-> Missing]
  /\ item = [p \in Process |-> 1]
  /\ enabled = [p \in Process |-> {}]
  /\ whitelist = [p \in Process |-> {}]
  /\ seen = [p \in Process |-> {}]
  /\ failed = [p \in Process |-> FALSE]

TypeOK ==
  /\ configFile \in Value
  /\ files \in [File -> Document \cup {Missing, Malformed}]
  /\ pc \in [Process -> Step]
  /\ cwd \in [Process -> Directory]
  /\ dataSize \in [Process -> Nat]
  /\ file \in [Process -> File \cup {EmptyValue}]
  /\ loaded \in [Process -> Document \cup {Missing, Malformed}]
  /\ item \in [Process -> Nat \ {0}]
  /\ enabled \in [Process -> SUBSET Api]
  /\ whitelist \in [Process -> SUBSET STRING]
  /\ seen \in [Process -> SUBSET Value]
  /\ failed \in [Process -> BOOLEAN]

-----------------------------------------------------------------------------
(* What is looked up in a file.                                            *)

\* A file that is missing or does not parse gives "new Json::Value()", a
\* pointer that converts to the JSON value true.
LoadConfigFile(content) == IF content \in {Missing, Malformed} THEN JsonTrue ELSE content

\* The section of a value that is no object: SafelyGetSection catches the
\* error and returns true, or null has only null members.
SafelyGetSection(root) == IF root.root = "object" THEN root.servicemanager ELSE JsonTrue

HasApis(root) == root.root = "object" /\ root.api.kind = "array"
HasServices(section) == section.root = "object" /\ section.whitelist.kind = "array"

-----------------------------------------------------------------------------
(* Commands and files.                                                     *)

WriteConfigFile(v) ==
  /\ configFile' = v
  /\ seen' = [p \in Process |-> IF pc[p] = "ReadData" THEN seen[p] \cup {v} ELSE seen[p]]
  /\ UNCHANGED <<files, pc, cwd, dataSize, file, results, failed>>

ConfigSet == \E path \in Path : WriteConfigFile(path)
ConfigDefault == WriteConfigFile(EmptyValue)

\* An editor writes a file: for a moment it does not parse.
BeginEdit(f) ==
  /\ files[f] # Malformed
  /\ files' = [files EXCEPT ![f] = Malformed]
  /\ UNCHANGED <<configFile, pc, cwd, dataSize, file, results, history>>

EndEdit(f) ==
  /\ files[f] = Malformed
  /\ \E d \in Document : files' = [files EXCEPT ![f] = d]
  /\ UNCHANGED <<configFile, pc, cwd, dataSize, file, results, history>>

-----------------------------------------------------------------------------
(* A start.                                                                *)

Goto(p, step) == pc' = [pc EXCEPT ![p] = step]

Start(p) ==
  /\ pc[p] = "off"
  /\ Goto(p, "ReadSize")
  /\ \E d \in Directory : cwd' = [cwd EXCEPT ![p] = d]
  /\ UNCHANGED <<configFile, files, dataSize, file, results, history>>

\* The default path is relative.
UseDefaultFile(p) ==
  /\ file' = [file EXCEPT ![p] = cwd[p]]
  /\ Goto(p, "Parse")

ReadSize(p) ==
  /\ pc[p] = "ReadSize"
  /\ seen' = [seen EXCEPT ![p] = {configFile}]
  /\ \/ /\ configFile = NoValue
        /\ UseDefaultFile(p)
        /\ UNCHANGED dataSize
     \/ /\ configFile # NoValue
        /\ dataSize' = [dataSize EXCEPT ![p] = Size(configFile)]
        /\ Goto(p, "ReadData")
        /\ UNCHANGED file
  /\ UNCHANGED <<configFile, files, cwd, results, failed>>

\* Any failure of the two calls gives the default file.
ReadFails(p) ==
  /\ pc[p] \in {"ReadSize", "ReadData"}
  /\ UseDefaultFile(p)
  /\ dataSize' = [dataSize EXCEPT ![p] = 0]
  /\ failed' = [failed EXCEPT ![p] = TRUE]
  /\ UNCHANGED <<configFile, files, cwd, results, seen>>

\* Mutant: the value is used even when it is empty.
ReadData_EmptyIsAPath(p) ==
  /\ pc[p] = "ReadData"
  /\ IF Size(configFile) > dataSize[p]
     THEN UseDefaultFile(p)
     ELSE /\ file' = [file EXCEPT ![p] = configFile]
          /\ Goto(p, "Parse")
  /\ dataSize' = [dataSize EXCEPT ![p] = 0]
  /\ UNCHANGED <<configFile, files, cwd, results, history>>

\* A value that no longer fits is an error, and like an empty value it gives
\* the default file.
ReadData(p) ==
  /\ pc[p] = "ReadData"
  /\ IF configFile = EmptyValue \/ Size(configFile) > dataSize[p]
     THEN UseDefaultFile(p)
     ELSE /\ file' = [file EXCEPT ![p] = configFile]
          /\ Goto(p, "Parse")
  /\ dataSize' = [dataSize EXCEPT ![p] = 0]
  /\ UNCHANGED <<configFile, files, cwd, results, history>>

\* ParseJSONFile throws on an empty path, like on a file that is not there.
Content(p) == IF file[p] = EmptyValue THEN Missing ELSE files[file[p]]

\* LoadConfiguration: one reading of the file serves both configurations.
Parse(p) ==
  /\ pc[p] = "Parse"
  /\ loaded' = [loaded EXCEPT ![p] = Content(p)]
  /\ Goto(p, "Apis")
  /\ UNCHANGED <<configFile, files, cwd, dataSize, file, item, enabled, whitelist, history>>

Root(p) == LoadConfigFile(loaded[p])
Section(p) == SafelyGetSection(Root(p))

\* An item that is no string, empty or no API is skipped.
ReadApi(p) ==
  /\ pc[p] = "Apis" /\ HasApis(Root(p)) /\ item[p] <= Len(Root(p).api.items)
  /\ enabled' = [enabled EXCEPT ![p] = @ \cup ({Root(p).api.items[item[p]]} \cap Api)]
  /\ item' = [item EXCEPT ![p] = @ + 1]
  /\ UNCHANGED <<configFile, files, pc, cwd, dataSize, file, loaded, whitelist, history>>

\* Mutant: a list that enables nothing counts as no list.
EnableApis_EmptyIsDefault(p) ==
  /\ pc[p] = "Apis"
  /\ HasApis(Root(p)) => item[p] > Len(Root(p).api.items)
  /\ enabled' = [enabled EXCEPT ![p] = IF HasApis(Root(p)) /\ @ # {} THEN @ ELSE Api]
  /\ item' = [item EXCEPT ![p] = 1]
  /\ Goto(p, "Services")
  /\ UNCHANGED <<configFile, files, cwd, dataSize, file, loaded, whitelist, history>>

\* The list ends, or ApplyDefaults stands for one.
EnableApis(p) ==
  /\ pc[p] = "Apis"
  /\ HasApis(Root(p)) => item[p] > Len(Root(p).api.items)
  /\ enabled' = [enabled EXCEPT ![p] = IF HasApis(Root(p)) THEN @ ELSE Api]
  /\ item' = [item EXCEPT ![p] = 1]
  /\ Goto(p, "Services")
  /\ UNCHANGED <<configFile, files, cwd, dataSize, file, loaded, whitelist, history>>

\* The same for NTServiceConfig, where every string is taken.
ReadService(p) ==
  /\ pc[p] = "Services" /\ HasServices(Section(p)) /\ item[p] <= Len(Section(p).whitelist.items)
  /\ whitelist' = [whitelist EXCEPT ![p] = @ \cup ({Section(p).whitelist.items[item[p]]} \ {NotAString, ""})]
  /\ item' = [item EXCEPT ![p] = @ + 1]
  /\ UNCHANGED <<configFile, files, pc, cwd, dataSize, file, loaded, enabled, history>>

AllowServices(p) ==
  /\ pc[p] = "Services"
  /\ HasServices(Section(p)) => item[p] > Len(Section(p).whitelist.items)
  /\ whitelist' = [whitelist EXCEPT ![p] = IF HasServices(Section(p)) THEN @ ELSE DefaultWhitelist]
  /\ item' = [item EXCEPT ![p] = 1]
  /\ Goto(p, "up")
  /\ UNCHANGED <<configFile, files, cwd, dataSize, file, loaded, enabled, history>>

\* The process ends.
Exit(p) ==
  /\ pc[p] = "up"
  /\ Goto(p, "off")
  /\ cwd' = [cwd EXCEPT ![p] = ExeDirectory]
  /\ file' = [file EXCEPT ![p] = ExeDirectory]
  /\ loaded' = [loaded EXCEPT ![p] = Missing]
  /\ item' = [item EXCEPT ![p] = 1]
  /\ enabled' = [enabled EXCEPT ![p] = {}]
  /\ whitelist' = [whitelist EXCEPT ![p] = {}]
  /\ seen' = [seen EXCEPT ![p] = {}]
  /\ failed' = [failed EXCEPT ![p] = FALSE]
  /\ UNCHANGED <<configFile, files, dataSize>>

Next ==
  \/ ConfigSet \/ ConfigDefault
  \/ \E f \in File : BeginEdit(f) \/ EndEdit(f)
  \/ \E p \in Process :
       \/ Start(p) \/ ReadSize(p) \/ ReadFails(p) \/ ReadData(p) \/ Parse(p) \/ Exit(p)
       \/ ReadApi(p) \/ EnableApis(p) \/ ReadService(p) \/ AllowServices(p)

Spec == Init /\ [][Next]_vars

-----------------------------------------------------------------------------
\* The lists as docs/dm-configuration.md defines them: "if an `api` array is
\* defined in the configuration file, it will only load the specified API", and
\* defaults "if the configuration file is not present or has syntax errors".
IsObject(content) == content \in Document /\ content.root = "object"
DocumentedApi(content) ==
  IF IsObject(content) /\ content.api.kind = "array"
  THEN Range(content.api.items) \cap Api
  ELSE Api
DocumentedWhitelist(content) ==
  IF /\ IsObject(content)
     /\ content.servicemanager.root = "object"
     /\ content.servicemanager.whitelist.kind = "array"
  THEN Range(content.servicemanager.whitelist.items) \ {NotAString, ""}
  ELSE DefaultWhitelist

\* A process that is up has the documented configuration of what one file held
\* at one instant, both lists of the same instant, whatever that was.
ConfigurationIsDocumented ==
  \A p \in Process :
    pc[p] = "up" =>
      /\ enabled[p] = DocumentedApi(loaded[p])
      /\ whitelist[p] = DocumentedWhitelist(loaded[p])

\* Why a process may load the default file: none was set, a call failed, or the
\* path was replaced by a longer one between the two calls.
HasReason(p) ==
  \/ failed[p]
  \/ seen[p] \cap {NoValue, EmptyValue} # {}
  \/ \E old, new \in seen[p] : Size(new) > Size(old)

\* A process uses a file that -config had set at some time while the registry was
\* read, never a mixture, or for one of these reasons the default file: the one
\* of the directory it was started in, as ConfigUtils.cpp:45 has it.
FileIsConfigured ==
  \A p \in Process :
    pc[p] \in Loading \cup {"up"} =>
      file[p] \in seen[p] \cap Path \/ (file[p] = cwd[p] /\ HasReason(p))

=============================================================================
