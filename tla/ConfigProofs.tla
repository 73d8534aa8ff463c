--------------------------- MODULE ConfigProofs ---------------------------
(***************************************************************************)
(* Proofs about Config, for any paths of any lengths, directories and      *)
(* documents, lists of any lengths, and any number of processes.           *)
(***************************************************************************)
EXTENDS Config, TLAPS

-----------------------------------------------------------------------------
\* A process that has asked for the size of the registry value finds one when it
\* asks for the data: among the values it may see are the one whose size it has
\* and the present one.  Afterwards it goes for the file that FileIsConfigured says.
ReadInv(p) ==
  /\ pc[p] = "ReadData" =>
       /\ configFile # NoValue /\ configFile \in seen[p]
       /\ \E old \in seen[p] : dataSize[p] = Size(old)
  /\ pc[p] \in Loading \cup {"up"} =>
       file[p] \in seen[p] \cap Path \/ (file[p] = cwd[p] /\ HasReason(p))

\* The items of a list that have been read.
ItemsRead(p, items) == {items[i] : i \in 1 .. item[p] - 1}

\* The lists hold what has been read of them, and a finished list is the documented
\* one of the file that was parsed.
ListInv(p) ==
  /\ pc[p] \in Step \ {"Apis", "Services", "up"} => item[p] = 1 /\ enabled[p] = {}
  /\ pc[p] \in Step \ {"Services", "up"} => whitelist[p] = {}
  /\ pc[p] = "Apis" =>
       IF HasApis(Root(p))
       THEN item[p] <= Len(Root(p).api.items) + 1 /\ enabled[p] = ItemsRead(p, Root(p).api.items) \cap Api
       ELSE item[p] = 1
  /\ pc[p] \in {"Services", "up"} => enabled[p] = DocumentedApi(loaded[p])
  /\ pc[p] = "Services" =>
       IF HasServices(Section(p))
       THEN /\ item[p] <= Len(Section(p).whitelist.items) + 1
            /\ whitelist[p] = ItemsRead(p, Section(p).whitelist.items) \ {NotAString, ""}
       ELSE item[p] = 1
  /\ pc[p] = "up" => whitelist[p] = DocumentedWhitelist(loaded[p])

Reads == TypeOK /\ \A p \in Process : ReadInv(p)

IInv == Reads /\ \A p \in Process : ListInv(p)

LEMMA SizeIsNat == ASSUME NEW v \in Value \ {NoValue} PROVE Size(v) \in Nat
BY PathAssumption DEF Value, Size

LEMMA InitInv == Init => IInv
<1> SUFFICES ASSUME Init PROVE IInv
  OBVIOUS
<1>1. Reads
  BY DirectoryAssumption DEF Init, Reads, TypeOK, Value, File, Step, Loading, ReadInv
<1>2. ASSUME NEW p \in Process PROVE ListInv(p)
  BY DEF Init, ListInv, Step, Loading
<1> QED
  BY <1>1, <1>2 DEF IInv

\* What a document is read for and what it is documented to mean.
LEMMA ContentIs ==
  ASSUME NEW c \in Document \cup {Missing, Malformed}
  PROVE  LET root == LoadConfigFile(c)
             section == SafelyGetSection(root)
         IN /\ HasApis(root) => /\ root.api.items \in Seq(STRING)
                                /\ DocumentedApi(c) = Range(root.api.items) \cap Api
            /\ ~HasApis(root) => DocumentedApi(c) = Api
            /\ HasServices(section) =>
                 /\ section.whitelist.items \in Seq(STRING)
                 /\ DocumentedWhitelist(c) = Range(section.whitelist.items) \ {NotAString, ""}
            /\ ~HasServices(section) => DocumentedWhitelist(c) = DefaultWhitelist
<1>1. CASE c \in {Missing, Malformed}
  <2>1. LoadConfigFile(c) = JsonTrue /\ JsonTrue.root # "object" /\ c \notin Document
    BY <1>1, ContentAssumption DEF LoadConfigFile, JsonTrue
  <2>2. SafelyGetSection(JsonTrue) = JsonTrue
    BY <2>1 DEF SafelyGetSection
  <2> QED
    BY <2>1, <2>2 DEF HasApis, HasServices, DocumentedApi, DocumentedWhitelist, IsObject
<1>2. CASE c \in Document
  <2>1. LoadConfigFile(c) = c
    BY <1>2, ContentAssumption DEF LoadConfigFile
  <2>2. IsObject(c) <=> c.root = "object"
    BY <1>2 DEF IsObject
  <2>3. /\ HasApis(c) => /\ c.api.items \in Seq(STRING)
                         /\ DocumentedApi(c) = Range(c.api.items) \cap Api
        /\ ~HasApis(c) => DocumentedApi(c) = Api
    BY <1>2, <2>2, DocumentAssumption DEF HasApis, DocumentedApi
  <2>4. CASE c.root = "object"
    <3>1. SafelyGetSection(c) = c.servicemanager
      BY <2>4 DEF SafelyGetSection
    <3> QED
      BY <1>2, <2>1, <2>2, <2>3, <2>4, <3>1, DocumentAssumption DEF HasServices, DocumentedWhitelist
  <2>5. CASE c.root # "object"
    <3>1. SafelyGetSection(c) = JsonTrue /\ JsonTrue.root # "object"
      BY <2>5 DEF SafelyGetSection, JsonTrue
    <3> QED
      BY <2>1, <2>2, <2>3, <2>5, <3>1 DEF HasServices, DocumentedWhitelist
  <2> QED
    BY <2>4, <2>5
<1> QED
  BY <1>1, <1>2

\* The two reads of the registry fit together.
LEMMA ReadsKept == Reads /\ [Next]_vars => Reads'
<1> SUFFICES ASSUME Reads, [Next]_vars PROVE Reads'
  OBVIOUS
<1> USE DEF Reads, TypeOK, Step, Loading, ReadInv, results, history, HasReason
<1>1. ASSUME NEW v \in Path \cup {EmptyValue}, WriteConfigFile(v) PROVE Reads'
  <2>1. ASSUME NEW p \in Process PROVE ReadInv(p)'
    <3>1. v \in seen'[p] \/ pc[p] # "ReadData"
      BY <1>1 DEF WriteConfigFile
    <3>2. seen[p] \subseteq seen'[p] /\ (pc[p] # "ReadData" => seen'[p] = seen[p])
      BY <1>1 DEF WriteConfigFile
    <3>3. ReadInv(p) /\ configFile' = v /\ UNCHANGED <<pc, dataSize, file, cwd, failed>>
      BY <1>1 DEF WriteConfigFile
    <3>4. v # NoValue
      BY PathAssumption DEF NoValue, EmptyValue
    <3>5. QED BY <3>1, <3>2, <3>3, <3>4
  <2>2. v # NoValue
    BY PathAssumption DEF NoValue, EmptyValue
  <2>3. QED BY <1>1, <2>1, <2>2 DEF WriteConfigFile, Value
<1>2. ASSUME NEW f \in File, BeginEdit(f) \/ EndEdit(f) PROVE Reads'
  BY <1>2 DEF BeginEdit, EndEdit
<1>3. ASSUME NEW p \in Process, Start(p) PROVE Reads'
  BY <1>3 DEF Start, Goto
<1>4. ASSUME NEW p \in Process, ReadSize(p) PROVE Reads'
  <2>1. CASE configFile = NoValue
    BY <1>4, <2>1, PathAssumption DEF ReadSize, UseDefaultFile, Goto, File, Value
  <2>2. CASE configFile # NoValue
    BY <1>4, <2>2, SizeIsNat DEF ReadSize, UseDefaultFile, Goto, Value
  <2>3. QED BY <2>1, <2>2
<1>45. ASSUME NEW p \in Process, ReadFails(p) PROVE Reads'
  BY <1>45 DEF ReadFails, UseDefaultFile, Goto, File
<1>5. ASSUME NEW p \in Process, ReadData(p) PROVE Reads'
  <2>0. /\ pc[p] = "ReadData" /\ dataSize' = [dataSize EXCEPT ![p] = 0]
        /\ UNCHANGED <<configFile, files, cwd, results, history>>
    BY <1>5 DEF ReadData
  <2>1. configFile \in Value \cap seen[p] /\ \E old \in seen[p] : dataSize[p] = Size(old)
    BY <2>0
  <2>5. CASE configFile = EmptyValue \/ Size(configFile) > dataSize[p]
    <3>1. HasReason(p)
      BY <2>1, <2>5
    <3>2. file' = [file EXCEPT ![p] = cwd[p]] /\ pc' = [pc EXCEPT ![p] = "Parse"]
      BY <1>5, <2>5 DEF ReadData, UseDefaultFile, Goto
    <3>3. QED BY <2>0, <3>1, <3>2 DEF File
  <2>6. CASE configFile # EmptyValue /\ ~(Size(configFile) > dataSize[p])
    <3>1. file' = [file EXCEPT ![p] = configFile] /\ pc' = [pc EXCEPT ![p] = "Parse"]
      BY <1>5, <2>6 DEF ReadData, Goto
    <3>2. configFile \in Path
      BY <2>0, <2>1, <2>6 DEF Value
    <3>3. QED BY <2>0, <2>1, <3>1, <3>2 DEF Value, File
  <2>7. QED BY <2>5, <2>6
<1>6. ASSUME NEW p \in Process, Parse(p) PROVE Reads'
  <2>1. file[p] \in File \/ file[p] = EmptyValue
    OBVIOUS
  <2>2. Content(p) \in Document \cup {Missing, Malformed}
    BY <2>1 DEF Content
  <2> QED
    BY <1>6, <2>2 DEF Parse, Goto
<1>7. ASSUME NEW p \in Process, ReadApi(p) \/ EnableApis(p) \/ ReadService(p) \/ AllowServices(p) PROVE Reads'
  <2>1. /\ UNCHANGED <<configFile, files, cwd, dataSize, file, loaded, history>>
        /\ pc[p] \in Loading
        /\ pc' = pc \/ pc' = [pc EXCEPT ![p] = "Services"] \/ pc' = [pc EXCEPT ![p] = "up"]
    BY <1>7 DEF ReadApi, EnableApis, ReadService, AllowServices, Goto
  <2>4. item' \in [Process -> Nat \ {0}]
    <3>1. item' = [item EXCEPT ![p] = item[p] + 1] \/ item' = [item EXCEPT ![p] = 1]
      BY <1>7 DEF ReadApi, EnableApis, ReadService, AllowServices
    <3>2. item[p] + 1 \in Nat \ {0}
      BY item[p] \in Nat \ {0}
    <3> QED
      BY <3>1, <3>2
  <2>2. enabled' \in [Process -> SUBSET Api]
    <3>1. CASE ReadApi(p)
      <4>1. enabled[p] \cup ({Root(p).api.items[item[p]]} \cap Api) \in SUBSET Api
        OBVIOUS
      <4>2. enabled' = [enabled EXCEPT ![p] = enabled[p] \cup ({Root(p).api.items[item[p]]} \cap Api)]
        BY <3>1 DEF ReadApi
      <4> QED
        BY <4>1, <4>2
    <3>2. CASE EnableApis(p)
      BY <3>2 DEF EnableApis
    <3>3. CASE ReadService(p) \/ AllowServices(p)
      BY <3>3 DEF ReadService, AllowServices
    <3> QED
      BY <1>7, <3>1, <3>2, <3>3
  <2>3. whitelist' \in [Process -> SUBSET STRING]
    <3>1. CASE ReadService(p)
      <4>1. Section(p).whitelist.items \in Seq(STRING)
        BY <3>1, ContentIs DEF ReadService, Section, Root
      <4>2. Section(p).whitelist.items[item[p]] \in STRING
        <5>1. item[p] \in 1 .. Len(Section(p).whitelist.items)
          <6>1. Len(Section(p).whitelist.items) \in Nat /\ item[p] \in Nat \ {0}
            BY <4>1
          <6>2. item[p] <= Len(Section(p).whitelist.items)
            BY <3>1 DEF ReadService
          <6> QED
            BY <6>1, <6>2
        <5> QED
          BY <4>1, <5>1
      <4> QED
        BY <3>1, <4>2 DEF ReadService
    <3>2. CASE ~ReadService(p)
      BY <1>7, <3>2, WhitelistAssumption DEF ReadApi, EnableApis, AllowServices
    <3> QED
      BY <3>1, <3>2
  <2> QED
    BY <2>1, <2>2, <2>3, <2>4
<1>8. ASSUME NEW p \in Process, Exit(p) PROVE Reads'
  BY <1>8, DirectoryAssumption DEF Exit, Goto, File
<1>9. CASE UNCHANGED vars
  BY <1>9 DEF vars
<1> QED
  BY <1>1, <1>2, <1>3, <1>4, <1>45, <1>5, <1>6, <1>7, <1>8, <1>9 DEF Next, ConfigSet, ConfigDefault

-----------------------------------------------------------------------------
\* All of a list is read when its last item is.
LEMMA AllItems ==
  ASSUME NEW p \in Process, NEW items \in Seq(STRING), item[p] \in Nat \ {0}
  PROVE  /\ item[p] = Len(items) + 1 => ItemsRead(p, items) = Range(items)
         /\ item[p] = 1 => ItemsRead(p, items) = {}
         /\ item'[p] = item[p] + 1 => ItemsRead(p, items)' = ItemsRead(p, items) \cup {items[item[p]]}
         /\ Len(items) \in Nat
<1>1. Len(items) \in Nat /\ DOMAIN items = 1 .. Len(items)
  OBVIOUS
<1>2. ASSUME item[p] = Len(items) + 1 PROVE ItemsRead(p, items) = Range(items)
  <2>1. 1 .. item[p] - 1 = DOMAIN items
    BY <1>1, <1>2
  <2> QED
    BY <2>1 DEF ItemsRead, Range
<1>3. ASSUME item[p] = 1 PROVE ItemsRead(p, items) = {}
  <2>1. 1 .. item[p] - 1 = {}
    BY <1>3
  <2> QED
    BY <2>1 DEF ItemsRead
<1>4. ASSUME item'[p] = item[p] + 1 PROVE ItemsRead(p, items)' = ItemsRead(p, items) \cup {items[item[p]]}
  <2>1. 1 .. item'[p] - 1 = (1 .. item[p] - 1) \cup {item[p]}
    BY <1>4
  <2> QED
    BY <2>1 DEF ItemsRead
<1> QED
  BY <1>1, <1>2, <1>3, <1>4

LEMMA ListKept ==
  ASSUME NEW q \in Process, ListInv(q),
         pc'[q] = pc[q] \/ (pc[q] \in {"off", "ReadSize", "ReadData"} /\ pc'[q] \in {"ReadSize", "ReadData", "Parse"}),
         loaded'[q] = loaded[q], item'[q] = item[q], enabled'[q] = enabled[q], whitelist'[q] = whitelist[q]
  PROVE  ListInv(q)'
<1>1. Root(q)' = Root(q) /\ Section(q)' = Section(q)
  BY DEF Root, Section
<1>2. \A items : ItemsRead(q, items)' = ItemsRead(q, items)
  BY DEF ItemsRead
<1>3. pc'[q] # pc[q] => pc'[q] \in Step \ {"Apis", "Services", "up"} /\ pc[q] \in Step \ {"Apis", "Services", "up"}
  BY DEF Step, Loading
<1> QED
  BY <1>1, <1>2, <1>3 DEF ListInv

LEMMA ListsKept ==
  ASSUME Reads, Next, NEW q \in Process, ListInv(q)
  PROVE  ListInv(q)'
<1>1. CASE ConfigSet \/ ConfigDefault \/ \E f \in File : BeginEdit(f) \/ EndEdit(f)
  <2>1. UNCHANGED <<pc, results>>
    BY <1>1 DEF ConfigSet, ConfigDefault, WriteConfigFile, BeginEdit, EndEdit
  <2> QED
    BY <2>1, ListKept DEF results
<1>2. ASSUME NEW p \in Process, Start(p) \/ ReadSize(p) \/ ReadFails(p) \/ ReadData(p) PROVE ListInv(q)'
  <2>1. /\ UNCHANGED results /\ pc[p] \in {"off", "ReadSize", "ReadData"}
        /\ \E s \in {"ReadSize", "ReadData", "Parse"} : pc' = [pc EXCEPT ![p] = s]
    BY <1>2 DEF Start, ReadSize, ReadFails, ReadData, UseDefaultFile, Goto
  <2>2. pc \in [Process -> Step]
    BY DEF Reads, TypeOK
  <2> QED
    BY <2>1, <2>2, ListKept DEF results
<1>3. ASSUME NEW p \in Process, p # q,
             Parse(p) \/ ReadApi(p) \/ EnableApis(p) \/ ReadService(p) \/ AllowServices(p) \/ Exit(p)
      PROVE  ListInv(q)'
  <2>1. pc'[q] = pc[q] /\ loaded'[q] = loaded[q] /\ item'[q] = item[q]
        /\ enabled'[q] = enabled[q] /\ whitelist'[q] = whitelist[q]
    BY <1>3 DEF Parse, ReadApi, EnableApis, ReadService, AllowServices, Exit, Goto, Reads, TypeOK
  <2> QED
    BY <2>1, ListKept
<1>4. /\ pc \in [Process -> Step] /\ item \in [Process -> Nat \ {0}] /\ enabled \in [Process -> SUBSET Api]
      /\ loaded \in [Process -> Document \cup {Missing, Malformed}]
      /\ whitelist \in [Process -> SUBSET STRING]
      /\ loaded' \in [Process -> Document \cup {Missing, Malformed}]
  BY ReadsKept DEF Reads, TypeOK
<1>5. ASSUME Parse(q) PROVE ListInv(q)'
  <2>1. /\ pc'[q] = "Apis" /\ item'[q] = 1 /\ enabled'[q] = {} /\ whitelist'[q] = {}
    BY <1>4, <1>5 DEF Parse, Goto, ListInv, Step, Loading
  <2>2. HasApis(Root(q))' => Root(q)'.api.items \in Seq(STRING)
    BY <1>4, ContentIs DEF Root
  <2>3. HasApis(Root(q))' => 1 <= Len(Root(q)'.api.items) + 1
    BY <2>2
  <2>4. {Root(q)'.api.items[i] : i \in 1 .. item'[q] - 1} = {}
    <3>1. 1 .. item'[q] - 1 = {}
      BY <2>1
    <3> QED
      BY <3>1
  <2> QED
    BY <2>1, <2>3, <2>4 DEF ListInv, ItemsRead
<1>6. Root(q) = LoadConfigFile(loaded[q]) /\ Section(q) = SafelyGetSection(Root(q)) /\ loaded[q] \in Document \cup {Missing, Malformed}
  BY <1>4 DEF Root, Section
<1>7. ASSUME loaded' = loaded
      PROVE  Root(q)' = Root(q) /\ Section(q)' = Section(q)
  BY <1>7 DEF Root, Section
<1>8. ASSUME ReadApi(q) PROVE ListInv(q)'
  <2>1. HasApis(Root(q)) /\ Root(q).api.items \in Seq(STRING)
    <3>1. HasApis(Root(q))
      BY <1>8 DEF ReadApi
    <3> QED
      BY <1>6, <3>1, ContentIs
  <2> PICK items \in Seq(STRING) : items = Root(q).api.items
    BY <2>1
  <2>2. /\ pc'[q] = "Apis" /\ item'[q] = item[q] + 1 /\ whitelist'[q] = {} /\ loaded' = loaded
        /\ HasApis(Root(q)) /\ item[q] <= Len(items)
        /\ enabled'[q] = enabled[q] \cup ({items[item[q]]} \cap Api)
        /\ enabled[q] = ItemsRead(q, items) \cap Api
    BY <1>4, <1>8 DEF ReadApi, ListInv, Step, Loading
  <2>3. item[q] \in Nat \ {0}
    BY <1>4
  <2>4. ItemsRead(q, items)' = ItemsRead(q, items) \cup {items[item[q]]} /\ Len(items) \in Nat
    BY <2>2, <2>3, AllItems
  <2>5. enabled'[q] = ItemsRead(q, items)' \cap Api
    BY <2>2, <2>4
  <2>6. item'[q] <= Len(items) + 1
    BY <2>2, <2>3, <2>4
  <2> QED
    BY <1>7, <2>2, <2>5, <2>6 DEF ListInv
<1>9. ASSUME EnableApis(q) PROVE ListInv(q)'
  <2>1. /\ pc'[q] = "Services" /\ item'[q] = 1 /\ whitelist'[q] = {} /\ loaded' = loaded /\ pc[q] = "Apis"
        /\ HasApis(Root(q)) => item[q] > Len(Root(q).api.items)
        /\ enabled'[q] = IF HasApis(Root(q)) THEN enabled[q] ELSE Api
    BY <1>4, <1>9 DEF EnableApis, Goto, ListInv, Step, Loading
  <2>2. enabled'[q] = DocumentedApi(loaded[q])
    <3>1. CASE HasApis(Root(q))
      <4> DEFINE items == Root(q).api.items
      <4>1. items \in Seq(STRING) /\ DocumentedApi(loaded[q]) = Range(items) \cap Api
        BY <1>6, <3>1, ContentIs
      <4>2. item[q] > Len(items) /\ item[q] <= Len(items) + 1 /\ enabled[q] = ItemsRead(q, items) \cap Api
        BY <2>1, <3>1 DEF ListInv
      <4> HIDE DEF items
      <4>3. item[q] \in Nat \ {0} /\ Len(items) \in Nat
        <5>1. item[q] \in Nat \ {0}
          BY <1>4
        <5>2. Len(items) \in Nat
          BY <4>1
        <5> QED
          BY <5>1, <5>2
      <4>4. item[q] = Len(items) + 1
        BY <4>2, <4>3
      <4> QED
        BY <1>4, <2>1, <3>1, <4>1, <4>2, <4>3, <4>4, AllItems
    <3>2. CASE ~HasApis(Root(q))
      BY <1>6, <2>1, <3>2, ContentIs
    <3> QED
      BY <3>1, <3>2
  <2>3. HasServices(Section(q)) =>
          /\ 1 <= Len(Section(q).whitelist.items) + 1
          /\ {Section(q).whitelist.items[i] : i \in 1 .. item'[q] - 1} = {}
    <3>1. HasServices(Section(q)) => Len(Section(q).whitelist.items) \in Nat
      <4>1. HasServices(Section(q)) => Section(q).whitelist.items \in Seq(STRING)
        BY <1>6, ContentIs
      <4> QED
        BY <4>1
    <3>2. 1 .. item'[q] - 1 = {}
      BY <2>1
    <3> QED
      BY <3>1, <3>2
  <2> QED
    BY <1>7, <2>1, <2>2, <2>3 DEF ListInv, ItemsRead
<1>10. ASSUME ReadService(q) PROVE ListInv(q)'
  <2>1. HasServices(Section(q)) /\ Section(q).whitelist.items \in Seq(STRING)
    <3>1. HasServices(Section(q))
      BY <1>10 DEF ReadService
    <3> QED
      BY <1>6, <3>1, ContentIs
  <2> PICK items \in Seq(STRING) : items = Section(q).whitelist.items
    BY <2>1
  <2>2. /\ pc'[q] = "Services" /\ item'[q] = item[q] + 1 /\ loaded' = loaded /\ enabled' = enabled
        /\ HasServices(Section(q)) /\ item[q] <= Len(items)
        /\ whitelist'[q] = whitelist[q] \cup ({items[item[q]]} \ {NotAString, ""})
        /\ whitelist[q] = ItemsRead(q, items) \ {NotAString, ""}
        /\ enabled[q] = DocumentedApi(loaded[q])
    BY <1>4, <1>10 DEF ReadService, ListInv
  <2>3. item[q] \in Nat \ {0}
    BY <1>4
  <2>4. ItemsRead(q, items)' = ItemsRead(q, items) \cup {items[item[q]]} /\ Len(items) \in Nat
    BY <2>2, <2>3, AllItems
  <2>5. whitelist'[q] = ItemsRead(q, items)' \ {NotAString, ""}
    <3> DEFINE read == ItemsRead(q, items)
               next == {items[item[q]]}
               Skipped == {NotAString, ""}
    <3>1. (read \ Skipped) \cup (next \ Skipped) = (read \cup next) \ Skipped
      <4> HIDE DEF read, next, Skipped
      <4> QED
        OBVIOUS
    <3> QED
      BY <2>2, <2>4, <3>1, Zenon
  <2>6. item'[q] <= Len(items) + 1
    <3>1. item'[q] = item[q] + 1 /\ item[q] <= Len(items)
      BY <2>2
    <3> QED
      BY <2>3, <2>4, <3>1
  <2> QED
    BY <1>7, <2>2, <2>5, <2>6 DEF ListInv
<1>11. ASSUME AllowServices(q) PROVE ListInv(q)'
  <2>1. /\ pc'[q] = "up" /\ loaded' = loaded /\ enabled' = enabled
        /\ HasServices(Section(q)) => item[q] > Len(Section(q).whitelist.items)
        /\ whitelist'[q] = IF HasServices(Section(q)) THEN whitelist[q] ELSE DefaultWhitelist
        /\ enabled[q] = DocumentedApi(loaded[q]) /\ pc[q] = "Services"
    BY <1>4, <1>11 DEF AllowServices, Goto, ListInv
  <2>2. whitelist'[q] = DocumentedWhitelist(loaded[q])
    <3>1. CASE HasServices(Section(q))
      <4> DEFINE items == Section(q).whitelist.items
      <4>1. items \in Seq(STRING)
        BY <1>6, <3>1, ContentIs
      <4>2. item[q] > Len(items) /\ item[q] <= Len(items) + 1
        BY <2>1, <3>1 DEF ListInv
      <4>3. /\ DocumentedWhitelist(loaded[q]) = Range(items) \ {NotAString, ""}
            /\ whitelist[q] = ItemsRead(q, items) \ {NotAString, ""}
        BY <1>6, <2>1, <3>1, ContentIs DEF ListInv
      <4> HIDE DEF items
      <4>4. item[q] \in Nat \ {0} /\ Len(items) \in Nat
        <5>1. item[q] \in Nat \ {0}
          BY <1>4
        <5>2. Len(items) \in Nat
          BY <4>1
        <5> QED
          BY <5>1, <5>2
      <4>5. item[q] = Len(items) + 1
        BY <4>2, <4>4
      <4> QED
        BY <2>1, <3>1, <4>1, <4>3, <4>4, <4>5, AllItems
    <3>2. CASE ~HasServices(Section(q))
      BY <1>6, <2>1, <3>2, ContentIs
    <3> QED
      BY <3>1, <3>2
  <2> QED
    BY <2>1, <2>2 DEF ListInv
<1>12. ASSUME Exit(q) PROVE ListInv(q)'
  <2>1. pc'[q] = "off" /\ item'[q] = 1 /\ enabled'[q] = {} /\ whitelist'[q] = {}
    BY <1>4, <1>12 DEF Exit, Goto
  <2> QED
    BY <2>1 DEF ListInv, Step, Loading
<1> QED
  BY <1>1, <1>2, <1>3, <1>5, <1>8, <1>9, <1>10, <1>11, <1>12 DEF Next

LEMMA StepInv == IInv /\ [Next]_vars => IInv'
<1> SUFFICES ASSUME IInv, [Next]_vars PROVE IInv'
  OBVIOUS
<1>1. Reads'
  BY ReadsKept DEF IInv
<1>2. ASSUME NEW q \in Process PROVE ListInv(q)'
  <2>1. CASE Next
    BY <2>1, ListsKept DEF IInv
  <2>2. CASE UNCHANGED vars
    BY <2>2, ListKept DEF IInv, vars, results
  <2> QED
    BY <2>1, <2>2
<1> QED
  BY <1>1, <1>2 DEF IInv

\* The two reads of the registry fit together, and the lists hold what has been
\* read of them.
THEOREM Invariant == Spec => []IInv
<1>1. QED BY InitInv, StepInv, PTL DEF Spec

\* Type correctness of the configuration.
THEOREM TypeCorrect == Spec => []TypeOK
<1>1. IInv => TypeOK
  BY DEF IInv, Reads
<1>2. QED BY <1>1, Invariant, PTL

\* A process uses a file that -config had set while the registry was read, or for a
\* reason the default one, for paths of any lengths (ConfigUtils::LoadConfigFile
\* and TryReadRegistryValue).
THEOREM FileIsConfiguredAlways == Spec => []FileIsConfigured
<1>1. IInv => FileIsConfigured
  BY DEF IInv, Reads, ReadInv, FileIsConfigured
<1>2. QED BY <1>1, Invariant, PTL

\* A process that is up has the documented configuration of what one file held at
\* one instant, for documents and lists of any lengths (DMBridgeConfig::ParseJSON,
\* NTServiceConfig::ParseJSON and their defaults).
THEOREM ConfigurationIsDocumentedAlways == Spec => []ConfigurationIsDocumented
<1>1. IInv => ConfigurationIsDocumented
  BY DEF IInv, ListInv, ConfigurationIsDocumented
<1>2. QED BY <1>1, Invariant, PTL

=============================================================================
