----------------------------- MODULE VssMapping -----------------------------
(***************************************************************************)
(* From frames to the store: VssMapper reads which VSS path belongs to     *)
(* which DBC signal, and CanAgent::processMessage makes a SET command for  *)
(* each signal of a message that has a path.  Frames and their decoding    *)
(* are those of DbcDatabase.  The queues between DataManager, agent and    *)
(* Redis are in other modules; here a message is processed at once.        *)
(***************************************************************************)
EXTENDS DbcDatabase

CONSTANTS
  Yamls,     \* contents of vss.yaml: sequences of nodes
  Mappers    \* contents of vss_dbc_mapper.json: sequences of pairs of names

Node == [key : STRING, type : {"branch", "leaf"}]
\* SG_ is a keyword of the DBC format.
NamePair == [vss : Name, dbc : STRING \ {"SG_"}]
ASSUME MappersAssumption ==
  /\ Yamls \subseteq Seq(Node) /\ Mappers \subseteq Seq(NamePair)
  \* The keys of a JSON object are distinct.
  /\ \A m \in Mappers : \A i, j \in DOMAIN m : m[i].vss = m[j].vss => i = j

VARIABLES
  yaml, mapper,                              \* the files
  vss_read,                                  \* which of their lines were read
  m_db_cache_map, m_vss2dbc_map, m_dbc2vss_map,
  agent,                                     \* is the message in can_msg processed?
  store                                      \* what the SET commands leave in Redis

mapVars == <<yaml, mapper, vss_read, m_db_cache_map, m_vss2dbc_map, m_dbc2vss_map>>
allVars == <<vars, mapVars, agent, store>>

Put(f, key, value) == [k \in DOMAIN f \cup {key} |-> IF k = key THEN value ELSE f[k]]

Loaded == vss_read.yaml = Len(yaml) /\ vss_read.mapper = Len(mapper)

LoadVssPathYaml ==
  /\ read = Len(file) /\ vss_read.yaml < Len(yaml)
  /\ vss_read' = [vss_read EXCEPT !.yaml = @ + 1]
  /\ LET node == yaml[vss_read.yaml + 1] IN
       m_db_cache_map' = IF node.type = "branch" THEN m_db_cache_map
                         ELSE Put(m_db_cache_map, node.key, node)
  /\ UNCHANGED <<vars, yaml, mapper, m_vss2dbc_map, m_dbc2vss_map, agent, store>>

\* The path of a signal: the last pair wins, empty names are left out.  Mutated forms:
\* empty names are not left out; key and value are swapped; the first pair wins.
PathOfAll(pair) == Put(m_dbc2vss_map, pair.dbc, pair.vss)
PathSwapped(pair) == IF pair.dbc = "" THEN m_dbc2vss_map ELSE Put(m_dbc2vss_map, pair.vss, pair.dbc)
PathKept(pair) ==
  IF pair.dbc \in {""} \cup DOMAIN m_dbc2vss_map THEN m_dbc2vss_map
  ELSE Put(m_dbc2vss_map, pair.dbc, pair.vss)
PathOf(pair) == IF pair.dbc = "" THEN m_dbc2vss_map ELSE Put(m_dbc2vss_map, pair.dbc, pair.vss)

LoadVssDbcMapper ==
  /\ vss_read.yaml = Len(yaml) /\ read = Len(file) /\ vss_read.mapper < Len(mapper)
  /\ vss_read' = [vss_read EXCEPT !.mapper = @ + 1]
  /\ LET pair == mapper[vss_read.mapper + 1] IN
       /\ m_vss2dbc_map' = Put(m_vss2dbc_map, pair.vss, pair.dbc)
       /\ m_dbc2vss_map' = PathOf(pair)
  /\ UNCHANGED <<vars, yaml, mapper, m_db_cache_map, agent, store>>

\* The lookups: "" where there is no entry.
DbcName(vss_name) == IF vss_name \in DOMAIN m_vss2dbc_map THEN m_vss2dbc_map[vss_name] ELSE ""
VssName(dbc_name) == IF dbc_name \in DOMAIN m_dbc2vss_map THEN m_dbc2vss_map[dbc_name] ELSE ""

\* The key of a command.  Mutated form: the name of the signal.
KeyIsName(s) == s.name
Key(s) == VssName(s.name)

\* processMessage: one SET after another, the last one of a path stays.
ProcessMessage ==
  LET mapped == {j \in DOMAIN can_msg : VssName(can_msg[j].name) # ""}
      Setting(path) == {j \in mapped : Key(can_msg[j]) = path}
  IN  /\ agent = "todo" /\ agent' = "done"
      /\ store' = [path \in DOMAIN store \cup {Key(can_msg[j]) : j \in mapped} |->
                     IF Setting(path) = {} THEN store[path] ELSE can_msg[Max(Setting(path))].value]
      /\ UNCHANGED <<vars, mapVars>>

\* A frame comes to the agent after both files were read, and the one before it
\* was processed.
ReceiveFrame ==
  /\ Loaded /\ agent # "todo" /\ agent' = "todo"
  /\ ReceiveAny
  /\ UNCHANGED <<mapVars, store>>

InitMapping ==
  /\ Init /\ yaml \in Yamls /\ mapper \in Mappers /\ vss_read = [yaml |-> 0, mapper |-> 0]
  /\ m_db_cache_map = <<>> /\ m_vss2dbc_map = <<>> /\ m_dbc2vss_map = <<>>
  /\ agent = "idle" /\ store = <<>>

NextMapping ==
  \/ Parse /\ UNCHANGED <<mapVars, agent, store>>
  \/ LoadVssPathYaml \/ LoadVssDbcMapper \/ ReceiveFrame \/ ProcessMessage

SpecMapping == InitMapping /\ [][NextMapping]_allVars

-----------------------------------------------------------------------------
(* Properties.                                                             *)

MappingTypeOK ==
  /\ TypeOK
  /\ \A k \in DOMAIN m_db_cache_map : m_db_cache_map[k] \in Node
  /\ \A k \in DOMAIN m_vss2dbc_map : m_vss2dbc_map[k] \in STRING
  /\ \A k \in DOMAIN m_dbc2vss_map : k # "" /\ m_dbc2vss_map[k] \in STRING \ {""}
  /\ agent \in {"idle", "todo", "done"}
  /\ \A k \in DOMAIN store : store[k] \in Int

\* The two maps agree, while they are loaded and after: the path of a signal belongs
\* to that signal (loadVssDbcMapper, where two paths may name one signal).
MapsAgree ==
  \A d \in DOMAIN m_dbc2vss_map : DbcName(m_dbc2vss_map[d]) = d

\* Once the agent has processed a sound message, the path that the mapping gives last
\* for a plain signal, with no bits that another one has, holds the physical value of the
\* number that the sender put into the frame (processMessage, loadVssDbcMapper).
StoreFollowsBus ==
  agent = "done" /\ Sound(file, sent.id) =>
    \A k \in SignalLines(file, sent.id), i \in DOMAIN mapper :
      LET path == mapper[i].vss IN
      /\ file[k].mux # "m" /\ Alone(file, sent.id, k) /\ mapper[i].dbc = file[k].name
      /\ \A j \in i + 1..Len(mapper) : mapper[j].dbc # mapper[i].dbc
      => path \in DOMAIN store /\ store[path] = Physical(sent.numbers[k], file[k])

\* A command changes no path but those of the signals in the frame (processMessage).
OnlyItsPaths ==
  [][\A path \in DOMAIN store' :
       \/ path \in DOMAIN store /\ store'[path] = store[path]
       \/ \E k \in SignalLines(file, sent.id) : DbcName(path) = file[k].name]_allVars
=============================================================================
