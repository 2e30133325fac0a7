---------------------------- MODULE ChannelSetup ----------------------------
(***************************************************************************)
(* From settings.dat to running channels and back: Settings reads the      *)
(* files, DataRouter makes a channel for each section, whose Receiver and  *)
(* Transmitter open their sockets, and the aggregator registers its        *)
(* callbacks.  Then the caller starts and stops the data manager, which    *)
(* starts and stops the aggregator, which does so with the router.  Each   *)
(* call that opens a socket may fail.                                      *)
(*                                                                         *)
(* A thread is only its life here: what it does with the sockets is in     *)
(* AvtpBridge, what becomes of the frames in VssCanExchange.               *)
(***************************************************************************)
EXTENDS Integers, FiniteSets, Sequences, SequencesExt, CommIf

CONSTANTS
  Configs,      \* what the settings files may hold: sequences of files
  Stoi,         \* the numbers that texts stand for
  ByteModulus,  \* 256 in the code: the number of channels is a uint8_t
  MaxCalls      \* calls of start() and stop() of the data manager

\* A line "[section]" or "key = value"; other lines are skipped.
SettingsLine == [section : STRING] \cup [key : STRING, value : STRING]

ASSUME ConfigsAssumption ==
  /\ Configs \subseteq Seq(Seq(SettingsLine)) /\ ByteModulus \in Nat \ {0, 1}
  /\ DOMAIN Stoi \subseteq STRING /\ \A text \in DOMAIN Stoi : Stoi[text] \in Int
  /\ MaxCalls \in Nat

Life == {"none", "running", "done"}    \* of threads; one that is done can be joined
Junk == -2                             \* a descriptor that nobody has written

\* std::string; the second part, which is in the first, tells a prover that a text
\* may be empty.
Text == STRING \cup {""}

\* What a Receiver or Transmitter holds: did m_is_initialized start out true?
Endpoint ==
  [memory : BOOLEAN, m_is_initialized : BOOLEAN, m_eth_fd : {Junk, -1} \cup Descriptors,
   m_is_can_enabled : BOOLEAN, can_init : BOOLEAN, m_can_socket : {-1} \cup Descriptors]
Channel ==
  [ifname : Text, handler : BOOLEAN, receiver : Endpoint, transmitter : Endpoint]

VARIABLES
  files,         \* the settings files that can be opened, in the order they are tried
  cursor,        \* of Settings::parse: file, lines read, section_name
  m_settings_map,
  main,          \* where the main thread is
  section,       \* loop variable of DataRouter::init
  m_channels,    \* number -> channel
  fds,           \* the open descriptors
  todo,          \* channels that the loop in start() or stop() has still to visit
  current,       \* the one it visits
  rx, tx,        \* life of the threads of each channel
  rx_running, tx_running,   \* their m_running
  queue_thread,  \* life of m_thread of DataManager ("dm") and Aggregator ("agg")
  m_is_running,  \* theirs
  calls          \* history: "start" and "stop" in the order they were called

settingsVars == <<files, cursor, m_settings_map>>
routerVars == <<settingsVars, section, m_channels, fds>>
loopVars == <<todo, current>>
threadVars == <<rx, tx, rx_running, tx_running>>
queueVars == <<queue_thread, m_is_running>>
vars == <<routerVars, loopVars, main, threadVars, queueVars, calls>>

-----------------------------------------------------------------------------
(* Settings.                                                               *)

\* insert() keeps the value that a key has already.  Mutated form: it does not.
Assign(map, key, value) ==
  [k \in DOMAIN map \cup {key} |-> IF k = key THEN value ELSE map[k]]
Insert(map, key, value) ==
  [k \in DOMAIN map \cup {key} |-> IF k \in DOMAIN map THEN map[k] ELSE value]

\* A line of Settings::parse, when DataRouter::init gets the settings.
ParseLine ==
  /\ main = "load" /\ cursor.file <= Len(files) /\ cursor.line < Len(files[cursor.file])
  /\ LET line == files[cursor.file][cursor.line + 1] IN
       IF "section" \in DOMAIN line
       THEN /\ cursor' = [cursor EXCEPT !.line = @ + 1, !.section = line.section]
            /\ UNCHANGED m_settings_map
       ELSE /\ cursor' = [cursor EXCEPT !.line = @ + 1]
            /\ m_settings_map' = Insert(m_settings_map, <<cursor.section, line.key>>, line.value)
  /\ UNCHANGED <<files, main, section, m_channels, fds, loopVars, threadVars, queueVars, calls>>

\* The end of a file: the section begins anew with the next one.
NextFile ==
  /\ main = "load"
  /\ IF cursor.file <= Len(files)
     THEN /\ cursor.line = Len(files[cursor.file])
          /\ cursor' = [file |-> cursor.file + 1, line |-> 0, section |-> ""] /\ UNCHANGED main
     ELSE main' = "init" /\ UNCHANGED cursor
  /\ UNCHANGED <<files, m_settings_map, section, m_channels, fds, loopVars, threadVars,
                 queueVars, calls>>

GetData(name, key) ==
  IF <<name, key>> \in DOMAIN m_settings_map THEN m_settings_map[<<name, key>>] ELSE ""

-----------------------------------------------------------------------------
(* DataRouter::init, with the constructors of Channel, Receiver and         *)
(* Transmitter.                                                             *)

ChannelName(n) == "CHANNEL" \o ToString(n)

\* Mutated form of NumChannels: the bound is an int.
NumChannelsInt ==
  LET text == GetData("DEFAULT", "NUM_CHANNEL")
  IN  IF text \in DOMAIN Stoi THEN Stoi[text] ELSE 0

\* std::stoi into a uint8_t; what is no number is an exception.
NumChannels ==
  LET text == GetData("DEFAULT", "NUM_CHANNEL")
  IN  IF text \in DOMAIN Stoi THEN Stoi[text] % ByteModulus ELSE 0

\* An endpoint after init(), its CAN bus not enabled, with the open descriptors.
Made(memory, init, eth_fd, table) ==
  [end |-> [memory |-> memory, m_is_initialized |-> init, m_eth_fd |-> eth_fd,
            m_is_can_enabled |-> FALSE, can_init |-> FALSE, m_can_socket |-> -1],
   fds |-> table]

\* init() gives up before it opens a socket, or believes that it has done so: its
\* m_is_initialized has no initial value, and if memory holds TRUE, nothing is done.
NothingOpened(ifname, macaddr, memory) ==
  memory \/ ifname = "" \/ (ifname # "lo" /\ GetMacAddress(macaddr) < 0)

ReceiverInit(ifname, macaddr, memory, table) ==
  IF NothingOpened(ifname, macaddr, memory) THEN {Made(memory, memory, Junk, table)}
  ELSE {Made(FALSE, o.ret >= 0, o.ret, o.fds) :
          o \in IF ifname = "lo" THEN Comm_Lo_CreateSocket(table, ifname)
                ELSE Comm_Ether_CreateListenerSocket(table, ifname)}

\* The socket stays open if the address cannot be set up.
TransmitterInit(ifname, macaddr, memory, table) ==
  IF NothingOpened(ifname, macaddr, memory) THEN {Made(memory, memory, Junk, table)}
  ELSE IF ifname = "lo"
  THEN {Made(FALSE, o.ret >= 0, o.ret, o.fds) : o \in Comm_Lo_CreateSocket(table, ifname)}
  ELSE UNION {{Made(FALSE, o.ret >= 0 /\ address >= 0, o.ret, o.fds) :
                 o \in Comm_Ether_CreateTalkerSocket(table, -1)} :
                address \in Comm_Ether_SetupSocketAddress(ifname)}

\* init of CanReader and CanWriter; what it returns becomes m_is_can_enabled.
CanInit(end, can_ifname, table) ==
  IF can_ifname = "" THEN {[end |-> end, fds |-> table]}
  ELSE {[end |-> [end EXCEPT !.m_can_socket = o.ret, !.can_init = o.ret >= 0,
                             !.m_is_can_enabled = o.ret >= 0],
         fds |-> o.fds] : o \in Comm_Can_SetupSocket(table, can_ifname)}

InitSocketCan(end, enabled, can_ifname, table) ==
  IF enabled THEN CanInit(end, can_ifname, table) ELSE {[end |-> end, fds |-> table]}

\* stop() of CanReader and CanWriter.
StopSocketCan(end, table) ==
  [end |-> [end EXCEPT !.can_init = FALSE],
   fds |-> IF end.can_init THEN Closed(table, end.m_can_socket) ELSE table]

\* section++, of a uint8_t.  Mutated form: of an int.
NextSectionInt == section + 1
NextSection == (section + 1) % ByteModulus

\* One iteration of the loop over the sections.
CreateChannel ==
  /\ main = "init" /\ section <= NumChannels
  /\ LET Get(key) == GetData(ChannelName(section), key)
         ifname == Get("ETH_IF_NAME")
         macaddr == Get("DEST_MAC_ADDR")
     IN
     \E rx_memory, tx_memory \in BOOLEAN :
     \E r \in ReceiverInit(ifname, macaddr, rx_memory, fds) :
     \E t \in TransmitterInit(ifname, macaddr, tx_memory, r.fds) :
     \E w \in InitSocketCan(r.end, Get("CAN_RECEIVER_ENABLED") = "true",
                            Get("CAN_IF_NAME_RECEIVER"), t.fds) :
     \E d \in InitSocketCan(t.end, Get("CAN_TRANSMITTER_ENABLED") = "true",
                            Get("CAN_IF_NAME_TRANSMITTER"), w.fds) :
       /\ m_channels' =
            [n \in DOMAIN m_channels \cup {section} |->
               IF n # section THEN m_channels[n]
               ELSE [ifname |-> ifname, handler |-> FALSE, receiver |-> w.end,
                     transmitter |-> d.end]]
       /\ fds' = d.fds
  /\ section' = NextSection
  /\ UNCHANGED <<settingsVars, main, loopVars, threadVars, queueVars, calls>>

\* A channel whose receiver has got the callback of the aggregator.
Registered(channel) == [channel EXCEPT !.handler = TRUE]

\* The end of the loop; Aggregator::createDataHandlers registers a callback with
\* every channel of the list.
CreateDataHandlers ==
  /\ main = "init" /\ section > NumChannels
  /\ m_channels' = [n \in DOMAIN m_channels |-> Registered(m_channels[n])]
  /\ main' = "idle"
  /\ rx' = [n \in DOMAIN m_channels |-> "none"] /\ tx' = [n \in DOMAIN m_channels |-> "none"]
  /\ rx_running' = [n \in DOMAIN m_channels |-> FALSE]
  /\ tx_running' = [n \in DOMAIN m_channels |-> FALSE]
  /\ UNCHANGED <<settingsVars, section, fds, loopVars, queueVars, calls>>

-----------------------------------------------------------------------------
(* start() and stop() of DataManager and Aggregator, called in any order.   *)

CallStart ==
  /\ main = "idle" /\ Len(calls) < MaxCalls
  /\ calls' = Append(calls, "start") /\ main' = "startDm"
  /\ UNCHANGED <<routerVars, loopVars, threadVars, queueVars>>

CallStop ==
  /\ main = "idle" /\ Len(calls) < MaxCalls
  /\ calls' = Append(calls, "stop") /\ main' = "stopDm"
  /\ UNCHANGED <<routerVars, loopVars, threadVars, queueVars>>

\* A thread is assigned to m_thread, which ends the program if m_thread is joinable.
StartThread(t, next) ==
  /\ m_is_running' = [m_is_running EXCEPT ![t] = TRUE]
  /\ IF queue_thread[t] = "none"
     THEN queue_thread' = [queue_thread EXCEPT ![t] = "running"] /\ main' = next
     ELSE main' = "terminated" /\ UNCHANGED queue_thread
  /\ UNCHANGED <<routerVars, current, threadVars, calls>>

StartDm == main = "startDm" /\ StartThread("dm", "startAgg") /\ UNCHANGED todo
StartAgg ==
  main = "startAgg" /\ StartThread("agg", "start") /\ todo' = DOMAIN m_channels

ClearFlag(t, next) ==
  /\ m_is_running' = [m_is_running EXCEPT ![t] = FALSE] /\ main' = next
  /\ UNCHANGED <<routerVars, loopVars, queue_thread, threadVars, calls>>

StopDm == main = "stopDm" /\ ClearFlag("dm", "joinDm")
StopAgg == main = "stopAgg" /\ ClearFlag("agg", "joinAgg")

\* Mutated form of JoinOrDetach: the thread stays joinable.
WaitOrDetach(t, next) ==
  /\ IF queue_thread[t] = "none" THEN main' = "terminated"
     ELSE queue_thread[t] = "done" /\ main' = next
  /\ UNCHANGED <<routerVars, current, threadVars, m_is_running, queue_thread, calls>>

\* join(), or detach() of a thread that is not joinable, which throws.
JoinOrDetach(t, next) ==
  /\ IF queue_thread[t] = "none" THEN main' = "terminated" /\ UNCHANGED queue_thread
     ELSE /\ queue_thread[t] = "done" /\ main' = next
          /\ queue_thread' = [queue_thread EXCEPT ![t] = "none"]
  /\ UNCHANGED <<routerVars, current, threadVars, m_is_running, calls>>

JoinDm == main = "joinDm" /\ JoinOrDetach("dm", "stopAgg") /\ UNCHANGED todo
JoinAgg == main = "joinAgg" /\ JoinOrDetach("agg", "stop") /\ todo' = DOMAIN m_channels

\* run() of both sees its flag, when it is awake.
QueueThreadExit(t) ==
  /\ main # "terminated" /\ queue_thread[t] = "running" /\ ~m_is_running[t]
  /\ queue_thread' = [queue_thread EXCEPT ![t] = "done"]
  /\ UNCHANGED <<routerVars, loopVars, main, threadVars, m_is_running, calls>>

-----------------------------------------------------------------------------
(* start() and stop() of DataRouter, Channel, Receiver and Transmitter.     *)
(* m_channels is unordered.                                                 *)

StartChannel(n) ==
  /\ main = "start" /\ n \in todo /\ todo' = todo \ {n}
  /\ IF m_channels[n].receiver.m_is_initialized
     THEN rx_running' = [rx_running EXCEPT ![n] = TRUE] /\ rx' = [rx EXCEPT ![n] = "running"]
     ELSE UNCHANGED <<rx_running, rx>>
  /\ IF m_channels[n].transmitter.m_is_can_enabled
     THEN tx_running' = [tx_running EXCEPT ![n] = TRUE] /\ tx' = [tx EXCEPT ![n] = "running"]
     ELSE UNCHANGED <<tx_running, tx>>
  /\ UNCHANGED <<routerVars, main, current, queueVars, calls>>

Started ==
  /\ main = "start" /\ todo = {} /\ main' = "idle"
  /\ UNCHANGED <<routerVars, loopVars, threadVars, queueVars, calls>>

\* The thread sees m_running, or its poll fails, as when a signal interrupts it.
ReceiverExit(n) ==
  /\ main # "terminated" /\ rx[n] = "running" /\ rx' = [rx EXCEPT ![n] = "done"]
  /\ UNCHANGED <<routerVars, loopVars, main, tx, rx_running, tx_running, queueVars, calls>>

TransmitterExit(n) ==
  /\ main # "terminated" /\ tx[n] = "running" /\ tx' = [tx EXCEPT ![n] = "done"]
  /\ UNCHANGED <<routerVars, loopVars, main, rx, rx_running, tx_running, queueVars, calls>>

StopReceiver(n) ==
  /\ main = "stop" /\ n \in todo /\ todo' = todo \ {n} /\ current' = n
  /\ rx_running' = [rx_running EXCEPT ![n] = FALSE] /\ main' = "joinRx"
  /\ UNCHANGED <<routerVars, rx, tx, tx_running, queueVars, calls>>

\* The rest of Receiver::stop, and Transmitter::stop up to its join.
AfterReceiver ==
  LET channel == m_channels[current]
      stopped == StopSocketCan(channel.receiver, fds)
  IN
  /\ rx' = [rx EXCEPT ![current] = IF @ = "done" THEN "none" ELSE @]
  /\ IF channel.receiver.m_is_can_enabled
     THEN /\ m_channels' = [m_channels EXCEPT ![current].receiver = stopped.end]
          /\ fds' = stopped.fds
     ELSE UNCHANGED <<m_channels, fds>>
  /\ tx_running' = [tx_running EXCEPT ![current] = FALSE]
  /\ main' = IF channel.transmitter.m_is_can_enabled THEN "joinTx" ELSE "stop"
  /\ UNCHANGED <<settingsVars, section, loopVars, tx, rx_running, queueVars, calls>>

\* Mutated form of JoinReceiver: the CAN bus is closed before the thread has ended.
JoinReceiverLate == main = "joinRx" /\ AfterReceiver

\* join, if there is a thread, then CanWriter::stop.
JoinReceiver == main = "joinRx" /\ rx[current] # "running" /\ AfterReceiver

\* Mutated form of JoinTransmitter: the CAN bus is not closed.
JoinTransmitterOnly ==
  /\ main = "joinTx" /\ tx[current] # "running" /\ main' = "stop"
  /\ tx' = [tx EXCEPT ![current] = IF @ = "done" THEN "none" ELSE @]
  /\ UNCHANGED <<routerVars, loopVars, rx, rx_running, tx_running, queueVars, calls>>

\* join, then CanReader::stop.
JoinTransmitter ==
  /\ main = "joinTx" /\ tx[current] # "running" /\ main' = "stop"
  /\ tx' = [tx EXCEPT ![current] = IF @ = "done" THEN "none" ELSE @]
  /\ LET stopped == StopSocketCan(m_channels[current].transmitter, fds)
     IN  /\ m_channels' = [m_channels EXCEPT ![current].transmitter = stopped.end]
         /\ fds' = stopped.fds
  /\ UNCHANGED <<settingsVars, section, loopVars, rx, rx_running, tx_running, queueVars, calls>>

ClearChannels ==
  /\ main = "stop" /\ todo = {} /\ main' = "idle" /\ m_channels' = <<>>
  /\ UNCHANGED <<settingsVars, section, fds, loopVars, threadVars, queueVars, calls>>

Init ==
  /\ files \in Configs /\ cursor = [file |-> 1, line |-> 0, section |-> ""]
  /\ m_settings_map = <<>> /\ main = "load" /\ section = 1 /\ m_channels = <<>> /\ fds = <<>>
  /\ todo = {} /\ current = 0 /\ rx = <<>> /\ tx = <<>> /\ rx_running = <<>> /\ tx_running = <<>>
  /\ queue_thread = [t \in {"dm", "agg"} |-> "none"]
  /\ m_is_running = [t \in {"dm", "agg"} |-> FALSE] /\ calls = <<>>

ChannelThreads == \E n \in DOMAIN rx : ReceiverExit(n) \/ TransmitterExit(n)
QueueThreads == \E t \in {"dm", "agg"} : QueueThreadExit(t)
Main ==
  \/ ParseLine \/ NextFile \/ CreateChannel \/ CreateDataHandlers
  \/ StartDm \/ StartAgg \/ Started \/ StopDm \/ JoinDm \/ StopAgg \/ JoinAgg
  \/ JoinReceiver \/ JoinTransmitter \/ ClearChannels
  \/ \E n \in todo : StartChannel(n) \/ StopReceiver(n)

Next == Main \/ CallStart \/ CallStop \/ ChannelThreads \/ QueueThreads

\* Main runs and polls time out, after which a thread sees that m_running is false;
\* nobody has to call, a poll need not fail, and the threads of the queues may miss
\* their notification (VssCanExchange).
Fairness ==
  /\ WF_vars(Main)
  /\ \A n \in 0..ByteModulus - 1 :
       /\ WF_vars(n \in DOMAIN rx /\ ~rx_running[n] /\ ReceiverExit(n))
       /\ WF_vars(n \in DOMAIN tx /\ ~tx_running[n] /\ TransmitterExit(n))

Spec == Init /\ [][Next]_vars
FairSpec == Spec /\ Fairness

-----------------------------------------------------------------------------
(* Properties.                                                             *)

TypeOK ==
  /\ files \in Configs /\ cursor \in [file : Nat, line : Nat, section : Text]
  /\ main \in {"load", "init", "idle", "startDm", "startAgg", "start", "stopDm", "joinDm",
               "stopAgg", "joinAgg", "stop", "joinRx", "joinTx", "terminated"}
  /\ section \in 0..ByteModulus - 1 /\ current \in 0..ByteModulus - 1
  /\ DOMAIN m_channels \subseteq 0..ByteModulus - 1
  /\ \A n \in DOMAIN m_channels : m_channels[n] \in Channel
  /\ DOMAIN fds \subseteq Descriptors /\ \A fd \in DOMAIN fds : fds[fd] \in Socket
  /\ todo \subseteq DOMAIN m_channels
  /\ rx \in [DOMAIN rx -> Life] /\ tx \in [DOMAIN rx -> Life]
  /\ rx_running \in [DOMAIN rx -> BOOLEAN] /\ tx_running \in [DOMAIN rx -> BOOLEAN]
  /\ queue_thread \in [{"dm", "agg"} -> Life] /\ m_is_running \in [{"dm", "agg"} -> BOOLEAN]
  /\ calls \in BoundedSeq({"start", "stop"}, MaxCalls)

\* The section that line i of a file is in: the last one that has begun.
SectionOf(f, i) ==
  LET begun == {j \in 1..i : "section" \in DOMAIN f[j]}
  IN  IF begun = {} THEN "" ELSE f[Max(begun)].section

\* The lines of a file that give the key in the section.
Giving(f, name, key) ==
  {i \in DOMAIN f : "key" \in DOMAIN f[i] /\ f[i].key = key /\ SectionOf(f, i) = name}

\* The first such line of the first file that has one.
Configured(name, key) ==
  LET having == {n \in DOMAIN files : Giving(files[n], name, key) # {}}
      first == files[Min(having)]
  IN  IF having = {} THEN "" ELSE first[Min(Giving(first, name, key))].value

\* Is the endpoint's CAN bus as configured: attached only where the section enables it,
\* and to the interface it names, if that exists?
CanAsConfigured(end, enabled, can_ifname) ==
  end.m_is_can_enabled =>
    /\ enabled = "true"
    /\ can_ifname \in Interfaces =>
         fds[end.m_can_socket] = [family |-> "can", ifname |-> can_ifname]

\* When the router is set up it has the channels 1 to NUM_CHANNEL, each with the
\* interface of its section and the callback of the aggregator; a CAN bus is attached
\* only where the section enables it (Settings::parse, DataRouter::init).
ChannelsAsConfigured ==
  (main = "idle" /\ calls = <<>>) =>
    LET text == Configured("DEFAULT", "NUM_CHANNEL")
        Set(n, key) == Configured(ChannelName(n), key)
    IN
        /\ DOMAIN m_channels = 1..(IF text \in DOMAIN Stoi THEN Stoi[text] % ByteModulus ELSE 0)
        /\ \A n \in DOMAIN m_channels :
             /\ m_channels[n].handler /\ m_channels[n].ifname = Set(n, "ETH_IF_NAME")
             /\ CanAsConfigured(m_channels[n].receiver, Set(n, "CAN_RECEIVER_ENABLED"),
                                Set(n, "CAN_IF_NAME_RECEIVER"))
             /\ CanAsConfigured(m_channels[n].transmitter, Set(n, "CAN_TRANSMITTER_ENABLED"),
                                Set(n, "CAN_IF_NAME_TRANSMITTER"))

\* Has the endpoint the Ethernet socket it believes to have?
HasEthernet(end) ==
  (end.m_is_initialized /\ ~end.memory) =>
    end.m_eth_fd \in DOMAIN fds /\ fds[end.m_eth_fd].family = "packet"
HasCan(end) ==
  end.m_is_can_enabled =>
    end.m_can_socket \in DOMAIN fds /\ fds[end.m_can_socket].family = "can"

\* A thread that runs has its sockets open, whatever else failed: the Ethernet one,
\* unless memory made it believe that it is initialised, and its CAN bus (init and
\* stop of all four classes: no close before the join, none of somebody else's).
ThreadsHaveSockets ==
  \A n \in DOMAIN m_channels \cap DOMAIN rx :
    LET c == m_channels[n] IN
    /\ rx[n] = "running" =>
         /\ HasEthernet(c.receiver) /\ HasCan(c.receiver)
         /\ ~c.receiver.memory => fds[c.receiver.m_eth_fd].ifname = c.ifname
    /\ tx[n] = "running" =>
         HasEthernet(c.transmitter) /\ HasCan(c.transmitter) /\ c.transmitter.can_init

\* The descriptors that the fields of the channels hold, each with its field.
HeldBy(n, s, end) ==
  {<<n, s, "eth", end.m_eth_fd>>} \cup {h \in {<<n, s, "can", end.m_can_socket>>} : end.can_init}
Held ==
  UNION {HeldBy(n, "receiver", m_channels[n].receiver)
           \cup HeldBy(n, "transmitter", m_channels[n].transmitter) : n \in DOMAIN m_channels}

\* While there are channels every open descriptor is held by exactly one field of one
\* of them, whichever calls failed on the way: no error path forgets a socket, and no
\* two parts share one (comm-if, init and stop of the four classes).  With 255
\* channels the loop overwrites the channels.
DescriptorsAreOwned ==
  (DOMAIN m_channels # {} /\ NumChannels # ByteModulus - 1) =>
    \A fd \in DOMAIN fds : Cardinality({h \in Held : h[4] = fd}) = 1

\* After the channels were stopped, also when the data manager is started again, no
\* thread of a channel runs and none is left to be joined, since the destructor of a
\* joinable thread would end the program; every CAN socket is closed.  Only the two
\* queues have threads again (DataRouter::stop clears the channels).
NothingLeftAfterStop ==
  (main = "idle" /\ \E i \in DOMAIN calls : calls[i] = "stop") =>
    /\ \A n \in DOMAIN rx : rx[n] = "none" /\ tx[n] = "none"
    /\ \A fd \in DOMAIN fds : fds[fd].family = "packet"
    /\ Last(calls) = "stop" => \A t \in {"dm", "agg"} : queue_thread[t] = "none"

\* Calls that alternate, beginning with a start.
InTurn == \A i \in DOMAIN calls : calls[i] = (IF i % 2 = 1 THEN "start" ELSE "stop")

\* start() and stop() in turn never end the program, also in several rounds; any
\* other sequence does, and does not return (DataManager and Aggregator, start, stop).
TerminatedOnlyOutOfTurn ==
  /\ main = "terminated" => ~InTurn
  /\ main = "idle" => InTurn

\* The loop over the sections ends, unless the uint8_t cannot exceed its bound
\* (DataRouter.cpp:63), and a stop of the router that has begun ends.
SetupAndStopEnd ==
  /\ (main = "init" /\ NumChannels # ByteModulus - 1) ~> main = "idle"
  /\ main = "stop" ~> main = "idle"

\* The comment at Comm_Ether_CreateListenerSocket and Comm_Ether_CreateTalkerSocket:
\* the descriptor should be closed with close() when done.  After stop() the channels
\* are gone, and with them the only record of these descriptors.
EthernetClosedWhenDone ==
  (main = "idle" /\ calls = <<"start", "stop">>) =>
    \A fd \in DOMAIN fds : fds[fd].family # "packet" \/ fds[fd].ifname = "lo"
=============================================================================
