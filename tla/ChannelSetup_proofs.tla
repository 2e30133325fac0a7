------------------------- MODULE ChannelSetup_proofs -------------------------
(***************************************************************************)
(* Proofs about ChannelSetup for all settings files, interfaces, numbers   *)
(* of descriptors and of calls, and whatever call fails.                   *)
(***************************************************************************)
EXTENDS ChannelSetup, TLAPS

-----------------------------------------------------------------------------
(* The functions of comm-if, for every table of open descriptors and       *)
(* whatever system call fails.                                             *)

\* A table of open descriptors, and one with a descriptor more.
Tables == UNION {[D -> Socket] : D \in SUBSET Descriptors}
Extended(table, fd, family, ifname) ==
  [d \in DOMAIN table \cup {fd} |->
     IF d = fd THEN [family |-> family, ifname |-> ifname] ELSE table[d]]

\* A call failed and left the table as it was, or it returned a descriptor that was
\* free, and no other descriptor was touched.
IsOutcome(o, table, family, ifnames) ==
  \/ o = Failed(table)
  \/ \E fd \in Descriptors \ DOMAIN table : \E i \in ifnames :
       o = Returns(fd, Extended(table, fd, family, i))

\* A descriptor is not negative: 0, 1 and 2 are taken.
LEMMA DescriptorsAreNumbers ==
  \A fd \in Descriptors : fd \in Nat /\ fd >= 3
BY CommIfAssumption DEF Descriptors

\* What it means to be a table of open descriptors.
LEMMA TableIsFunction ==
  ASSUME NEW table \in Tables
  PROVE  /\ table = [d \in DOMAIN table |-> table[d]] /\ DOMAIN table \subseteq Descriptors
         /\ \A d \in DOMAIN table : table[d] \in Socket
BY DEF Tables

\* With one descriptor more it is a table.
LEMMA ExtendedTable ==
  ASSUME NEW table \in Tables, NEW fd \in Descriptors, NEW family \in {"packet", "can"},
         NEW i \in Interfaces \cup {AnyInterface}
  PROVE  Extended(table, fd, family, i) \in Tables
<1>1. Extended(table, fd, family, i) \in [DOMAIN table \cup {fd} -> Socket]
  BY TableIsFunction DEF Extended, Socket
<1>2. DOMAIN table \cup {fd} \in SUBSET Descriptors
  BY TableIsFunction
<1> QED
  BY <1>1, <1>2, Zenon DEF Tables

\* socket().
LEMMA OpenedOutcome ==
  ASSUME NEW table, NEW family, NEW o \in Opened(table, family)
  PROVE  IsOutcome(o, table, family, {AnyInterface})
BY Zenon DEF Opened, IsOutcome, Extended

\* An outcome as it is seen by what follows.
LEMMA OutcomeFields ==
  /\ \A table : Failed(table).ret = -1 /\ Failed(table).fds = table
  /\ \A fd, table : Returns(fd, table).ret = fd /\ Returns(fd, table).fds = table
BY DEF Failed, Returns

\* A socket after bind().
BoundTo(sock, ifname) == [sock EXCEPT !.ifname = ifname]
\* bind() changes the interface of a socket, not its family.
LEMMA BoundToChangesInterface ==
  ASSUME NEW f, NEW i, NEW j, NEW sock, sock = [family |-> f, ifname |-> j]
  PROVE  BoundTo(sock, i) = [family |-> f, ifname |-> i]
BY DEF BoundTo

\* The label "err" closes what socket() has opened; nothing else.
LEMMA BoundOutcome ==
  ASSUME NEW table \in Tables, NEW fd \in Descriptors \ DOMAIN table, NEW family, NEW ifnames,
         NEW o \in Bound(Extended(table, fd, family, AnyInterface), fd, ifnames)
  PROVE  IsOutcome(o, table, family, ifnames)
<1> DEFINE e == Extended(table, fd, family, AnyInterface)
<1>1. Closed(e, fd) = table
  <2>1. DOMAIN e = DOMAIN table \cup {fd} /\ fd \notin DOMAIN table
    BY DEF Extended
  <2>2. \A d \in DOMAIN table : e[d] = table[d]
    BY <2>1 DEF Extended
  <2>3. Closed(e, fd) = [d \in DOMAIN table |-> e[d]]
    BY <2>1 DEF Closed, Restrict
  <2> QED
    BY <2>2, <2>3, TableIsFunction
<1>2. ASSUME NEW i \in ifnames
      PROVE  [e EXCEPT ![fd].ifname = i] = Extended(table, fd, family, i)
  <2>1. BoundTo(e[fd], i) = [family |-> family, ifname |-> i]
    BY BoundToChangesInterface DEF Extended
  <2>2. [e EXCEPT ![fd] = BoundTo(@, i)] = Extended(table, fd, family, i)
    BY <2>1 DEF Extended
  <2> QED
    BY <2>2, Zenon DEF BoundTo
<1> HIDE DEF e
<1>3. o = Failed(Closed(e, fd)) \/ \E i \in ifnames : o = Returns(fd, [e EXCEPT ![fd].ifname = i])
  BY Zenon DEF Bound, Err, e
<1>4. o = Failed(table) \/ \E i \in ifnames : o = Returns(fd, Extended(table, fd, family, i))
  BY <1>1, <1>2, <1>3, Zenon
<1> QED
  BY <1>4, Zenon DEF IsOutcome

\* A socket() that succeeds, and then a bind().
LEMMA SocketThenBound ==
  ASSUME NEW table \in Tables, NEW family, NEW ifnames, NEW bindable \in SUBSET ifnames, NEW o,
         NEW p \in Opened(table, family),
         o \in IF p.ret < 0 THEN {p} ELSE Bound(p.fds, p.ret, bindable)
  PROVE  IsOutcome(o, table, family, ifnames)
<1>1. IsOutcome(p, table, family, {AnyInterface})
  BY OpenedOutcome
<1>2. CASE p = Failed(table)
  BY <1>2, OutcomeFields DEF IsOutcome
<1>3. ASSUME NEW fd \in Descriptors \ DOMAIN table,
             p = Returns(fd, Extended(table, fd, family, AnyInterface))
      PROVE  IsOutcome(o, table, family, ifnames)
  <2>1. p.ret = fd /\ p.fds = Extended(table, fd, family, AnyInterface)
    BY <1>3, OutcomeFields
  <2>2. ~(p.ret < 0)
    <3>1. ~(fd < 0)
      BY DescriptorsAreNumbers
    <3> QED
      BY <2>1, <3>1, Zenon
  <2>3. IsOutcome(o, table, family, bindable)
    BY <2>1, <2>2, BoundOutcome
  <2> QED
    BY <2>3 DEF IsOutcome
<1> QED
  BY <1>1, <1>2, <1>3 DEF IsOutcome

\* The four functions: each fails and leaves the table as it was, or adds one descriptor.
LEMMA TalkerOutcome ==
  ASSUME NEW table \in Tables, NEW o \in Comm_Ether_CreateTalkerSocket(table, -1)
  PROVE  IsOutcome(o, table, "packet", {AnyInterface})
<1>1. PICK p \in Opened(table, "packet") :
        o \in IF p.ret < 0 THEN {p} ELSE {Returns(p.ret, p.fds)}
  BY DEF Comm_Ether_CreateTalkerSocket, After
<1>2. IsOutcome(p, table, "packet", {AnyInterface})
  BY OpenedOutcome
<1>3. Returns(p.ret, p.fds) = p
  BY <1>2 DEF IsOutcome, Failed, Returns
<1> QED
  BY <1>1, <1>2, <1>3

\* The socket of a listener is bound to the interface,
LEMMA ListenerOutcome ==
  ASSUME NEW table \in Tables, NEW ifname,
         NEW o \in Comm_Ether_CreateListenerSocket(table, ifname)
  PROVE  IsOutcome(o, table, "packet", {ifname} \cap Interfaces)
<1>1. PICK p \in Opened(table, "packet") :
        o \in IF p.ret < 0 THEN {p}
              ELSE UNION {Bound(p.fds, p.ret, {i \in {ifname} : res = 0}) :
                            res \in Comm_Ether_SetupSocketAddress(ifname)}
  BY DEF Comm_Ether_CreateListenerSocket, After
<1>2. PICK bindable \in SUBSET ({ifname} \cap Interfaces) :
        o \in IF p.ret < 0 THEN {p} ELSE Bound(p.fds, p.ret, bindable)
  <2>1. ASSUME NEW res \in Comm_Ether_SetupSocketAddress(ifname)
        PROVE  {i \in {ifname} : res = 0} \subseteq {ifname} \cap Interfaces
    BY <2>1 DEF Comm_Ether_SetupSocketAddress
  <2> QED
    BY <1>1, <2>1
<1> QED
  BY <1>2, SocketThenBound

\* so is that of a loopback interface,
LEMMA LoOutcome ==
  ASSUME NEW table \in Tables, NEW ifname, NEW o \in Comm_Lo_CreateSocket(table, ifname)
  PROVE  IsOutcome(o, table, "packet", {ifname} \cap Interfaces)
<1>1. PICK p \in Opened(table, "packet") :
        o \in IF p.ret < 0 THEN {p} ELSE Bound(p.fds, p.ret, {ifname} \cap Interfaces)
  BY DEF Comm_Lo_CreateSocket, After
<1> QED
  BY <1>1, SocketThenBound

\* The interfaces that a CAN bus may be attached to.
Named(can_ifname) ==
  IF can_ifname \in Interfaces THEN {can_ifname} ELSE Interfaces \cup {AnyInterface}

\* and that of a CAN bus to one that has the name, if there is one.
LEMMA CanOutcome ==
  ASSUME NEW table \in Tables, NEW can_ifname, NEW o \in Comm_Can_SetupSocket(table, can_ifname)
  PROVE  /\ IsOutcome(o, table, "can", Named(can_ifname))
         /\ Named(can_ifname) \in SUBSET (Interfaces \cup {AnyInterface})
<1> DEFINE bindable == Named(can_ifname) \cap (CanInterfaces \cup {AnyInterface})
<1>1. PICK p \in Opened(table, "can") :
        o \in IF p.ret < 0 THEN {p} ELSE Bound(p.fds, p.ret, bindable)
  BY DEF Comm_Can_SetupSocket, After, Named
<1>2. bindable \in SUBSET Named(can_ifname)
  OBVIOUS
<1> HIDE DEF bindable
<1>3. IsOutcome(o, table, "can", Named(can_ifname))
  BY <1>1, <1>2, SocketThenBound
<1> QED
  BY <1>3 DEF Named

\* No function of comm-if forgets a socket on its error paths, and none returns one that
\* was open before: whatever system call fails, the function either returns -1 and
\* leaves the table of open descriptors as it was, or it returns the one descriptor
\* that is open now and was not before, and has not touched another
\* (ether_comm_if.c, lo_comm_if.c, can_comm_if.c).
THEOREM NoSocketForgotten ==
  ASSUME NEW table \in Tables, NEW ifname,
         NEW o \in Comm_Ether_CreateTalkerSocket(table, -1)
                    \cup Comm_Ether_CreateListenerSocket(table, ifname)
                    \cup Comm_Lo_CreateSocket(table, ifname)
                    \cup Comm_Can_SetupSocket(table, ifname)
  PROVE  \/ o.ret = -1 /\ o.fds = table
         \/ /\ o.ret \in Descriptors \ DOMAIN table
            /\ o.fds \in Tables /\ DOMAIN o.fds = DOMAIN table \cup {o.ret}
            /\ \A fd \in DOMAIN table : o.fds[fd] = table[fd]
<1>1. PICK family \in {"packet", "can"}, ifnames \in SUBSET (Interfaces \cup {AnyInterface}) :
        IsOutcome(o, table, family, ifnames)
  BY TalkerOutcome, ListenerOutcome, LoOutcome, CanOutcome
<1>2. CASE o = Failed(table)
  BY <1>2, OutcomeFields
<1>3. ASSUME NEW fd \in Descriptors \ DOMAIN table, NEW i \in ifnames,
             o = Returns(fd, Extended(table, fd, family, i))
      PROVE  /\ o.ret \in Descriptors \ DOMAIN table
             /\ o.fds \in Tables /\ DOMAIN o.fds = DOMAIN table \cup {o.ret}
             /\ \A d \in DOMAIN table : o.fds[d] = table[d]
  <2>1. o.ret = fd /\ o.fds = Extended(table, fd, family, i)
    BY <1>3, OutcomeFields
  <2>2. o.fds \in Tables
    BY <2>1, ExtendedTable
  <2> QED
    BY <2>1, <2>2 DEF Extended
<1> QED
  BY <1>1, <1>2, <1>3 DEF IsOutcome


-----------------------------------------------------------------------------
(* start() and stop() in turn.                                             *)

Queue == {"dm", "agg"}
InSetup == {"load", "init"}
InStart == {"startDm", "startAgg", "start"}
InStop == {"stopDm", "joinDm", "stopAgg", "joinAgg", "stop", "joinRx", "joinTx"}
Locations == InSetup \cup {"idle"} \cup InStart \cup InStop \cup {"terminated"}

TurnTypes ==
  /\ main \in Locations /\ calls \in Seq({"start", "stop"}) /\ Len(calls) <= MaxCalls
  /\ queue_thread \in [Queue -> Life] /\ m_is_running \in [Queue -> BOOLEAN]

\* The calls up to the last one, or all of them.
InTurnUpTo(k) == \A i \in 1..k : calls[i] = (IF i % 2 = 1 THEN "start" ELSE "stop")
Before == Len(calls) - 1
Odd == Len(calls) % 2 = 1
Threads(dm, agg) == (queue_thread["dm"] # "none" <=> dm) /\ (queue_thread["agg"] # "none" <=> agg)

\* Where main is in a call that was made in turn, and which of the two threads there are.
\* The first thread that is to be started or ended shows whether the call is in turn.
TurnInv ==
  /\ TurnTypes
  /\ main \in InSetup => calls = <<>> /\ Threads(FALSE, FALSE)
  /\ main = "idle" => InTurnUpTo(Len(calls)) /\ Threads(Odd, Odd)
  /\ main = "startDm" => /\ calls # <<>> /\ calls[Len(calls)] = "start" /\ InTurnUpTo(Before)
                         /\ Threads(~Odd, ~Odd)
  /\ main = "startAgg" => InTurnUpTo(Len(calls)) /\ Odd /\ Threads(TRUE, FALSE)
  /\ main = "start" => InTurnUpTo(Len(calls)) /\ Odd /\ Threads(TRUE, TRUE)
  /\ main \in {"stopDm", "joinDm"} =>
       calls # <<>> /\ calls[Len(calls)] = "stop" /\ InTurnUpTo(Before) /\ Threads(~Odd, ~Odd)
  /\ main \in {"stopAgg", "joinAgg"} => InTurnUpTo(Len(calls)) /\ ~Odd /\ Threads(FALSE, TRUE)
  /\ main \in {"stop", "joinRx", "joinTx"} =>
       InTurnUpTo(Len(calls)) /\ ~Odd /\ Threads(FALSE, FALSE)
  /\ main = "terminated" => ~InTurnUpTo(Len(calls))

\* Every step keeps the types.
LEMMA NextTurnTypes == TurnTypes /\ [Next]_vars => TurnTypes'
<1> SUFFICES ASSUME TurnTypes, [Next]_vars PROVE TurnTypes'
  OBVIOUS
<1> USE ConfigsAssumption DEF TurnTypes, Locations, InSetup, InStart, InStop, Queue, Life,
        settingsVars, routerVars, loopVars, threadVars, queueVars
<1>1. CASE UNCHANGED vars
  BY <1>1 DEF vars
<1>2. CASE ParseLine
  BY <1>2 DEF ParseLine
<1>3. CASE NextFile
  BY <1>3 DEF NextFile
<1>4. CASE CreateChannel
  BY <1>4 DEF CreateChannel
<1>5. CASE CreateDataHandlers
  BY <1>5 DEF CreateDataHandlers
<1>6. CASE StartDm
  BY <1>6 DEF StartDm, StartThread
<1>7. CASE StartAgg
  BY <1>7 DEF StartAgg, StartThread
<1>8. CASE Started
  BY <1>8 DEF Started
<1>9. CASE StopDm
  BY <1>9 DEF StopDm, ClearFlag
<1>10. CASE JoinDm
  BY <1>10 DEF JoinDm, JoinOrDetach
<1>11. CASE StopAgg
  BY <1>11 DEF StopAgg, ClearFlag
<1>12. CASE JoinAgg
  BY <1>12 DEF JoinAgg, JoinOrDetach
<1>13. CASE JoinReceiver
  BY <1>13 DEF JoinReceiver, AfterReceiver
<1>14. CASE JoinTransmitter
  BY <1>14 DEF JoinTransmitter
<1>15. CASE ClearChannels
  BY <1>15 DEF ClearChannels
<1>16. ASSUME NEW n \in todo, StartChannel(n) PROVE TurnTypes'
  BY <1>16 DEF StartChannel
<1>17. ASSUME NEW n \in todo, StopReceiver(n) PROVE TurnTypes'
  BY <1>17 DEF StopReceiver
<1>18. CASE CallStart
  BY <1>18 DEF CallStart
<1>19. CASE CallStop
  BY <1>19 DEF CallStop
<1>20. ASSUME NEW n \in DOMAIN rx, ReceiverExit(n) PROVE TurnTypes'
  BY <1>20 DEF ReceiverExit
<1>21. ASSUME NEW n \in DOMAIN rx, TransmitterExit(n) PROVE TurnTypes'
  BY <1>21 DEF TransmitterExit
<1>22. ASSUME NEW t \in Queue, QueueThreadExit(t) PROVE TurnTypes'
  BY <1>22 DEF QueueThreadExit
<1> QED
  BY <1>1, <1>2, <1>3, <1>4, <1>5, <1>6, <1>7, <1>8, <1>9, <1>10, <1>11, <1>12, <1>13, <1>14,
     <1>15, <1>16, <1>17, <1>18, <1>19, <1>20, <1>21, <1>22 DEF Next, Main, ChannelThreads,
     QueueThreads, Queue

\* Every step keeps the order of the calls.
LEMMA NextTurnInv == TurnInv /\ TurnTypes' /\ [Next]_vars => TurnInv'
<1> SUFFICES ASSUME TurnInv, TurnTypes', [Next]_vars PROVE TurnInv'
  OBVIOUS
<1> USE DEF TurnInv, TurnTypes, Locations, InSetup, InStart, InStop, Queue, Life, InTurnUpTo,
        Before, Odd, Threads, settingsVars, routerVars, loopVars, threadVars, queueVars
<1>1. CASE UNCHANGED vars
  BY <1>1 DEF vars
<1>2. CASE ParseLine
  BY <1>2 DEF ParseLine
<1>3. CASE NextFile
  BY <1>3 DEF NextFile
<1>4. CASE CreateChannel
  BY <1>4 DEF CreateChannel
<1>5. CASE CreateDataHandlers
  BY <1>5 DEF CreateDataHandlers
<1>6. CASE StartDm
  BY <1>6 DEF StartDm, StartThread
<1>7. CASE StartAgg
  BY <1>7 DEF StartAgg, StartThread
<1>8. CASE Started
  BY <1>8 DEF Started
<1>9. CASE StopDm
  BY <1>9 DEF StopDm, ClearFlag
<1>10. CASE JoinDm
  BY <1>10 DEF JoinDm, JoinOrDetach
<1>11. CASE StopAgg
  BY <1>11 DEF StopAgg, ClearFlag
<1>12. CASE JoinAgg
  BY <1>12 DEF JoinAgg, JoinOrDetach
<1>13. CASE JoinReceiver
  BY <1>13 DEF JoinReceiver, AfterReceiver
<1>14. CASE JoinTransmitter
  BY <1>14 DEF JoinTransmitter
<1>15. CASE ClearChannels
  BY <1>15 DEF ClearChannels
<1>16. ASSUME NEW n \in todo, StartChannel(n) PROVE TurnInv'
  BY <1>16 DEF StartChannel
<1>17. ASSUME NEW n \in todo, StopReceiver(n) PROVE TurnInv'
  BY <1>17 DEF StopReceiver
<1>18. CASE CallStart
  BY <1>18 DEF CallStart
<1>19. CASE CallStop
  BY <1>19 DEF CallStop
<1>20. ASSUME NEW n \in DOMAIN rx, ReceiverExit(n) PROVE TurnInv'
  BY <1>20 DEF ReceiverExit
<1>21. ASSUME NEW n \in DOMAIN rx, TransmitterExit(n) PROVE TurnInv'
  BY <1>21 DEF TransmitterExit
<1>22. ASSUME NEW t \in Queue, QueueThreadExit(t) PROVE TurnInv'
  BY <1>22 DEF QueueThreadExit
<1> QED
  BY <1>1, <1>2, <1>3, <1>4, <1>5, <1>6, <1>7, <1>8, <1>9, <1>10, <1>11, <1>12, <1>13, <1>14,
     <1>15, <1>16, <1>17, <1>18, <1>19, <1>20, <1>21, <1>22 DEF Next, Main, ChannelThreads,
     QueueThreads, Queue

-----------------------------------------------------------------------------
(* Types.                                                                  *)

SettingsInv ==
  /\ files \in Configs /\ cursor \in [file : Nat \ {0}, line : Nat, section : Text]
  /\ \A k \in DOMAIN m_settings_map : m_settings_map[k] \in Text

Numbers == 0..ByteModulus - 1
RouterTypes ==
  /\ section \in Numbers /\ current \in Numbers
  /\ m_channels \in [DOMAIN m_channels -> Channel] /\ DOMAIN m_channels \subseteq Numbers
  /\ fds \in Tables
  /\ todo \subseteq DOMAIN m_channels
  /\ main \in {"joinRx", "joinTx"} => current \in DOMAIN m_channels \ todo
ThreadTypes ==
  /\ rx \in [DOMAIN rx -> Life] /\ tx \in [DOMAIN rx -> Life]
  /\ rx_running \in [DOMAIN rx -> BOOLEAN] /\ tx_running \in [DOMAIN rx -> BOOLEAN]

TypeInv == TurnTypes /\ SettingsInv /\ RouterTypes /\ ThreadTypes

\* The empty text is a text.
LEMMA Texts == "" \in Text /\ STRING \subseteq Text
BY Zenon DEF Text

\* Settings::getData returns a text, the empty one for what is not configured.
LEMMA ConfiguredText ==
  ASSUME SettingsInv, NEW name, NEW key
  PROVE  GetData(name, key) \in Text
<1>1. CASE <<name, key>> \in DOMAIN m_settings_map
  BY <1>1, Zenon DEF SettingsInv, GetData
<1>2. CASE <<name, key>> \notin DOMAIN m_settings_map
  BY <1>2, Texts, Zenon DEF GetData
<1> QED
  BY <1>1, <1>2, Zenon

\* What is stored in a uint8_t.
LEMMA ByteRange ==
  \A x \in Int : x % ByteModulus \in Numbers
BY ConfigsAssumption DEF Numbers

\* The number of channels is a uint8_t, whatever std::stoi returns.
LEMMA ChannelNumbers == NumChannels \in Numbers
<1> DEFINE text == GetData("DEFAULT", "NUM_CHANNEL")
<1>1. CASE text \in DOMAIN Stoi
  <2>1. NumChannels = Stoi[text] % ByteModulus
    BY <1>1 DEF NumChannels
  <2> HIDE DEF text
  <2> QED
    BY <1>1, <2>1, ByteRange, ConfigsAssumption
<1>2. CASE text \notin DOMAIN Stoi
  <2>1. NumChannels = 0
    BY <1>2 DEF NumChannels
  <2> QED
    BY <2>1, ConfigsAssumption DEF Numbers
<1> QED
  BY <1>1, <1>2

-----------------------------------------------------------------------------
(* What the settings files say.                                            *)

\* A set of numbers has the least and the greatest element that one finds in it.
LEMMA LeastIs ==
  ASSUME NEW S, S \subseteq Int, NEW x \in S, \A y \in S : x <= y
  PROVE  Min(S) = x
<1>1. Min(S) \in S /\ \A y \in S : Min(S) <= y
  BY DEF Min
<1>2. Min(S) <= x /\ x <= Min(S) /\ Min(S) \in Int /\ x \in Int
  BY <1>1
<1> QED
  BY <1>2

\* The same for the greatest one.
LEMMA GreatestIs ==
  ASSUME NEW S, S \subseteq Int, NEW x \in S, \A y \in S : x >= y
  PROVE  Max(S) = x
<1>1. Max(S) \in S /\ \A y \in S : Max(S) >= y
  BY DEF Max
<1>2. Max(S) <= x /\ x <= Max(S) /\ Max(S) \in Int /\ x \in Int
  BY <1>1
<1> QED
  BY <1>2

\* Line i begins a section.
Begins(f, i) == "section" \in DOMAIN f[i]

\* A line that begins a section is in it; any other one is in that of the line above it.
LEMMA SectionOfNext ==
  ASSUME NEW f, NEW i \in Nat
  PROVE  SectionOf(f, i + 1) = IF Begins(f, i + 1) THEN f[i + 1].section ELSE SectionOf(f, i)
<1> DEFINE begun(k) == {j \in 1..k : Begins(f, j)}
<1>1. \A k : SectionOf(f, k) = IF begun(k) = {} THEN "" ELSE f[Max(begun(k))].section
  BY Zenon DEF SectionOf, Begins
<1>2. CASE Begins(f, i + 1)
  <2>1. begun(i + 1) \subseteq Int /\ i + 1 \in begun(i + 1)
        /\ \A j \in begun(i + 1) : i + 1 >= j
    BY <1>2
  <2> HIDE DEF begun
  <2>2. Max(begun(i + 1)) = i + 1
    BY <2>1, GreatestIs
  <2> QED
    BY <1>1, <1>2, <2>1, <2>2, Zenon
<1>3. CASE ~Begins(f, i + 1)
  <2>1. begun(i + 1) = begun(i)
    BY <1>3
  <2> HIDE DEF begun
  <2> QED
    BY <1>1, <1>3, <2>1, Zenon
<1> QED
  BY <1>2, <1>3

\* Before the first line there is no section.
LEMMA SectionOfNone ==
  ASSUME NEW f
  PROVE  SectionOf(f, 0) = ""
<1>1. {j \in 1..0 : "section" \in DOMAIN f[j]} = {}
  OBVIOUS
<1> QED
  BY <1>1, Zenon DEF SectionOf

\* The lines of file m that were read.
Read(m) ==
  IF m < cursor.file THEN DOMAIN files[m]
  ELSE IF m = cursor.file THEN 1..cursor.line ELSE {}

\* Line i of file m is the first one that gives the key in the section.
FirstGiven(m, i, name, key) ==
  /\ m \in DOMAIN files /\ i \in Giving(files[m], name, key)
  /\ \A l \in DOMAIN files : l < m => Giving(files[l], name, key) = {}
  /\ \A j \in Giving(files[m], name, key) : i <= j

\* The map has the first value of each key, of the lines read so far.
Mapped(name, key) ==
  /\ <<name, key>> \in DOMAIN m_settings_map =>
       \E m \in DOMAIN files : \E i \in Read(m) :
         FirstGiven(m, i, name, key) /\ m_settings_map[<<name, key>>] = files[m][i].value
  /\ <<name, key>> \notin DOMAIN m_settings_map =>
       \A m \in DOMAIN files : Giving(files[m], name, key) \cap Read(m) = {}

ReadInv ==
  /\ cursor.file <= Len(files) =>
       /\ cursor.line <= Len(files[cursor.file])
       /\ cursor.section = SectionOf(files[cursor.file], cursor.line)
  /\ \A name, key : Mapped(name, key)
  /\ main # "load" => cursor.file > Len(files)

\* The settings files are sequences of lines.
LEMMA FilesAreSequences ==
  ASSUME SettingsInv
  PROVE  /\ Len(files) \in Nat /\ DOMAIN files = 1..Len(files)
         /\ \A m \in DOMAIN files :
              /\ Len(files[m]) \in Nat /\ DOMAIN files[m] = 1..Len(files[m])
              /\ \A i \in DOMAIN files[m] : files[m][i] \in SettingsLine
<1>1. files \in Seq(Seq(SettingsLine))
  BY ConfigsAssumption DEF SettingsInv
<1>2. Len(files) \in Nat /\ DOMAIN files = 1..Len(files)
  BY <1>1
<1>3. ASSUME NEW m \in DOMAIN files
      PROVE  /\ Len(files[m]) \in Nat /\ DOMAIN files[m] = 1..Len(files[m])
             /\ \A i \in DOMAIN files[m] : files[m][i] \in SettingsLine
  <2>1. files[m] \in Seq(SettingsLine)
    BY <1>1, <1>2
  <2> QED
    BY <2>1
<1> QED
  BY <1>2, <1>3

\* getData() is to return the first value of a key.
LEMMA ConfiguredIs ==
  ASSUME SettingsInv, NEW m, NEW i, NEW name, NEW key, FirstGiven(m, i, name, key)
  PROVE  Configured(name, key) = files[m][i].value
<1> DEFINE having == {n \in DOMAIN files : Giving(files[n], name, key) # {}}
           lines == Giving(files[m], name, key)
<1>1. /\ having \subseteq Int /\ m \in having /\ \A n \in having : m <= n
      /\ lines \subseteq Int /\ i \in lines /\ \A j \in lines : i <= j
  BY FilesAreSequences DEF FirstGiven, Giving
<1>2. Configured(name, key) =
        IF having = {} THEN ""
        ELSE files[Min(having)][Min(Giving(files[Min(having)], name, key))].value
  BY Zenon DEF Configured
<1> HIDE DEF having
<1>3. Min(having) = m
  BY <1>1, LeastIs
<1>4. having # {}
  BY <1>1
<1>5. Configured(name, key) = files[m][Min(lines)].value
  BY <1>2, <1>3, <1>4, Zenon
<1> HIDE DEF lines
<1>6. Min(lines) = i
  BY <1>1, LeastIs
<1> QED
  BY <1>5, <1>6, Zenon

\* or the empty text if no line gives the key.
LEMMA ConfiguredNot ==
  ASSUME NEW name, NEW key, \A m \in DOMAIN files : Giving(files[m], name, key) = {}
  PROVE  Configured(name, key) = ""
<1>1. {n \in DOMAIN files : Giving(files[n], name, key) # {}} = {}
  OBVIOUS
<1> QED
  BY <1>1, Zenon DEF Configured

\* A line gives a key if it begins no section.
LEMMA KeyLine ==
  ASSUME NEW line \in SettingsLine
  PROVE  "key" \in DOMAIN line <=> "section" \notin DOMAIN line
BY DEF SettingsLine

\* One more line was read.
LEMMA ParseLineRead ==
  ASSUME SettingsInv, ReadInv, ParseLine
  PROVE  ReadInv'
<1> DEFINE m0 == cursor.file  i0 == cursor.line + 1  line == files[m0][i0]
<1>1. /\ m0 \in DOMAIN files /\ i0 \in DOMAIN files[m0] /\ line \in SettingsLine
      /\ m0 \in Nat /\ i0 \in Nat /\ cursor.line \in Nat
      /\ files' = files /\ main = "load" /\ main' = main
  BY FilesAreSequences DEF ParseLine, SettingsInv
<1>2. /\ cursor'.file = m0 /\ cursor'.line = i0
      /\ cursor'.section = IF Begins(files[m0], i0) THEN line.section ELSE cursor.section
  BY DEF ParseLine, SettingsInv, Begins
<1>3. cursor.section = SectionOf(files[m0], cursor.line)
  BY <1>1, FilesAreSequences DEF ReadInv
<1>4. cursor'.section = SectionOf(files[m0], i0)
  BY <1>1, <1>2, <1>3, SectionOfNext
<1>5. /\ ~Begins(files[m0], i0) =>
            /\ m_settings_map' = Insert(m_settings_map, <<cursor.section, line.key>>, line.value)
            /\ "key" \in DOMAIN line /\ cursor.section = SectionOf(files[m0], i0)
      /\ Begins(files[m0], i0) => m_settings_map' = m_settings_map /\ "key" \notin DOMAIN line
  BY <1>1, <1>2, <1>4, KeyLine DEF ParseLine, Begins
<1>6. \A m : Read(m)' = IF m = m0 THEN Read(m0) \cup {i0} ELSE Read(m)
  <2>1. ASSUME NEW m, m # m0 PROVE Read(m)' = Read(m)
    BY <1>1, <1>2, <2>1 DEF Read
  <2>2. ~(m0 < m0) /\ 1..i0 = 1..cursor.line \cup {i0}
    BY <1>1
  <2>3. ASSUME NEW m, m = m0 PROVE Read(m)' = 1..i0 /\ Read(m) = 1..cursor.line
    BY <1>1, <1>2, <2>2, <2>3 DEF Read
  <2> QED
    BY <2>1, <2>2, <2>3
<1>7. \A m, i, name, key : FirstGiven(m, i, name, key)' <=> FirstGiven(m, i, name, key)
  BY <1>1 DEF FirstGiven
<1>8. ASSUME NEW name, NEW key, i0 \notin Giving(files[m0], name, key),
             <<name, key>> \in DOMAIN m_settings_map' <=> <<name, key>> \in DOMAIN m_settings_map,
             <<name, key>> \in DOMAIN m_settings_map =>
               m_settings_map'[<<name, key>>] = m_settings_map[<<name, key>>]
      PROVE  Mapped(name, key)'
  BY <1>1, <1>6, <1>7, <1>8 DEF ReadInv, Mapped
<1>9. ASSUME NEW name, NEW key, name = cursor.section, key = line.key, ~Begins(files[m0], i0)
      PROVE  Mapped(name, key)'
  <2> DEFINE pair == <<name, key>>
  <2>1. i0 \in Giving(files[m0], name, key)
    BY <1>1, <1>5, <1>9 DEF Giving
  <2>2. /\ DOMAIN m_settings_map' = DOMAIN m_settings_map \cup {pair}
        /\ m_settings_map'[pair] = IF pair \in DOMAIN m_settings_map THEN m_settings_map[pair]
                                   ELSE line.value
    <3> DEFINE value == line.value
    <3>1. m_settings_map' = Insert(m_settings_map, pair, value)
      BY <1>5, <1>9
    <3> HIDE DEF pair, value
    <3> QED
      BY <3>1 DEF Insert, value
  <2>3. CASE pair \in DOMAIN m_settings_map
    <3>1. PICK m \in DOMAIN files : \E i \in Read(m) :
            FirstGiven(m, i, name, key) /\ m_settings_map[pair] = files[m][i].value
      BY <2>3 DEF ReadInv, Mapped
    <3> QED
      BY <1>1, <1>6, <1>7, <2>2, <2>3, <3>1 DEF Mapped
  <2>4. CASE pair \notin DOMAIN m_settings_map
    <3>1. \A l \in DOMAIN files : Giving(files[l], name, key) \cap Read(l) = {}
      BY <2>4 DEF ReadInv, Mapped
    <3>2. ASSUME NEW l \in DOMAIN files, l < m0 PROVE Giving(files[l], name, key) = {}
      <4>1. Read(l) = DOMAIN files[l]
        BY <3>2 DEF Read
      <4> QED
        BY <3>1, <4>1 DEF Giving
    <3>3. ASSUME NEW j \in Giving(files[m0], name, key) PROVE i0 <= j
      <4>1. j \in 1..Len(files[m0]) /\ j \notin Read(m0)
        BY <1>1, <3>1, FilesAreSequences DEF Giving
      <4>2. Read(m0) = 1..cursor.line
        BY <1>1 DEF Read
      <4> QED
        BY <1>1, <4>1, <4>2, FilesAreSequences
    <3>4. FirstGiven(m0, i0, name, key)
      BY <1>1, <2>1, <3>2, <3>3 DEF FirstGiven
    <3>5. \A m : m = m0 => i0 \in Read(m)'
      BY <1>6
    <3> QED
      BY <1>1, <1>7, <2>2, <2>4, <3>4, <3>5 DEF Mapped
  <2> QED
    BY <2>3, <2>4
<1>10. ASSUME NEW name, NEW key PROVE Mapped(name, key)'
  <2>1. CASE Begins(files[m0], i0)
    <3>1. i0 \notin Giving(files[m0], name, key)
      BY <1>5, <2>1 DEF Giving
    <3> QED
      BY <1>5, <1>8, <2>1, <3>1
  <2>2. CASE ~Begins(files[m0], i0) /\ name = cursor.section /\ key = line.key
    BY <1>9, <2>2
  <2>3. CASE ~Begins(files[m0], i0) /\ ~(name = cursor.section /\ key = line.key)
    <3>1. i0 \notin Giving(files[m0], name, key)
      BY <1>5, <2>3 DEF Giving
    <3>2. <<name, key>> # <<cursor.section, line.key>>
      BY <2>3
    <3> HIDE DEF line
    <3>3. /\ <<name, key>> \in DOMAIN m_settings_map' <=> <<name, key>> \in DOMAIN m_settings_map
          /\ <<name, key>> \in DOMAIN m_settings_map =>
               m_settings_map'[<<name, key>>] = m_settings_map[<<name, key>>]
      BY <1>5, <2>3, <3>2 DEF Insert
    <3> QED
      BY <1>8, <3>1, <3>3
  <2> QED
    BY <2>1, <2>2, <2>3
<1>11. cursor'.line <= Len(files'[cursor'.file])
  BY <1>1, <1>2, FilesAreSequences
<1> QED
  BY <1>1, <1>2, <1>4, <1>10, <1>11 DEF ReadInv

\* The next file begins, or all were read.
LEMMA NextFileRead ==
  ASSUME SettingsInv, ReadInv, NextFile
  PROVE  ReadInv'
<1>1. files' = files /\ m_settings_map' = m_settings_map /\ cursor.file \in Nat
      /\ main = "load"
  BY DEF NextFile, SettingsInv
<1>2. CASE cursor.file <= Len(files)
  <2> DEFINE none == ""
  <2>1. /\ cursor' = [file |-> cursor.file + 1, line |-> 0, section |-> none]
        /\ cursor.line = Len(files[cursor.file]) /\ main' = main
    BY <1>2, Zenon DEF NextFile
  <2>2. \A f : SectionOf(f, 0) = none
    BY SectionOfNone
  <2> HIDE DEF none
  <2>3. cursor'.file = cursor.file + 1 /\ cursor'.line = 0 /\ cursor'.section = none
    BY <2>1
  <2>4. \A m \in DOMAIN files : Read(m)' = Read(m)
    <3>1. Len(files) \in Nat /\ DOMAIN files = 1..Len(files)
      BY FilesAreSequences
    <3>2. ASSUME NEW m \in DOMAIN files PROVE Read(m)' = Read(m)
      <4>1. CASE m < cursor.file
        BY <1>1, <2>3, <3>1, <4>1 DEF Read
      <4>2. CASE m = cursor.file
        <5>1. DOMAIN files[m] = 1..cursor.line
          BY <2>1, <4>2, FilesAreSequences
        <5> QED
          BY <1>1, <2>3, <3>1, <4>2, <5>1 DEF Read
      <4>3. CASE m > cursor.file
        BY <1>1, <2>3, <3>1, <4>3 DEF Read
      <4> QED
        BY <1>1, <3>1, <4>1, <4>2, <4>3
    <3> QED
      BY <3>2
  <2>5. ASSUME NEW name, NEW key PROVE Mapped(name, key)'
    <3>1. \A m, i : FirstGiven(m, i, name, key)' <=> FirstGiven(m, i, name, key)
      BY <1>1 DEF FirstGiven
    <3> QED
      BY <1>1, <2>4, <3>1 DEF ReadInv, Mapped
  <2>6. cursor'.file <= Len(files') => cursor'.line <= Len(files'[cursor'.file])
    BY <1>1, <1>2, <2>3, FilesAreSequences
  <2> QED
    BY <1>1, <2>1, <2>2, <2>3, <2>5, <2>6 DEF ReadInv
<1>3. CASE cursor.file > Len(files)
  <2>1. ~(cursor.file <= Len(files))
    BY <1>1, <1>3, FilesAreSequences
  <2>2. cursor' = cursor
    BY <2>1, Zenon DEF NextFile
  <2> QED
    BY <1>1, <1>3, <2>2 DEF ReadInv, Mapped, FirstGiven, Read
<1> QED
  BY <1>1, <1>2, <1>3, FilesAreSequences

\* Before the first line.
LEMMA InitReadInv == Init => ReadInv
<1> SUFFICES ASSUME Init PROVE ReadInv
  OBVIOUS
<1> DEFINE none == ""
<1>1. /\ files \in Configs /\ cursor = [file |-> 1, line |-> 0, section |-> none]
      /\ m_settings_map = <<>> /\ main = "load"
  BY Zenon DEF Init
<1>2. \A f : SectionOf(f, 0) = none
  BY SectionOfNone
<1> HIDE DEF none
<1>3. cursor.file = 1 /\ cursor.line = 0 /\ cursor.section = none /\ DOMAIN m_settings_map = {}
  BY <1>1
<1>4. files \in Seq(Seq(SettingsLine))
  BY <1>1, ConfigsAssumption
<1>5. \A m \in DOMAIN files : Read(m) = {}
  BY <1>3, <1>4 DEF Read
<1>6. 1 <= Len(files) => Len(files[1]) \in Nat
  <2> SUFFICES ASSUME 1 <= Len(files) PROVE Len(files[1]) \in Nat
    OBVIOUS
  <2>1. files[1] \in Seq(SettingsLine)
    BY <1>4
  <2> QED
    BY <2>1
<1>7. \A name, key : Mapped(name, key)
  BY <1>3, <1>5 DEF Mapped
<1> QED
  BY <1>1, <1>2, <1>3, <1>6, <1>7 DEF ReadInv

\* A step that reads nothing.
LEMMA SameRead ==
  ASSUME ReadInv, UNCHANGED settingsVars, main = "load" => main' = "load"
  PROVE  ReadInv'
<1>1. files' = files /\ cursor' = cursor /\ m_settings_map' = m_settings_map
  BY DEF settingsVars
<1>2. ASSUME NEW name, NEW key PROVE Mapped(name, key)'
  <2>1. Mapped(name, key)
    BY DEF ReadInv
  <2> QED
    BY <1>1, <2>1 DEF Mapped, FirstGiven, Read
<1> QED
  BY <1>1, <1>2 DEF ReadInv

\* Every step.
LEMMA NextReadInv == SettingsInv /\ ReadInv /\ [Next]_vars => ReadInv'
<1> SUFFICES ASSUME SettingsInv, ReadInv, [Next]_vars PROVE ReadInv'
  OBVIOUS
<1>1. CASE ParseLine
  BY <1>1, ParseLineRead
<1>2. CASE NextFile
  BY <1>2, NextFileRead
<1>3. CASE ~ParseLine /\ ~NextFile
  <2> USE DEF routerVars
  <2>1. UNCHANGED settingsVars /\ (main = "load" => main' = "load")
    BY <1>3
       DEF Next, Main, ChannelThreads, QueueThreads, vars, CreateChannel, CreateDataHandlers,
           StartDm, StartAgg, StartThread, Started, StopDm, StopAgg, ClearFlag, JoinDm, JoinAgg,
           JoinOrDetach, JoinReceiver, AfterReceiver, JoinTransmitter, ClearChannels,
           StartChannel, StopReceiver, CallStart, CallStop, ReceiverExit, TransmitterExit,
           QueueThreadExit, loopVars
  <2> QED
    BY <2>1, SameRead
<1> QED
  BY <1>1, <1>2, <1>3

\* When all files are read, getData() returns what they say first.
LEMMA GetsConfigured ==
  ASSUME SettingsInv, ReadInv, main # "load", NEW name, NEW key
  PROVE  GetData(name, key) = Configured(name, key)
<1>1. \A m \in DOMAIN files : Read(m) = DOMAIN files[m]
  BY FilesAreSequences DEF ReadInv, Read, SettingsInv
<1>2. Mapped(name, key)
  BY DEF ReadInv
<1>3. CASE <<name, key>> \in DOMAIN m_settings_map
  <2>1. PICK m \in DOMAIN files : \E i \in Read(m) :
          FirstGiven(m, i, name, key) /\ m_settings_map[<<name, key>>] = files[m][i].value
    BY <1>2, <1>3 DEF Mapped
  <2>2. PICK i \in Read(m) :
          FirstGiven(m, i, name, key) /\ m_settings_map[<<name, key>>] = files[m][i].value
    BY <2>1
  <2>3. Configured(name, key) = files[m][i].value
    BY <2>2, ConfiguredIs
  <2>4. GetData(name, key) = m_settings_map[<<name, key>>]
    BY <1>3, Zenon DEF GetData
  <2> QED
    BY <2>2, <2>3, <2>4
<1>4. CASE <<name, key>> \notin DOMAIN m_settings_map
  <2>1. \A m \in DOMAIN files : Giving(files[m], name, key) = {}
    BY <1>1, <1>2, <1>4 DEF Mapped, Giving
  <2>2. Configured(name, key) = ""
    BY <2>1, ConfiguredNot
  <2> QED
    BY <1>4, <2>2, Zenon DEF GetData
<1> QED
  BY <1>3, <1>4

-----------------------------------------------------------------------------
(* What init() and stop() make of a channel and of the open descriptors.   *)

\* The fields of a channel that may hold a descriptor, and what each of them holds.
Field == {"receiver.eth", "receiver.can", "transmitter.eth", "transmitter.can"}
Family(k) == IF k \in {"receiver.eth", "transmitter.eth"} THEN "packet" ELSE "can"
CanFd(end) == IF end.can_init THEN end.m_can_socket ELSE -1
FdOf(channel, k) ==
  CASE k = "receiver.eth" -> channel.receiver.m_eth_fd
    [] k = "receiver.can" -> CanFd(channel.receiver)
    [] k = "transmitter.eth" -> channel.transmitter.m_eth_fd
    [] k = "transmitter.can" -> CanFd(channel.transmitter)

\* The CAN bus of an endpoint: there if it is enabled, or closed.
CanThere(end) ==
  (end.can_init <=> end.m_is_can_enabled) /\ (end.can_init => end.m_can_socket \in Descriptors)

\* An attempt to open a socket: fd is the new descriptor, or none.
Step(table, after, fd, family, ifnames) ==
  /\ DOMAIN after = DOMAIN table \cup ({fd} \cap Descriptors) /\ fd \notin DOMAIN table
  /\ \A d \in DOMAIN table : after[d] = table[d]
  /\ fd \in Descriptors => after[fd].family = family /\ after[fd].ifname \in ifnames

\* Nothing was opened.
LEMMA NoStep ==
  ASSUME NEW table \in Tables, NEW fd, fd \notin Descriptors, NEW family, NEW ifnames
  PROVE  Step(table, table, fd, family, ifnames)
<1>1. DOMAIN table \subseteq Descriptors
  BY TableIsFunction
<1> QED
  BY <1>1 DEF Step

\* One socket was opened.
LEMMA ExtendedStep ==
  ASSUME NEW table \in Tables, NEW fd \in Descriptors \ DOMAIN table, NEW family, NEW ifnames,
         NEW i \in ifnames
  PROVE  Step(table, Extended(table, fd, family, i), fd, family, ifnames)
BY DEF Step, Extended

\* Neither an error nor memory that nobody has written is an open descriptor.
LEMMA NoDescriptor == -1 \notin Descriptors /\ Junk \notin Descriptors
BY DescriptorsAreNumbers DEF Junk

\* An outcome for fewer interfaces is one for more.
LEMMA WeakerOutcome ==
  ASSUME NEW table, NEW family, NEW ifnames, NEW more, ifnames \subseteq more, NEW o,
         IsOutcome(o, table, family, ifnames)
  PROVE  IsOutcome(o, table, family, more)
BY DEF IsOutcome

\* A function of comm-if makes such an attempt; what it returns tells how it went.
LEMMA OutcomeStep ==
  ASSUME NEW table \in Tables, NEW family \in {"packet", "can"},
         NEW ifnames \in SUBSET (Interfaces \cup {AnyInterface}),
         NEW o, IsOutcome(o, table, family, ifnames)
  PROVE  /\ Step(table, o.fds, o.ret, family, ifnames) /\ o.fds \in Tables
         /\ o.ret \in {-1} \cup Descriptors /\ (o.ret >= 0 <=> o.ret \in Descriptors)
<1>1. CASE o = Failed(table)
  <2>1. o.ret = -1 /\ o.fds = table
    BY <1>1, OutcomeFields, Zenon
  <2>2. ~(-1 >= 0) /\ -1 \notin Descriptors
    BY NoDescriptor
  <2>3. Step(table, table, -1, family, ifnames)
    BY <2>2, NoStep, Zenon
  <2> QED
    BY <2>1, <2>2, <2>3, Zenon
<1>2. ASSUME NEW fd \in Descriptors \ DOMAIN table, NEW i \in ifnames,
             o = Returns(fd, Extended(table, fd, family, i))
      PROVE  /\ Step(table, o.fds, o.ret, family, ifnames) /\ o.fds \in Tables
             /\ o.ret \in {-1} \cup Descriptors /\ (o.ret >= 0 <=> o.ret \in Descriptors)
  <2>1. o.ret = fd /\ o.fds = Extended(table, fd, family, i)
    BY <1>2, OutcomeFields
  <2>2. fd >= 0
    <3>1. fd \in Nat
      BY DescriptorsAreNumbers
    <3> QED
      BY <3>1
  <2>3. Extended(table, fd, family, i) \in Tables
    BY ExtendedTable
  <2>4. Step(table, Extended(table, fd, family, i), fd, family, ifnames)
    BY ExtendedStep
  <2> QED
    BY <2>1, <2>2, <2>3, <2>4, Zenon
<1> QED
  BY <1>1, <1>2 DEF IsOutcome

\* An endpoint that init() has left behind.
NewEnd(new, table, ifnames) ==
  /\ new.end \in Endpoint /\ new.fds \in Tables
  /\ ~new.end.m_is_can_enabled /\ ~new.end.can_init
  /\ Step(table, new.fds, new.end.m_eth_fd, "packet", ifnames)
  /\ new.end.m_is_initialized /\ ~new.end.memory => new.end.m_eth_fd \in Descriptors

\* init() believes that it has a socket only if it has, or if memory says so.
LEMMA MadeEnd ==
  ASSUME NEW table \in Tables, NEW after \in Tables, NEW memory \in BOOLEAN, NEW init \in BOOLEAN,
         NEW fd \in {Junk, -1} \cup Descriptors, NEW ifnames,
         Step(table, after, fd, "packet", ifnames), init /\ ~memory => fd \in Descriptors
  PROVE  NewEnd(Made(memory, init, fd, after), table, ifnames)
BY DEF NewEnd, Made, Endpoint

\* init() that returns early.
LEMMA NothingOpenedEnd ==
  ASSUME NEW table \in Tables, NEW memory \in BOOLEAN, NEW ifnames
  PROVE  NewEnd(Made(memory, memory, Junk, table), table, ifnames)
BY MadeEnd, NoDescriptor, NoStep

\* Receiver::init.
LEMMA ReceiverEnd ==
  ASSUME NEW table \in Tables, NEW ifname, NEW macaddr, NEW memory \in BOOLEAN,
         NEW new \in ReceiverInit(ifname, macaddr, memory, table)
  PROVE  NewEnd(new, table, {ifname} \cap Interfaces)
<1>1. CASE NothingOpened(ifname, macaddr, memory)
  BY <1>1, NothingOpenedEnd DEF ReceiverInit
<1>2. CASE ~NothingOpened(ifname, macaddr, memory)
  <2>1. PICK o \in IF ifname = "lo" THEN Comm_Lo_CreateSocket(table, ifname)
                   ELSE Comm_Ether_CreateListenerSocket(table, ifname) :
          new = Made(FALSE, o.ret >= 0, o.ret, o.fds)
    BY <1>2, Zenon DEF ReceiverInit
  <2>2. IsOutcome(o, table, "packet", {ifname} \cap Interfaces)
    BY LoOutcome, ListenerOutcome
  <2>3. /\ Step(table, o.fds, o.ret, "packet", {ifname} \cap Interfaces) /\ o.fds \in Tables
        /\ o.ret \in {-1} \cup Descriptors /\ (o.ret >= 0 <=> o.ret \in Descriptors)
    BY <2>2, OutcomeStep
  <2> DEFINE init == o.ret >= 0
  <2>4. init \in BOOLEAN /\ (init => o.ret \in Descriptors)
    BY <2>3
  <2> HIDE DEF init
  <2>5. NewEnd(Made(FALSE, init, o.ret, o.fds), table, {ifname} \cap Interfaces)
    BY <2>3, <2>4, MadeEnd
  <2> QED
    BY <2>1, <2>5 DEF init
<1> QED
  BY <1>1, <1>2

\* Transmitter::init.
LEMMA TransmitterEnd ==
  ASSUME NEW table \in Tables, NEW ifname, NEW macaddr, NEW memory \in BOOLEAN,
         NEW new \in TransmitterInit(ifname, macaddr, memory, table)
  PROVE  NewEnd(new, table, Interfaces \cup {AnyInterface})
<1>1. CASE NothingOpened(ifname, macaddr, memory)
  <2>1. TransmitterInit(ifname, macaddr, memory, table) = {Made(memory, memory, Junk, table)}
    BY <1>1, Zenon DEF TransmitterInit
  <2> QED
    BY <2>1, NothingOpenedEnd
<1>2. ASSUME NEW o, NEW init \in BOOLEAN,
             IsOutcome(o, table, "packet", Interfaces \cup {AnyInterface}),
             new = Made(FALSE, init, o.ret, o.fds), init => o.ret >= 0
      PROVE  NewEnd(new, table, Interfaces \cup {AnyInterface})
  <2>1. /\ Step(table, o.fds, o.ret, "packet", Interfaces \cup {AnyInterface}) /\ o.fds \in Tables
        /\ o.ret \in {-1} \cup Descriptors /\ (o.ret >= 0 <=> o.ret \in Descriptors)
    BY <1>2, OutcomeStep
  <2> QED
    BY <1>2, <2>1, MadeEnd
<1>3. CASE ~NothingOpened(ifname, macaddr, memory) /\ ifname = "lo"
  <2>1. PICK o \in Comm_Lo_CreateSocket(table, ifname) :
          new = Made(FALSE, o.ret >= 0, o.ret, o.fds)
    BY <1>3, Zenon DEF TransmitterInit
  <2>2. IsOutcome(o, table, "packet", Interfaces \cup {AnyInterface})
    BY LoOutcome, WeakerOutcome
  <2> DEFINE init == o.ret >= 0
  <2>3. init \in BOOLEAN /\ (init => o.ret >= 0) /\ new = Made(FALSE, init, o.ret, o.fds)
    BY <2>1
  <2> HIDE DEF init
  <2> QED
    BY <1>2, <2>2, <2>3
<1>4. CASE ~NothingOpened(ifname, macaddr, memory) /\ ifname # "lo"
  <2>1. PICK o \in Comm_Ether_CreateTalkerSocket(table, -1),
             address \in Comm_Ether_SetupSocketAddress(ifname) :
          new = Made(FALSE, o.ret >= 0 /\ address >= 0, o.ret, o.fds)
    BY <1>4, Zenon DEF TransmitterInit
  <2>2. IsOutcome(o, table, "packet", Interfaces \cup {AnyInterface})
    BY TalkerOutcome, WeakerOutcome
  <2> DEFINE init == o.ret >= 0 /\ address >= 0
  <2>3. init \in BOOLEAN /\ (init => o.ret >= 0) /\ new = Made(FALSE, init, o.ret, o.fds)
    BY <2>1
  <2> HIDE DEF init
  <2> QED
    BY <1>2, <2>2, <2>3
<1> QED
  BY <1>1, <1>3, <1>4

\* The rest of an endpoint when its CAN bus changes.
SameEthernet(e, end) ==
  /\ e.m_eth_fd = end.m_eth_fd /\ e.memory = end.memory
  /\ e.m_is_initialized = end.m_is_initialized

\* Changing one field of an endpoint.
LEMMA CanInitField ==
  ASSUME NEW end \in Endpoint, NEW b \in BOOLEAN
  PROVE  LET e == [end EXCEPT !.can_init = b]
         IN  /\ e \in Endpoint /\ (e.can_init <=> b) /\ e.m_can_socket = end.m_can_socket
             /\ (e.m_is_can_enabled <=> end.m_is_can_enabled) /\ SameEthernet(e, end)
BY DEF Endpoint, SameEthernet

\* And m_is_can_enabled,
LEMMA CanEnabledField ==
  ASSUME NEW end \in Endpoint, NEW b \in BOOLEAN
  PROVE  LET e == [end EXCEPT !.m_is_can_enabled = b]
         IN  /\ e \in Endpoint /\ (e.m_is_can_enabled <=> b) /\ e.m_can_socket = end.m_can_socket
             /\ (e.can_init <=> end.can_init) /\ SameEthernet(e, end)
BY DEF Endpoint, SameEthernet

\* and the descriptor.
LEMMA CanSocketField ==
  ASSUME NEW end \in Endpoint, NEW fd \in {-1} \cup Descriptors
  PROVE  LET e == [end EXCEPT !.m_can_socket = fd]
         IN  /\ e \in Endpoint /\ e.m_can_socket = fd /\ SameEthernet(e, end)
BY DEF Endpoint, SameEthernet

\* A CAN bus that was asked for, and that has the name asked for if there is such a name.
CanSet(end, enabled, can_ifname, table) ==
  end.m_is_can_enabled =>
    /\ enabled /\ end.m_can_socket \in DOMAIN table
    /\ can_ifname \in Interfaces =>
         table[end.m_can_socket] = [family |-> "can", ifname |-> can_ifname]

\* The endpoint with its CAN bus, if that could be attached.
LEMMA SocketCanEnd ==
  ASSUME NEW table \in Tables, NEW end \in Endpoint, ~end.m_is_can_enabled, ~end.can_init,
         NEW enabled, NEW can_ifname, NEW new \in InitSocketCan(end, enabled, can_ifname, table)
  PROVE  /\ new.end \in Endpoint /\ new.fds \in Tables
         /\ Step(table, new.fds, CanFd(new.end), "can", Interfaces \cup {AnyInterface})
         /\ CanThere(new.end)
         /\ SameEthernet(new.end, end)
         /\ CanSet(new.end, enabled, can_ifname, new.fds)
<1>1. CASE new = [end |-> end, fds |-> table]
  BY <1>1, NoDescriptor, NoStep DEF CanFd, CanThere, SameEthernet, CanSet
<1>2. ASSUME enabled, NEW o \in Comm_Can_SetupSocket(table, can_ifname),
             new = [end |-> [end EXCEPT !.m_can_socket = o.ret, !.can_init = o.ret >= 0,
                                        !.m_is_can_enabled = o.ret >= 0],
                    fds |-> o.fds]
      PROVE  /\ new.end \in Endpoint /\ new.fds \in Tables
             /\ Step(table, new.fds, CanFd(new.end), "can", Interfaces \cup {AnyInterface})
             /\ CanThere(new.end)
             /\ SameEthernet(new.end, end)
             /\ CanSet(new.end, enabled, can_ifname, new.fds)
  <2>1. /\ Step(table, o.fds, o.ret, "can", Named(can_ifname)) /\ o.fds \in Tables
        /\ o.ret \in {-1} \cup Descriptors /\ (o.ret >= 0 <=> o.ret \in Descriptors)
    <3>1. /\ IsOutcome(o, table, "can", Named(can_ifname))
          /\ Named(can_ifname) \in SUBSET (Interfaces \cup {AnyInterface})
      BY CanOutcome
    <3> QED
      BY <3>1, OutcomeStep
  <2>10. Step(table, o.fds, o.ret, "can", Interfaces \cup {AnyInterface})
    <3>1. Named(can_ifname) \subseteq Interfaces \cup {AnyInterface}
      BY DEF Named
    <3> QED
      BY <2>1, <3>1 DEF Step
  <2>2. new.fds = o.fds /\ new.end = [end EXCEPT !.m_can_socket = o.ret, !.can_init = o.ret >= 0,
                                        !.m_is_can_enabled = o.ret >= 0]
    BY <1>2
  <2> DEFINE ok == o.ret >= 0
             a == [end EXCEPT !.m_can_socket = o.ret]
             b == [a EXCEPT !.can_init = ok]
             c == [b EXCEPT !.m_is_can_enabled = ok]
  <2>3. ok \in BOOLEAN /\ (ok <=> o.ret >= 0)
    OBVIOUS
  <2>4. new.end = c
    BY <2>2, Zenon
  <2> HIDE DEF ok
  <2>5. a \in Endpoint /\ a.m_can_socket = o.ret /\ SameEthernet(a, end)
    BY <2>1, CanSocketField
  <2> HIDE DEF a
  <2>6. /\ b \in Endpoint /\ b.m_can_socket = o.ret /\ (b.can_init <=> ok) /\ SameEthernet(b, a)
    BY <2>3, <2>5, CanInitField
  <2> HIDE DEF b
  <2>7. /\ c \in Endpoint /\ c.m_can_socket = o.ret /\ (c.can_init <=> ok)
        /\ (c.m_is_can_enabled <=> ok) /\ SameEthernet(c, b)
    BY <2>3, <2>6, CanEnabledField
  <2> HIDE DEF c
  <2>8. /\ new.end \in Endpoint /\ new.end.m_can_socket = o.ret /\ (new.end.can_init <=> ok)
        /\ (new.end.m_is_can_enabled <=> ok) /\ SameEthernet(new.end, end)
    BY <2>4, <2>5, <2>6, <2>7, Zenon DEF SameEthernet
  <2>9. CanSet(new.end, enabled, can_ifname, new.fds)
    <3> SUFFICES ASSUME ok PROVE CanSet(new.end, enabled, can_ifname, new.fds)
      BY <2>8, Zenon DEF CanSet
    <3>1. o.ret \in Descriptors
      BY <2>1, <2>3
    <3>2. /\ o.ret \in DOMAIN o.fds /\ o.fds[o.ret].family = "can"
          /\ o.fds[o.ret].ifname \in Named(can_ifname)
      BY <2>1, <3>1 DEF Step
    <3>3. o.fds[o.ret] \in Socket
      BY <2>1, <3>2, TableIsFunction
    <3>4. can_ifname \in Interfaces => o.fds[o.ret] = [family |-> "can", ifname |-> can_ifname]
      BY <3>2, <3>3 DEF Named, Socket
    <3> QED
      BY <1>2, <2>2, <2>8, <3>2, <3>4, Zenon DEF CanSet
  <2> QED
    BY <2>1, <2>10, <2>2, <2>3, <2>8, <2>9, NoDescriptor, NoStep DEF CanFd, CanThere
<1> QED
  BY <1>1, <1>2, Zenon DEF InitSocketCan, CanInit

Others == Interfaces \cup {AnyInterface}

\* A channel as the settings of its section say.
AsSet(n, c, table) ==
  LET Get(key) == GetData(ChannelName(n), key)
  IN  /\ c.ifname = Get("ETH_IF_NAME")
      /\ CanSet(c.receiver, Get("CAN_RECEIVER_ENABLED") = "true", Get("CAN_IF_NAME_RECEIVER"),
                table)
      /\ CanSet(c.transmitter, Get("CAN_TRANSMITTER_ENABLED") = "true",
                Get("CAN_IF_NAME_TRANSMITTER"), table)

\* A CAN bus stays as it is when more descriptors are opened.
LEMMA CanStaysSet ==
  ASSUME NEW end, NEW enabled, NEW can_ifname, NEW table, NEW after,
         CanSet(end, enabled, can_ifname, table), DOMAIN table \subseteq DOMAIN after,
         \A fd \in DOMAIN table : after[fd] = table[fd]
  PROVE  CanSet(end, enabled, can_ifname, after)
BY Zenon DEF CanSet

\* The channel that an iteration of DataRouter::init makes, with its four attempts.
LEMMA CreatedChannel ==
  ASSUME SettingsInv, RouterTypes, CreateChannel
  PROVE  \E c \in Channel, t1 \in Tables, t2 \in Tables, t3 \in Tables :
           /\ m_channels' = [n \in DOMAIN m_channels \cup {section} |->
                               IF n = section THEN c ELSE m_channels[n]]
           /\ fds' \in Tables
           /\ Step(fds, t1, c.receiver.m_eth_fd, "packet", {c.ifname} \cap Interfaces)
           /\ Step(t1, t2, c.transmitter.m_eth_fd, "packet", Others)
           /\ Step(t2, t3, CanFd(c.receiver), "can", Others)
           /\ Step(t3, fds', CanFd(c.transmitter), "can", Others)
           /\ CanThere(c.receiver) /\ CanThere(c.transmitter)
           /\ c.receiver.m_is_initialized /\ ~c.receiver.memory =>
                c.receiver.m_eth_fd \in Descriptors
           /\ c.transmitter.m_is_initialized /\ ~c.transmitter.memory =>
                c.transmitter.m_eth_fd \in Descriptors
           /\ AsSet(section, c, fds')
<1> DEFINE Get(key) == GetData(ChannelName(section), key)
           ifname == Get("ETH_IF_NAME")
           macaddr == Get("DEST_MAC_ADDR")
           rxon == Get("CAN_RECEIVER_ENABLED") = "true"
           txon == Get("CAN_TRANSMITTER_ENABLED") = "true"
           rxif == Get("CAN_IF_NAME_RECEIVER")
           txif == Get("CAN_IF_NAME_TRANSMITTER")
       Created(w, d) ==
         /\ m_channels' =
              [n \in DOMAIN m_channels \cup {section} |->
                 IF n # section THEN m_channels[n]
                 ELSE [ifname |-> ifname, handler |-> FALSE, receiver |-> w.end,
                       transmitter |-> d.end]]
         /\ fds' = d.fds
<1>1. PICK rx_memory \in BOOLEAN, tx_memory \in BOOLEAN :
        \E r \in ReceiverInit(ifname, macaddr, rx_memory, fds) :
        \E t \in TransmitterInit(ifname, macaddr, tx_memory, r.fds) :
        \E w \in InitSocketCan(r.end, rxon, rxif, t.fds) :
        \E d \in InitSocketCan(t.end, txon, txif, w.fds) : Created(w, d)
  BY Zenon DEF CreateChannel
<1>2. ifname \in Text
  BY ConfiguredText
<1>21. ASSUME NEW c, c.ifname = ifname, CanSet(c.receiver, rxon, rxif, fds'),
              CanSet(c.transmitter, txon, txif, fds')
       PROVE  AsSet(section, c, fds')
  BY <1>21, Zenon DEF AsSet
<1> HIDE DEF ifname, macaddr, rxon, txon, rxif, txif, Created
<1>3. PICK r \in ReceiverInit(ifname, macaddr, rx_memory, fds) :
        \E t \in TransmitterInit(ifname, macaddr, tx_memory, r.fds) :
        \E w \in InitSocketCan(r.end, rxon, rxif, t.fds) :
        \E d \in InitSocketCan(t.end, txon, txif, w.fds) : Created(w, d)
  BY <1>1, Zenon
<1>4. PICK t \in TransmitterInit(ifname, macaddr, tx_memory, r.fds) :
        \E w \in InitSocketCan(r.end, rxon, rxif, t.fds) :
        \E d \in InitSocketCan(t.end, txon, txif, w.fds) : Created(w, d)
  BY <1>3, Zenon
<1>45. PICK w \in InitSocketCan(r.end, rxon, rxif, t.fds) :
         \E d \in InitSocketCan(t.end, txon, txif, w.fds) : Created(w, d)
  BY <1>4, Zenon
<1>46. PICK d \in InitSocketCan(t.end, txon, txif, w.fds) : Created(w, d)
  BY <1>45, Zenon
<1>5. fds \in Tables
  BY DEF RouterTypes
<1>6. NewEnd(r, fds, {ifname} \cap Interfaces)
  BY <1>5, ReceiverEnd
<1>7. NewEnd(t, r.fds, Others)
  BY <1>6, TransmitterEnd DEF NewEnd, Others
<1>8. /\ w.end \in Endpoint /\ w.fds \in Tables /\ CanThere(w.end) /\ SameEthernet(w.end, r.end)
      /\ Step(t.fds, w.fds, CanFd(w.end), "can", Others) /\ CanSet(w.end, rxon, rxif, w.fds)
  BY <1>6, <1>7, SocketCanEnd DEF NewEnd, Others
<1>9. /\ d.end \in Endpoint /\ d.fds \in Tables /\ CanThere(d.end) /\ SameEthernet(d.end, t.end)
      /\ Step(w.fds, d.fds, CanFd(d.end), "can", Others) /\ CanSet(d.end, txon, txif, d.fds)
  BY <1>7, <1>8, SocketCanEnd DEF NewEnd, Others
<1> DEFINE c == [ifname |-> ifname, handler |-> FALSE, receiver |-> w.end, transmitter |-> d.end]
<1>10. c \in Channel /\ c.ifname = ifname /\ c.receiver = w.end /\ c.transmitter = d.end
  BY <1>2, <1>8, <1>9 DEF Channel
<1>11. m_channels' = [n \in DOMAIN m_channels \cup {section} |->
                        IF n = section THEN c ELSE m_channels[n]]
  BY <1>46 DEF Created
<1> HIDE DEF c
<1>12. fds' \in Tables /\ r.fds \in Tables /\ t.fds \in Tables /\ w.fds \in Tables
  BY <1>46, <1>6, <1>7, <1>8, <1>9 DEF NewEnd, Created
<1>13. /\ Step(fds, r.fds, c.receiver.m_eth_fd, "packet", {c.ifname} \cap Interfaces)
       /\ Step(r.fds, t.fds, c.transmitter.m_eth_fd, "packet", Others)
       /\ Step(t.fds, w.fds, CanFd(c.receiver), "can", Others)
       /\ Step(w.fds, fds', CanFd(c.transmitter), "can", Others)
  BY <1>46, <1>6, <1>7, <1>8, <1>9, <1>10 DEF Created, NewEnd, SameEthernet
<1>14. /\ CanThere(c.receiver) /\ CanThere(c.transmitter)
       /\ c.receiver.m_is_initialized /\ ~c.receiver.memory =>
            c.receiver.m_eth_fd \in Descriptors
       /\ c.transmitter.m_is_initialized /\ ~c.transmitter.memory =>
            c.transmitter.m_eth_fd \in Descriptors
  BY <1>6, <1>7, <1>8, <1>9, <1>10 DEF NewEnd, SameEthernet
<1>15. AsSet(section, c, fds')
  <2>1. fds' = d.fds
    BY <1>46 DEF Created
  <2>2. DOMAIN w.fds \subseteq DOMAIN d.fds /\ \A fd \in DOMAIN w.fds : d.fds[fd] = w.fds[fd]
    BY <1>9 DEF Step
  <2>3. CanSet(w.end, rxon, rxif, d.fds)
    BY <1>8, <2>2, CanStaysSet
  <2> QED
    BY <1>9, <1>10, <1>21, <2>1, <2>3, Zenon
<1> QED
  BY <1>10, <1>11, <1>12, <1>13, <1>14, <1>15

\* What the four attempts leave behind: the new channel holds what is new, each
\* descriptor in one field, and nothing else has changed.
NewSockets(c) ==
  /\ DOMAIN fds \subseteq DOMAIN fds' /\ \A fd \in DOMAIN fds : fds'[fd] = fds[fd]
  /\ \A k \in Field : FdOf(c, k) \in Descriptors =>
       FdOf(c, k) \in DOMAIN fds' \ DOMAIN fds /\ fds'[FdOf(c, k)].family = Family(k)
  /\ \A k, l \in Field : FdOf(c, k) \in Descriptors /\ FdOf(c, k) = FdOf(c, l) => k = l
  /\ \A fd \in DOMAIN fds' \ DOMAIN fds : \E k \in Field : FdOf(c, k) = fd
  /\ c.receiver.m_eth_fd \in Descriptors => fds'[c.receiver.m_eth_fd].ifname = c.ifname

FourSteps(t0, t4, re, te, rc, tc, ifname) ==
  /\ DOMAIN t4 = DOMAIN t0 \cup ({re, te, rc, tc} \cap Descriptors)
  /\ \A d \in DOMAIN t0 : t4[d] = t0[d]
  /\ {re, te, rc, tc} \cap DOMAIN t0 = {}
  /\ re \in Descriptors => re \notin {te, rc, tc}
  /\ te \in Descriptors => te \notin {rc, tc}
  /\ rc \in Descriptors => rc # tc
  /\ re \in Descriptors => t4[re].family = "packet" /\ t4[re].ifname = ifname
  /\ te \in Descriptors => t4[te].family = "packet"
  /\ rc \in Descriptors => t4[rc].family = "can"
  /\ tc \in Descriptors => t4[tc].family = "can"

\* Four attempts in a row open different descriptors.
LEMMA FourAttempts ==
  ASSUME NEW t0 \in Tables, NEW t1 \in Tables, NEW t2 \in Tables, NEW t3 \in Tables,
         NEW t4 \in Tables, NEW re, NEW te, NEW rc, NEW tc, NEW ifname,
         Step(t0, t1, re, "packet", {ifname} \cap Interfaces),
         Step(t1, t2, te, "packet", Others),
         Step(t2, t3, rc, "can", Others),
         Step(t3, t4, tc, "can", Others)
  PROVE  FourSteps(t0, t4, re, te, rc, tc, ifname)
<1>1. /\ DOMAIN t3 = DOMAIN t0 \cup ({re, te, rc} \cap Descriptors)
      /\ {re, te, rc} \cap DOMAIN t0 = {}
      /\ \A d \in DOMAIN t0 : t3[d] = t0[d]
      /\ re \in Descriptors => re \notin {te, rc}
      /\ te \in Descriptors => te # rc
      /\ re \in Descriptors => t3[re].family = "packet" /\ t3[re].ifname = ifname
      /\ te \in Descriptors => t3[te].family = "packet"
      /\ rc \in Descriptors => t3[rc].family = "can"
  BY DEF Step
<1> QED
  BY <1>1 DEF Step, FourSteps

\* The same, seen from the channel.
LEMMA NewSocketsOfChannel ==
  ASSUME NEW c, NEW t1 \in Tables, NEW t2 \in Tables, NEW t3 \in Tables, fds \in Tables,
         Step(fds, t1, c.receiver.m_eth_fd, "packet", {c.ifname} \cap Interfaces),
         Step(t1, t2, c.transmitter.m_eth_fd, "packet", Others),
         Step(t2, t3, CanFd(c.receiver), "can", Others),
         Step(t3, fds', CanFd(c.transmitter), "can", Others), fds' \in Tables
  PROVE  NewSockets(c)
<1> DEFINE re == FdOf(c, "receiver.eth")
           te == FdOf(c, "transmitter.eth")
           rc == FdOf(c, "receiver.can")
           tc == FdOf(c, "transmitter.can")
<1>1. /\ re = c.receiver.m_eth_fd /\ te = c.transmitter.m_eth_fd
      /\ rc = CanFd(c.receiver) /\ tc = CanFd(c.transmitter)
  BY DEF FdOf
<1> HIDE DEF re, te, rc, tc
<1>11. /\ Step(fds, t1, re, "packet", {c.ifname} \cap Interfaces)
       /\ Step(t1, t2, te, "packet", Others)
       /\ Step(t2, t3, rc, "can", Others)
       /\ Step(t3, fds', tc, "can", Others)
  BY <1>1, Zenon
<1>2. FourSteps(fds, fds', re, te, rc, tc, c.ifname)
  BY <1>11, FourAttempts
<1>3. DOMAIN fds' \subseteq Descriptors
  BY TableIsFunction
<1>4. /\ Family("receiver.eth") = "packet" /\ Family("receiver.can") = "can"
      /\ Family("transmitter.eth") = "packet" /\ Family("transmitter.can") = "can"
  BY DEF Family
<1>5. \A k \in Field : FdOf(c, k) \in Descriptors =>
        FdOf(c, k) \in DOMAIN fds' \ DOMAIN fds /\ fds'[FdOf(c, k)].family = Family(k)
  BY <1>2, <1>4 DEF FourSteps, Field, re, te, rc, tc
<1>6. \A k, l \in Field : FdOf(c, k) \in Descriptors /\ FdOf(c, k) = FdOf(c, l) => k = l
  BY <1>2 DEF FourSteps, Field, re, te, rc, tc
<1>7. \A fd \in DOMAIN fds' \ DOMAIN fds : \E k \in Field : FdOf(c, k) = fd
  BY <1>2 DEF FourSteps, Field, re, te, rc, tc
<1> QED
  BY <1>1, <1>2, <1>5, <1>6, <1>7 DEF NewSockets, FourSteps

\* What an iteration of DataRouter::init adds.
LEMMA CreatedSockets ==
  ASSUME SettingsInv, RouterTypes, CreateChannel
  PROVE  \E c \in Channel :
           /\ m_channels' = [n \in DOMAIN m_channels \cup {section} |->
                               IF n = section THEN c ELSE m_channels[n]]
           /\ NewSockets(c) /\ fds' \in Tables /\ CanThere(c.receiver) /\ CanThere(c.transmitter)
           /\ c.receiver.m_is_initialized /\ ~c.receiver.memory =>
                c.receiver.m_eth_fd \in Descriptors
           /\ c.transmitter.m_is_initialized /\ ~c.transmitter.memory =>
                c.transmitter.m_eth_fd \in Descriptors
           /\ AsSet(section, c, fds')
<1>1. fds \in Tables
  BY DEF RouterTypes
<1> QED
  BY <1>1, CreatedChannel, NewSocketsOfChannel

\* A channel whose endpoint has been replaced.
WithReceiver(c, end) == [c EXCEPT !.receiver = end]
WithTransmitter(c, end) == [c EXCEPT !.transmitter = end]

\* The rest of the channel stays.
LEMMA ReplacedEnd ==
  ASSUME NEW c \in Channel, NEW end \in Endpoint
  PROVE  /\ LET w == WithReceiver(c, end)
            IN  /\ w \in Channel /\ w.receiver = end /\ w.transmitter = c.transmitter
                /\ w.ifname = c.ifname
         /\ LET w == WithTransmitter(c, end)
            IN  /\ w \in Channel /\ w.transmitter = end /\ w.receiver = c.receiver
                /\ w.ifname = c.ifname
BY DEF Channel, WithReceiver, WithTransmitter

\* Only the receiver of one channel has changed.
LEMMA ReplacedReceiver ==
  ASSUME NEW D, NEW M \in [D -> Channel], NEW n \in D, NEW end \in Endpoint, NEW after,
         after = [M EXCEPT ![n].receiver = end]
  PROVE  /\ after \in [D -> Channel] /\ after[n].receiver = end
         /\ after[n].transmitter = M[n].transmitter
         /\ after[n].ifname = M[n].ifname /\ \A m \in D : m # n => after[m] = M[m]
<1>1. after = [M EXCEPT ![n] = WithReceiver(@, end)]
  BY Zenon DEF WithReceiver
<1>2. after = [M EXCEPT ![n] = WithReceiver(M[n], end)]
  BY <1>1
<1>3. M[n] \in Channel
  OBVIOUS
<1> DEFINE w == WithReceiver(M[n], end)
<1>4. /\ w \in Channel /\ w.receiver = end /\ w.transmitter = M[n].transmitter
      /\ w.ifname = M[n].ifname
  BY <1>3, ReplacedEnd
<1> HIDE DEF w
<1> QED
  BY <1>2, <1>4 DEF w

\* Only the transmitter of one channel has changed.
LEMMA ReplacedTransmitter ==
  ASSUME NEW D, NEW M \in [D -> Channel], NEW n \in D, NEW end \in Endpoint, NEW after,
         after = [M EXCEPT ![n].transmitter = end]
  PROVE  /\ after \in [D -> Channel] /\ after[n].transmitter = end
         /\ after[n].receiver = M[n].receiver
         /\ after[n].ifname = M[n].ifname /\ \A m \in D : m # n => after[m] = M[m]
<1>1. after = [M EXCEPT ![n] = WithTransmitter(@, end)]
  BY Zenon DEF WithTransmitter
<1>2. after = [M EXCEPT ![n] = WithTransmitter(M[n], end)]
  BY <1>1
<1>3. M[n] \in Channel
  OBVIOUS
<1> DEFINE w == WithTransmitter(M[n], end)
<1>4. w \in Channel /\ w.transmitter = end /\ w.receiver = M[n].receiver /\ w.ifname = M[n].ifname
  BY <1>3, ReplacedEnd
<1> HIDE DEF w
<1> QED
  BY <1>2, <1>4 DEF w

\* stop() of a CanReader or CanWriter.
LEMMA ClosedTable ==
  ASSUME NEW table \in Tables, NEW fd
  PROVE  /\ Closed(table, fd) \in Tables /\ DOMAIN Closed(table, fd) = DOMAIN table \ {fd}
         /\ \A d \in DOMAIN table \ {fd} : Closed(table, fd)[d] = table[d]
<1>1. /\ table = [d \in DOMAIN table |-> table[d]] /\ DOMAIN table \subseteq Descriptors
      /\ \A d \in DOMAIN table : table[d] \in Socket
  BY TableIsFunction
<1>2. Closed(table, fd) = [d \in DOMAIN table \ {fd} |-> table[d]]
  <2>1. DOMAIN table \cap (DOMAIN table \ {fd}) = DOMAIN table \ {fd}
    OBVIOUS
  <2> QED
    BY <2>1, Zenon DEF Closed, Restrict
<1>3. Closed(table, fd) \in [DOMAIN table \ {fd} -> Socket]
  BY <1>1, <1>2
<1>4. DOMAIN table \ {fd} \in SUBSET Descriptors
  BY <1>1
<1>5. Closed(table, fd) \in Tables
  BY <1>3, <1>4, Zenon DEF Tables
<1> QED
  BY <1>2, <1>5

\* It closes the socket that it has, once.
LEMMA StoppedEnd ==
  ASSUME NEW end \in Endpoint, NEW table \in Tables
  PROVE  LET stopped == StopSocketCan(end, table)
         IN  /\ stopped.end \in Endpoint /\ ~stopped.end.can_init
             /\ SameEthernet(stopped.end, end)
             /\ (stopped.end.m_is_can_enabled <=> end.m_is_can_enabled)
             /\ stopped.fds \in Tables
             /\ stopped.fds = IF end.can_init THEN Closed(table, end.m_can_socket) ELSE table
<1> DEFINE e == [end EXCEPT !.can_init = FALSE]
           t == IF end.can_init THEN Closed(table, end.m_can_socket) ELSE table
<1>1. e \in Endpoint /\ ~e.can_init /\ SameEthernet(e, end)
      /\ (e.m_is_can_enabled <=> end.m_is_can_enabled)
  BY CanInitField
<1>2. t \in Tables
  BY ClosedTable
<1>3. StopSocketCan(end, table) = [end |-> e, fds |-> t]
  BY Zenon DEF StopSocketCan
<1> HIDE DEF e
<1>4. /\ StopSocketCan(end, table).end = e /\ StopSocketCan(end, table).fds = t
  BY <1>3
<1> QED
  BY <1>1, <1>2, <1>4, Zenon

-----------------------------------------------------------------------------
(* Every step keeps the types.                                             *)

\* The line that Settings::parse reads is one of the file.
LEMMA SettingsLines ==
  ASSUME SettingsInv, main = "load", ParseLine
  PROVE  files[cursor.file][cursor.line + 1] \in SettingsLine
<1>1. files \in Seq(Seq(SettingsLine))
  BY ConfigsAssumption DEF SettingsInv
<1>2. cursor.file \in 1..Len(files) /\ cursor.line + 1 \in 1..Len(files[cursor.file])
  <2>1. cursor.file \in 1..Len(files)
    BY <1>1 DEF SettingsInv, ParseLine
  <2>2. files[cursor.file] \in Seq(SettingsLine)
    BY <1>1, <2>1
  <2> QED
    BY <2>1, <2>2 DEF SettingsInv, ParseLine
<1> QED
  BY <1>1, <1>2

\* It holds texts.
LEMMA SectionOfLine ==
  ASSUME NEW line \in SettingsLine
  PROVE  IF "section" \in DOMAIN line THEN line.section \in Text
         ELSE line.key \in Text /\ line.value \in Text
<1>1. CASE line \in [section : STRING]
  BY <1>1, Texts
<1>2. CASE line \in [key : STRING, value : STRING]
  BY <1>2, Texts
<1> QED
  BY <1>1, <1>2 DEF SettingsLine

\* Settings::parse keeps texts.
LEMMA ParseLineSettings ==
  ASSUME SettingsInv, ParseLine
  PROVE  SettingsInv'
<1> DEFINE line == files[cursor.file][cursor.line + 1]
<1>1. line \in SettingsLine
  BY SettingsLines DEF ParseLine
<1>2. files' \in Configs
  BY DEF ParseLine, SettingsInv
<1>3. CASE "section" \in DOMAIN line
  <2>1. /\ cursor' = [cursor EXCEPT !.line = @ + 1, !.section = line.section]
        /\ m_settings_map' = m_settings_map
    BY <1>3 DEF ParseLine
  <2>2. line.section \in Text
    BY <1>1, <1>3, SectionOfLine
  <2> DEFINE name == line.section
             next == [cursor EXCEPT !.line = @ + 1]
  <2>3. cursor' = [next EXCEPT !.section = name]
    BY <2>1, Zenon
  <2> HIDE DEF name
  <2>4. next \in [file : Nat \ {0}, line : Nat, section : Text]
    BY DEF SettingsInv
  <2> HIDE DEF next
  <2>5. cursor' \in [file : Nat \ {0}, line : Nat, section : Text]
    BY <2>2, <2>3, <2>4 DEF name
  <2> QED
    BY <1>2, <2>1, <2>5 DEF SettingsInv
<1>4. CASE "section" \notin DOMAIN line
  <2>1. /\ cursor' = [cursor EXCEPT !.line = @ + 1]
        /\ m_settings_map' = Insert(m_settings_map, <<cursor.section, line.key>>, line.value)
    BY <1>4 DEF ParseLine
  <2>2. line.value \in Text
    BY <1>1, <1>4, SectionOfLine
  <2> HIDE DEF line
  <2>3. cursor' \in [file : Nat \ {0}, line : Nat, section : Text]
    BY <2>1 DEF SettingsInv
  <2>4. \A k \in DOMAIN m_settings_map' : m_settings_map'[k] \in Text
    BY <2>1, <2>2 DEF SettingsInv, Insert
  <2> QED
    BY <1>2, <2>3, <2>4 DEF SettingsInv
<1> QED
  BY <1>3, <1>4

\* So does the beginning of the next file.
LEMMA NextFileSettings ==
  ASSUME SettingsInv, NextFile
  PROVE  SettingsInv'
<1>1. files' = files /\ m_settings_map' = m_settings_map
  BY Zenon DEF NextFile
<1>2. CASE cursor' = cursor
  BY <1>1, <1>2, Zenon DEF SettingsInv
<1>3. ASSUME NEW s \in Text, cursor' = [file |-> cursor.file + 1, line |-> 0, section |-> s]
      PROVE  SettingsInv'
  BY <1>1, <1>3 DEF SettingsInv
<1>4. \/ cursor' = cursor
      \/ \E s \in Text : cursor' = [file |-> cursor.file + 1, line |-> 0, section |-> s]
  BY Texts, Zenon DEF NextFile
<1> QED
  BY <1>2, <1>3, <1>4

\* Nothing else touches the settings.
LEMMA NextSettingsInv == SettingsInv /\ [Next]_vars => SettingsInv'
<1> SUFFICES ASSUME SettingsInv, [Next]_vars PROVE SettingsInv'
  OBVIOUS
<1> USE DEF settingsVars, routerVars, loopVars, threadVars, queueVars
<1>1. CASE UNCHANGED vars
  BY <1>1 DEF SettingsInv, vars
<1>2. CASE ParseLine
  BY <1>2, ParseLineSettings
<1>3. CASE NextFile
  BY <1>3, NextFileSettings
<1>4. CASE CreateChannel
  BY <1>4 DEF SettingsInv, CreateChannel
<1>5. CASE CreateDataHandlers
  BY <1>5 DEF SettingsInv, CreateDataHandlers
<1>6. CASE StartDm
  BY <1>6 DEF SettingsInv, StartDm, StartThread
<1>7. CASE StartAgg
  BY <1>7 DEF SettingsInv, StartAgg, StartThread
<1>8. CASE Started
  BY <1>8 DEF SettingsInv, Started
<1>9. CASE StopDm
  BY <1>9 DEF SettingsInv, StopDm, ClearFlag
<1>10. CASE JoinDm
  BY <1>10 DEF SettingsInv, JoinDm, JoinOrDetach
<1>11. CASE StopAgg
  BY <1>11 DEF SettingsInv, StopAgg, ClearFlag
<1>12. CASE JoinAgg
  BY <1>12 DEF SettingsInv, JoinAgg, JoinOrDetach
<1>13. CASE JoinReceiver
  BY <1>13 DEF SettingsInv, JoinReceiver, AfterReceiver
<1>14. CASE JoinTransmitter
  BY <1>14 DEF SettingsInv, JoinTransmitter
<1>15. CASE ClearChannels
  BY <1>15 DEF SettingsInv, ClearChannels
<1>16. ASSUME NEW n \in todo, StartChannel(n) PROVE SettingsInv'
  BY <1>16 DEF SettingsInv, StartChannel
<1>17. ASSUME NEW n \in todo, StopReceiver(n) PROVE SettingsInv'
  BY <1>17 DEF SettingsInv, StopReceiver
<1>18. CASE CallStart
  BY <1>18 DEF SettingsInv, CallStart
<1>19. CASE CallStop
  BY <1>19 DEF SettingsInv, CallStop
<1>20. ASSUME NEW n \in DOMAIN rx, ReceiverExit(n) PROVE SettingsInv'
  BY <1>20 DEF SettingsInv, ReceiverExit
<1>21. ASSUME NEW n \in DOMAIN rx, TransmitterExit(n) PROVE SettingsInv'
  BY <1>21 DEF SettingsInv, TransmitterExit
<1>22. ASSUME NEW t \in Queue, QueueThreadExit(t) PROVE SettingsInv'
  BY <1>22 DEF SettingsInv, QueueThreadExit
<1> QED
  BY <1>1, <1>2, <1>3, <1>4, <1>5, <1>6, <1>7, <1>8, <1>9, <1>10, <1>11, <1>12, <1>13, <1>14,
     <1>15, <1>16, <1>17, <1>18, <1>19, <1>20, <1>21, <1>22 DEF Next, Main, ChannelThreads,
     QueueThreads, Queue

\* A callback is added to a channel, and nothing else is changed.
LEMMA RegisteredChannel ==
  ASSUME NEW c \in Channel
  PROVE  /\ Registered(c) \in Channel /\ Registered(c).receiver = c.receiver
         /\ Registered(c).transmitter = c.transmitter /\ Registered(c).ifname = c.ifname
BY DEF Registered, Channel

\* What stop() makes of the channel that it visits.
ReceiverStopped(M, table) ==
  LET c == m_channels[current]
  IN  /\ M \in [DOMAIN m_channels -> Channel] /\ table \in Tables
      /\ \A n \in DOMAIN m_channels : n # current => M[n] = m_channels[n]
      /\ M[current].ifname = c.ifname /\ M[current].transmitter = c.transmitter
      /\ SameEthernet(M[current].receiver, c.receiver)
      /\ (M[current].receiver.m_is_can_enabled <=> c.receiver.m_is_can_enabled)
      /\ c.receiver.m_is_can_enabled => ~M[current].receiver.can_init
      /\ ~c.receiver.m_is_can_enabled => M[current].receiver = c.receiver
      /\ table = IF c.receiver.m_is_can_enabled /\ c.receiver.can_init
                 THEN Closed(fds, c.receiver.m_can_socket) ELSE fds
TransmitterStopped(M, table) ==
  LET c == m_channels[current]
  IN  /\ M \in [DOMAIN m_channels -> Channel] /\ table \in Tables
      /\ \A n \in DOMAIN m_channels : n # current => M[n] = m_channels[n]
      /\ M[current].ifname = c.ifname /\ M[current].receiver = c.receiver
      /\ SameEthernet(M[current].transmitter, c.transmitter)
      /\ ~M[current].transmitter.can_init
      /\ table = IF c.transmitter.can_init
                 THEN Closed(fds, c.transmitter.m_can_socket) ELSE fds

\* The rest of Receiver::stop.
LEMMA JoinReceiverStops ==
  ASSUME RouterTypes, JoinReceiver
  PROVE  ReceiverStopped(m_channels', fds')
<1> DEFINE c == m_channels[current]
           stopped == StopSocketCan(c.receiver, fds)
<1>1. /\ current \in DOMAIN m_channels /\ m_channels \in [DOMAIN m_channels -> Channel]
      /\ fds \in Tables
  BY DEF RouterTypes, JoinReceiver
<1>2. c \in Channel /\ c.receiver \in Endpoint
  BY <1>1 DEF Channel
<1>3. CASE c.receiver.m_is_can_enabled
  <2>1. m_channels' = [m_channels EXCEPT ![current].receiver = stopped.end] /\ fds' = stopped.fds
    BY <1>3 DEF JoinReceiver, AfterReceiver
  <2>2. /\ stopped.end \in Endpoint /\ ~stopped.end.can_init
        /\ SameEthernet(stopped.end, c.receiver)
        /\ (stopped.end.m_is_can_enabled <=> c.receiver.m_is_can_enabled)
        /\ stopped.fds \in Tables
        /\ stopped.fds = IF c.receiver.can_init
                         THEN Closed(fds, c.receiver.m_can_socket) ELSE fds
    BY <1>1, <1>2, StoppedEnd
  <2> HIDE DEF stopped
  <2>3. /\ m_channels' \in [DOMAIN m_channels -> Channel]
        /\ m_channels'[current].receiver = stopped.end
        /\ m_channels'[current].transmitter = c.transmitter
        /\ m_channels'[current].ifname = c.ifname
        /\ \A n \in DOMAIN m_channels : n # current => m_channels'[n] = m_channels[n]
    BY <1>1, <2>1, <2>2, ReplacedReceiver
  <2> QED
    BY <1>3, <2>1, <2>2, <2>3 DEF ReceiverStopped
<1>4. CASE ~c.receiver.m_is_can_enabled
  <2>1. m_channels' = m_channels /\ fds' = fds
    BY <1>4 DEF JoinReceiver, AfterReceiver
  <2> QED
    BY <1>1, <1>4, <2>1 DEF ReceiverStopped, SameEthernet
<1> QED
  BY <1>3, <1>4

\* The rest of Transmitter::stop.
LEMMA JoinTransmitterStops ==
  ASSUME RouterTypes, JoinTransmitter
  PROVE  TransmitterStopped(m_channels', fds')
<1> DEFINE c == m_channels[current]
           stopped == StopSocketCan(c.transmitter, fds)
<1>1. /\ current \in DOMAIN m_channels /\ m_channels \in [DOMAIN m_channels -> Channel]
      /\ fds \in Tables
  BY DEF RouterTypes, JoinTransmitter
<1>2. c \in Channel /\ c.transmitter \in Endpoint
  BY <1>1 DEF Channel
<1>3. m_channels' = [m_channels EXCEPT ![current].transmitter = stopped.end] /\ fds' = stopped.fds
  BY DEF JoinTransmitter
<1>4. /\ stopped.end \in Endpoint /\ ~stopped.end.can_init
      /\ SameEthernet(stopped.end, c.transmitter) /\ stopped.fds \in Tables
      /\ stopped.fds = IF c.transmitter.can_init
                       THEN Closed(fds, c.transmitter.m_can_socket) ELSE fds
  BY <1>1, <1>2, StoppedEnd
<1> HIDE DEF stopped
<1>5. /\ m_channels' \in [DOMAIN m_channels -> Channel]
      /\ m_channels'[current].transmitter = stopped.end
      /\ m_channels'[current].receiver = c.receiver /\ m_channels'[current].ifname = c.ifname
      /\ \A n \in DOMAIN m_channels : n # current => m_channels'[n] = m_channels[n]
  BY <1>1, <1>3, <1>4, ReplacedTransmitter
<1> QED
  BY <1>3, <1>4, <1>5 DEF TransmitterStopped

\* Both keep the types of the router.
LEMMA JoinReceiverTypes ==
  ASSUME RouterTypes, JoinReceiver
  PROVE  RouterTypes'
<1>1. m_channels' \in [DOMAIN m_channels -> Channel] /\ fds' \in Tables
  BY JoinReceiverStops DEF ReceiverStopped
<1>2. UNCHANGED <<section, current, todo>> /\ main = "joinRx"
  BY DEF JoinReceiver, AfterReceiver, settingsVars, loopVars
<1> QED
  BY <1>1, <1>2 DEF RouterTypes

\* The transmitter's part.
LEMMA JoinTransmitterTypes ==
  ASSUME RouterTypes, JoinTransmitter
  PROVE  RouterTypes'
<1>1. m_channels' \in [DOMAIN m_channels -> Channel] /\ fds' \in Tables
  BY JoinTransmitterStops DEF TransmitterStopped
<1>2. UNCHANGED <<section, current, todo>> /\ main = "joinTx"
  BY DEF JoinTransmitter, settingsVars, loopVars
<1> QED
  BY <1>1, <1>2 DEF RouterTypes

\* Every step keeps the types of the router,
LEMMA NextRouterTypes == RouterTypes /\ SettingsInv /\ [Next]_vars => RouterTypes'
<1> SUFFICES ASSUME RouterTypes, SettingsInv, [Next]_vars PROVE RouterTypes'
  OBVIOUS
<1> USE DEF settingsVars, routerVars, loopVars, threadVars, queueVars
<1>1. CASE UNCHANGED vars
  BY <1>1 DEF RouterTypes, vars
<1>2. CASE ParseLine
  BY <1>2 DEF RouterTypes, ParseLine
<1>3. CASE NextFile
  BY <1>3 DEF RouterTypes, NextFile
<1>4. CASE CreateChannel
  <2>1. PICK c \in Channel :
          m_channels' = [n \in DOMAIN m_channels \cup {section} |->
                           IF n = section THEN c ELSE m_channels[n]]
    BY <1>4, CreatedSockets
  <2>2. fds' \in Tables
    BY <1>4, CreatedSockets
  <2>3. section' \in Numbers
    <3>1. section + 1 \in Int
      BY DEF RouterTypes, Numbers
    <3> QED
      BY <1>4, <3>1, ByteRange DEF CreateChannel, NextSection
  <2>4. UNCHANGED <<current, todo, main>> /\ main = "init"
    BY <1>4 DEF RouterTypes, CreateChannel
  <2> QED
    BY <2>1, <2>2, <2>3, <2>4 DEF RouterTypes
<1>5. CASE CreateDataHandlers
  <2>1. m_channels' = [n \in DOMAIN m_channels |-> Registered(m_channels[n])]
    BY <1>5 DEF RouterTypes, CreateDataHandlers
  <2>2. \A n \in DOMAIN m_channels : Registered(m_channels[n]) \in Channel
    BY RegisteredChannel DEF RouterTypes
  <2>3. UNCHANGED <<section, current, fds, todo>> /\ main' = "idle"
    BY <1>5 DEF RouterTypes, CreateDataHandlers
  <2> HIDE DEF Registered
  <2> QED
    BY <2>1, <2>2, <2>3 DEF RouterTypes
<1>6. CASE StartDm
  BY <1>6 DEF RouterTypes, StartDm, StartThread
<1>7. CASE StartAgg
  BY <1>7 DEF RouterTypes, StartAgg, StartThread
<1>8. CASE Started
  BY <1>8 DEF RouterTypes, Started
<1>9. CASE StopDm
  BY <1>9 DEF RouterTypes, StopDm, ClearFlag
<1>10. CASE JoinDm
  BY <1>10 DEF RouterTypes, JoinDm, JoinOrDetach
<1>11. CASE StopAgg
  BY <1>11 DEF RouterTypes, StopAgg, ClearFlag
<1>12. CASE JoinAgg
  BY <1>12 DEF RouterTypes, JoinAgg, JoinOrDetach
<1>13. CASE JoinReceiver
  BY <1>13, JoinReceiverTypes
<1>14. CASE JoinTransmitter
  BY <1>14, JoinTransmitterTypes
<1>15. CASE ClearChannels
  BY <1>15 DEF RouterTypes, ClearChannels
<1>16. ASSUME NEW n \in todo, StartChannel(n) PROVE RouterTypes'
  BY <1>16 DEF RouterTypes, StartChannel
<1>17. ASSUME NEW n \in todo, StopReceiver(n) PROVE RouterTypes'
  BY <1>17 DEF RouterTypes, StopReceiver
<1>18. CASE CallStart
  BY <1>18 DEF RouterTypes, CallStart
<1>19. CASE CallStop
  BY <1>19 DEF RouterTypes, CallStop
<1>20. ASSUME NEW n \in DOMAIN rx, ReceiverExit(n) PROVE RouterTypes'
  BY <1>20 DEF RouterTypes, ReceiverExit
<1>21. ASSUME NEW n \in DOMAIN rx, TransmitterExit(n) PROVE RouterTypes'
  BY <1>21 DEF RouterTypes, TransmitterExit
<1>22. ASSUME NEW t \in Queue, QueueThreadExit(t) PROVE RouterTypes'
  BY <1>22 DEF RouterTypes, QueueThreadExit
<1> QED
  BY <1>1, <1>2, <1>3, <1>4, <1>5, <1>6, <1>7, <1>8, <1>9, <1>10, <1>11, <1>12, <1>13, <1>14,
     <1>15, <1>16, <1>17, <1>18, <1>19, <1>20, <1>21, <1>22 DEF Next, Main, ChannelThreads,
     QueueThreads, Queue

\* and of the threads.
LEMMA NextThreadTypes == ThreadTypes /\ [Next]_vars => ThreadTypes'
<1> SUFFICES ASSUME ThreadTypes, [Next]_vars PROVE ThreadTypes'
  OBVIOUS
<1> USE DEF ThreadTypes, Life, settingsVars, routerVars, loopVars, threadVars, queueVars
<1>1. CASE UNCHANGED vars
  BY <1>1 DEF vars
<1>2. CASE ParseLine
  BY <1>2 DEF ParseLine
<1>3. CASE NextFile
  BY <1>3 DEF NextFile
<1>4. CASE CreateChannel
  BY <1>4 DEF CreateChannel
<1>5. CASE CreateDataHandlers
  BY <1>5 DEF CreateDataHandlers
<1>6. CASE StartDm
  BY <1>6 DEF StartDm, StartThread
<1>7. CASE StartAgg
  BY <1>7 DEF StartAgg, StartThread
<1>8. CASE Started
  BY <1>8 DEF Started
<1>9. CASE StopDm
  BY <1>9 DEF StopDm, ClearFlag
<1>10. CASE JoinDm
  BY <1>10 DEF JoinDm, JoinOrDetach
<1>11. CASE StopAgg
  BY <1>11 DEF StopAgg, ClearFlag
<1>12. CASE JoinAgg
  BY <1>12 DEF JoinAgg, JoinOrDetach
<1>13. CASE JoinReceiver
  BY <1>13 DEF JoinReceiver, AfterReceiver
<1>14. CASE JoinTransmitter
  BY <1>14 DEF JoinTransmitter
<1>15. CASE ClearChannels
  BY <1>15 DEF ClearChannels
<1>16. ASSUME NEW n \in todo, StartChannel(n) PROVE ThreadTypes'
  BY <1>16 DEF StartChannel
<1>17. ASSUME NEW n \in todo, StopReceiver(n) PROVE ThreadTypes'
  BY <1>17 DEF StopReceiver
<1>18. CASE CallStart
  BY <1>18 DEF CallStart
<1>19. CASE CallStop
  BY <1>19 DEF CallStop
<1>20. ASSUME NEW n \in DOMAIN rx, ReceiverExit(n) PROVE ThreadTypes'
  BY <1>20 DEF ReceiverExit
<1>21. ASSUME NEW n \in DOMAIN rx, TransmitterExit(n) PROVE ThreadTypes'
  BY <1>21 DEF TransmitterExit
<1>22. ASSUME NEW t \in Queue, QueueThreadExit(t) PROVE ThreadTypes'
  BY <1>22 DEF QueueThreadExit
<1> QED
  BY <1>1, <1>2, <1>3, <1>4, <1>5, <1>6, <1>7, <1>8, <1>9, <1>10, <1>11, <1>12, <1>13, <1>14,
     <1>15, <1>16, <1>17, <1>18, <1>19, <1>20, <1>21, <1>22 DEF Next, Main, ChannelThreads,
     QueueThreads, Queue

-----------------------------------------------------------------------------
(* The theorems about types and about calls in turn.                       *)

\* The types hold at first,
LEMMA InitTypeInv == Init => TypeInv
<1> SUFFICES ASSUME Init PROVE TypeInv
  OBVIOUS
<1>1. TurnTypes
  <2>1. /\ main = "load" /\ calls = <<>> /\ queue_thread = [t \in Queue |-> "none"]
        /\ m_is_running = [t \in Queue |-> FALSE]
    BY Zenon DEF Init, Queue
  <2> QED
    BY <2>1, ConfigsAssumption DEF TurnTypes, Locations, InSetup, Life
<1>2. SettingsInv
  <2>1. PICK s \in Text : cursor = [file |-> 1, line |-> 0, section |-> s]
    BY Texts, Zenon DEF Init
  <2>2. files \in Configs /\ m_settings_map = <<>>
    BY Zenon DEF Init
  <2> QED
    BY <2>1, <2>2 DEF SettingsInv
<1>3. RouterTypes
  <2>1. /\ section = 1 /\ m_channels = <<>> /\ fds = <<>> /\ todo = {} /\ current = 0
        /\ main = "load"
    BY Zenon DEF Init
  <2>2. fds \in [{} -> Socket]
    BY <2>1
  <2>3. {} \in SUBSET Descriptors
    OBVIOUS
  <2>4. fds \in Tables
    BY <2>2, <2>3, Zenon DEF Tables
  <2> QED
    BY <2>1, <2>4, ConfigsAssumption DEF RouterTypes, Numbers
<1>4. ThreadTypes
  <2>1. rx = <<>> /\ tx = <<>> /\ rx_running = <<>> /\ tx_running = <<>>
    BY Zenon DEF Init
  <2> QED
    BY <2>1 DEF ThreadTypes
<1> QED
  BY <1>1, <1>2, <1>3, <1>4 DEF TypeInv

\* and after every step.
LEMMA NextTypeInv == TypeInv /\ [Next]_vars => TypeInv'
BY NextTurnTypes, NextSettingsInv, NextRouterTypes, NextThreadTypes DEF TypeInv

\* The type that the model gives to the history of calls.
LEMMA BoundedCalls ==
  ASSUME NEW S, NEW s \in Seq(S), NEW n \in Nat, Len(s) <= n
  PROVE  s \in BoundedSeq(S, n)
<1>1. s \in [1..Len(s) -> S] /\ Len(s) \in 0..n
  OBVIOUS
<1> QED
  BY <1>1, Zenon DEF BoundedSeq, SeqOf

\* The invariant gives every variable its type.
LEMMA TypeInvIsTypeOK == TypeInv => TypeOK
<1> SUFFICES ASSUME TypeInv PROVE TypeOK
  OBVIOUS
<1>1. files \in Configs /\ cursor \in [file : Nat, line : Nat, section : Text]
  BY DEF TypeInv, SettingsInv
<1>2. main \in {"load", "init", "idle", "startDm", "startAgg", "start", "stopDm", "joinDm",
                "stopAgg", "joinAgg", "stop", "joinRx", "joinTx", "terminated"}
  BY DEF TypeInv, TurnTypes, Locations, InSetup, InStart, InStop
<1>3. /\ section \in 0..ByteModulus - 1 /\ current \in 0..ByteModulus - 1
      /\ DOMAIN m_channels \subseteq 0..ByteModulus - 1
      /\ \A n \in DOMAIN m_channels : m_channels[n] \in Channel
      /\ todo \subseteq DOMAIN m_channels
  BY DEF TypeInv, RouterTypes, Numbers
<1>4. DOMAIN fds \subseteq Descriptors /\ \A fd \in DOMAIN fds : fds[fd] \in Socket
  BY TableIsFunction DEF TypeInv, RouterTypes
<1>5. /\ rx \in [DOMAIN rx -> Life] /\ tx \in [DOMAIN rx -> Life]
      /\ rx_running \in [DOMAIN rx -> BOOLEAN] /\ tx_running \in [DOMAIN rx -> BOOLEAN]
  BY DEF TypeInv, ThreadTypes
<1>6. queue_thread \in [{"dm", "agg"} -> Life] /\ m_is_running \in [{"dm", "agg"} -> BOOLEAN]
  BY DEF TypeInv, TurnTypes, Queue
<1>7. calls \in BoundedSeq({"start", "stop"}, MaxCalls)
  BY BoundedCalls, ConfigsAssumption DEF TypeInv, TurnTypes
<1> QED
  BY <1>1, <1>2, <1>3, <1>4, <1>5, <1>6, <1>7, Zenon DEF TypeOK

\* Whatever the files hold and whichever call fails, every variable keeps its type.
THEOREM Types == Spec => []TypeOK
<1>1. Spec => []TypeInv
  BY InitTypeInv, NextTypeInv, PTL DEF Spec
<1> QED
  BY <1>1, TypeInvIsTypeOK, PTL

\* Before the first call.
LEMMA InitTurnInv == Init => TurnInv
<1> SUFFICES ASSUME Init PROVE TurnInv
  OBVIOUS
<1>1. TurnTypes
  BY InitTypeInv DEF TypeInv
<1>2. main = "load" /\ calls = <<>> /\ queue_thread = [t \in Queue |-> "none"]
  BY Zenon DEF Init, Queue
<1> QED
  BY <1>1, <1>2 DEF TurnInv, InSetup, Threads, Queue

\* The invariant shows who has ended the program.
LEMMA TurnInvShows == TurnInv => TerminatedOnlyOutOfTurn
<1> SUFFICES ASSUME TurnInv PROVE TerminatedOnlyOutOfTurn
  OBVIOUS
<1>1. DOMAIN calls = 1..Len(calls)
  BY DEF TurnInv, TurnTypes
<1>2. InTurn <=> InTurnUpTo(Len(calls))
  BY <1>1 DEF InTurn, InTurnUpTo
<1> QED
  BY <1>2 DEF TurnInv, TerminatedOnlyOutOfTurn

\* Calls in turn never end the program, however many rounds, and no other sequence of
\* calls returns: start() and stop() of the data manager and of the aggregator.
THEOREM OnlyOutOfTurn == Spec => []TerminatedOnlyOutOfTurn
<1>1. TypeInv /\ TurnInv /\ [Next]_vars => TypeInv' /\ TurnInv'
  BY NextTypeInv, NextTurnInv DEF TypeInv
<1>2. Spec => [](TypeInv /\ TurnInv)
  BY <1>1, InitTypeInv, InitTurnInv, PTL DEF Spec
<1> QED
  BY <1>2, TurnInvShows, PTL
=============================================================================
