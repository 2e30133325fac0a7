------------------------ MODULE ChannelSockets_proofs ------------------------
(***************************************************************************)
(* Proofs about the channels of ChannelSetup, their sockets and threads,   *)
(* for all settings files and whichever call fails: who holds which        *)
(* descriptor, from the constructors of the channels to the return of      *)
(* stop(), and that the channels are those that the files ask for.         *)
(***************************************************************************)
EXTENDS ChannelSetup_proofs, FiniteSetTheorems

-----------------------------------------------------------------------------
(* The invariant.                                                          *)

\* With 255 channels the uint8_t of the loop wraps, and channels are overwritten.
Wraps == NumChannels = ByteModulus - 1

\* What is held is open, and of the right family; no two fields hold the same; and nothing
\* else is open, but for the Ethernet sockets when the channels are gone.
HeldIsOpen ==
  \A n \in DOMAIN m_channels : \A k \in Field :
    LET fd == FdOf(m_channels[n], k)
    IN  fd \in Descriptors => fd \in DOMAIN fds /\ fds[fd].family = Family(k)
HeldOnce ==
  \A n, m \in DOMAIN m_channels : \A k, l \in Field :
    (/\ FdOf(m_channels[n], k) \in Descriptors
     /\ FdOf(m_channels[n], k) = FdOf(m_channels[m], l)) => n = m /\ k = l
OpenIsHeld ==
  ~Wraps \/ main = "load" =>
    \A fd \in DOMAIN fds :
      \/ \E n \in DOMAIN m_channels : \E k \in Field : FdOf(m_channels[n], k) = fd
      \/ fds[fd].family = "packet" /\ DOMAIN m_channels = {} /\ main \notin InSetup

HeldInv == HeldIsOpen /\ HeldOnce /\ OpenIsHeld

\* An endpoint with the Ethernet socket that it believes to have.
EthernetInv ==
  \A n \in DOMAIN m_channels :
    LET c == m_channels[n] IN
    /\ c.receiver.m_is_initialized /\ ~c.receiver.memory =>
         c.receiver.m_eth_fd \in Descriptors /\ fds[c.receiver.m_eth_fd].ifname = c.ifname
    /\ c.transmitter.m_is_initialized /\ ~c.transmitter.memory =>
         c.transmitter.m_eth_fd \in Descriptors

\* The loop over the sections.
SetupInv ==
  /\ main = "load" => DOMAIN m_channels = {} /\ fds = <<>> /\ section = 1
  /\ main \in InSetup => DOMAIN rx = {}
  /\ main = "init" /\ ~Wraps => \A n \in DOMAIN m_channels : n < section
  /\ main \notin InSetup => ~Wraps /\ DOMAIN m_channels \subseteq DOMAIN rx

\* How far stop() has come with each channel.
ToStop == IF main \in {"stop", "joinRx", "joinTx"} THEN todo ELSE DOMAIN m_channels
Stopping == IF main \in {"joinRx", "joinTx"} THEN {current} ELSE {}
ThreadInv ==
  /\ \A n \in DOMAIN m_channels :
       /\ n \in ToStop \/ (n \in Stopping /\ main = "joinRx") => CanThere(m_channels[n].receiver)
       /\ n \in ToStop \/ n \in Stopping => CanThere(m_channels[n].transmitter)
       /\ n \notin ToStop /\ ~(n \in Stopping /\ main = "joinRx") =>
            ~m_channels[n].receiver.can_init
       /\ n \notin ToStop /\ n \notin Stopping => ~m_channels[n].transmitter.can_init
  /\ \A n \in DOMAIN rx :
       /\ rx[n] # "none" => /\ n \in DOMAIN m_channels
                            /\ n \in ToStop \/ (n \in Stopping /\ main = "joinRx")
                            /\ m_channels[n].receiver.m_is_initialized
       /\ tx[n] # "none" => /\ n \in DOMAIN m_channels /\ n \in ToStop \cup Stopping
                            /\ m_channels[n].transmitter.m_is_can_enabled
  /\ main = "joinTx" => m_channels[current].transmitter.m_is_can_enabled

\* The first stop() takes the channels away, for good.
Gone == DOMAIN m_channels = {}
StoppedInv ==
  /\ main = "idle" /\ Len(calls) >= 2 => Gone
  /\ Len(calls) >= 3 => Gone

-----------------------------------------------------------------------------
(* Who holds which descriptor.                                             *)

\* The four fields, one by one.
LEMMA FdOfChannel ==
  ASSUME NEW c
  PROVE  /\ FdOf(c, "receiver.eth") = c.receiver.m_eth_fd
         /\ FdOf(c, "receiver.can") = CanFd(c.receiver)
         /\ FdOf(c, "transmitter.eth") = c.transmitter.m_eth_fd
         /\ FdOf(c, "transmitter.can") = CanFd(c.transmitter)
BY DEF FdOf

\* Their families.
LEMMA FamilyOfField ==
  /\ Family("receiver.eth") = "packet" /\ Family("receiver.can") = "can"
  /\ Family("transmitter.eth") = "packet" /\ Family("transmitter.can") = "can"
BY DEF Family

\* A step after which the fields hold what they held.
LEMMA HeldBySameFields ==
  ASSUME HeldInv, UNCHANGED fds, DOMAIN m_channels' = DOMAIN m_channels,
         \A n \in DOMAIN m_channels : \A k \in Field :
           FdOf(m_channels'[n], k) = FdOf(m_channels[n], k),
         ~Wraps' \/ main' = "load" => ~Wraps \/ main = "load",
         main' \in InSetup => main \in InSetup
  PROVE  HeldInv'
BY DEF HeldInv, HeldIsOpen, HeldOnce, OpenIsHeld

\* A step that adds a channel with new descriptors, or overwrites one.
LEMMA HeldByOneMore ==
  ASSUME HeldInv, fds \in Tables, NEW c, NewSockets(c),
         m_channels' = [n \in DOMAIN m_channels \cup {section} |->
                          IF n = section THEN c ELSE m_channels[n]],
         main = "init", main' = "init", UNCHANGED Wraps,
         ~Wraps => section \notin DOMAIN m_channels
  PROVE  HeldInv'
<1>0. DOMAIN fds \subseteq Descriptors
  BY TableIsFunction
<1>1. /\ DOMAIN m_channels' = DOMAIN m_channels \cup {section} /\ m_channels'[section] = c
      /\ \A n \in DOMAIN m_channels \ {section} : m_channels'[n] = m_channels[n]
  OBVIOUS
<1>2. /\ DOMAIN fds \subseteq DOMAIN fds' /\ \A fd \in DOMAIN fds : fds'[fd] = fds[fd]
      /\ \A k \in Field : FdOf(c, k) \in Descriptors =>
           FdOf(c, k) \in DOMAIN fds' \ DOMAIN fds /\ fds'[FdOf(c, k)].family = Family(k)
      /\ \A k, l \in Field : FdOf(c, k) \in Descriptors /\ FdOf(c, k) = FdOf(c, l) => k = l
      /\ \A fd \in DOMAIN fds' \ DOMAIN fds : \E k \in Field : FdOf(c, k) = fd
  BY DEF NewSockets
<1>3. HeldIsOpen'
  BY <1>1, <1>2 DEF HeldInv, HeldIsOpen
<1>4. HeldOnce'
  <2>1. SUFFICES ASSUME NEW n \in DOMAIN m_channels', NEW m \in DOMAIN m_channels',
                        NEW k \in Field, NEW l \in Field,
                        FdOf(m_channels'[n], k) \in Descriptors,
                        FdOf(m_channels'[n], k) = FdOf(m_channels'[m], l)
                 PROVE  n = m /\ k = l
    BY DEF HeldOnce
  <2>2. \A i \in DOMAIN m_channels \ {section} : \A j \in Field :
          FdOf(m_channels'[i], j) \in Descriptors => FdOf(m_channels'[i], j) \in DOMAIN fds
    BY <1>1 DEF HeldInv, HeldIsOpen
  <2>3. \A j \in Field :
          FdOf(m_channels'[section], j) \in Descriptors =>
            FdOf(m_channels'[section], j) \notin DOMAIN fds
    BY <1>1, <1>2
  <2>4. CASE n = section /\ m = section
    BY <1>1, <1>2, <2>1, <2>4
  <2>5. CASE n # section /\ m # section
    BY <1>1, <2>1, <2>5 DEF HeldInv, HeldOnce
  <2> QED
    BY <1>1, <2>1, <2>2, <2>3, <2>4, <2>5
<1>5. OpenIsHeld'
  <2>1. SUFFICES ASSUME ~Wraps, NEW fd \in DOMAIN fds'
                 PROVE  \E n \in DOMAIN m_channels' : \E k \in Field :
                          FdOf(m_channels'[n], k) = fd
    BY DEF OpenIsHeld
  <2>2. CASE fd \in DOMAIN fds
    <3>1. PICK n \in DOMAIN m_channels, k \in Field : FdOf(m_channels[n], k) = fd
      BY <2>1, <2>2 DEF HeldInv, OpenIsHeld, InSetup
    <3>2. n # section
      BY <2>1
    <3> QED
      BY <1>1, <3>1, <3>2
  <2>3. CASE fd \notin DOMAIN fds
    BY <1>1, <1>2, <2>1, <2>3
  <2> QED
    BY <2>2, <2>3
<1> QED
  BY <1>3, <1>4, <1>5 DEF HeldInv

\* A step that closes what one field holds, and clears the field.
LEMMA HeldByOneLess ==
  ASSUME HeldInv, fds \in Tables, NEW c \in DOMAIN m_channels, NEW f \in Field,
         DOMAIN m_channels' = DOMAIN m_channels,
         \A n \in DOMAIN m_channels : \A k \in Field :
           n # c \/ k # f => FdOf(m_channels'[n], k) = FdOf(m_channels[n], k),
         FdOf(m_channels'[c], f) \notin Descriptors,
         fds' = Closed(fds, FdOf(m_channels[c], f)),
         main \notin InSetup, main' \notin InSetup, UNCHANGED Wraps
  PROVE  HeldInv'
<1> DEFINE old == FdOf(m_channels[c], f)
<1>1. /\ DOMAIN fds' = DOMAIN fds \ {old} /\ DOMAIN fds \subseteq Descriptors
      /\ \A d \in DOMAIN fds \ {old} : fds'[d] = fds[d]
  BY ClosedTable, TableIsFunction
<1> HIDE DEF old
<1>2. ASSUME NEW n \in DOMAIN m_channels, NEW k \in Field, FdOf(m_channels'[n], k) \in Descriptors
      PROVE  (n # c \/ k # f) /\ FdOf(m_channels'[n], k) = FdOf(m_channels[n], k)
  BY <1>2
<1>3. HeldIsOpen'
  <2>1. SUFFICES ASSUME NEW n \in DOMAIN m_channels, NEW k \in Field,
                        FdOf(m_channels'[n], k) \in Descriptors
                 PROVE  /\ FdOf(m_channels'[n], k) \in DOMAIN fds'
                        /\ fds'[FdOf(m_channels'[n], k)].family = Family(k)
    BY DEF HeldIsOpen
  <2>2. (n # c \/ k # f) /\ FdOf(m_channels'[n], k) = FdOf(m_channels[n], k)
    BY <1>2, <2>1
  <2>3. FdOf(m_channels[n], k) # old
    BY <2>1, <2>2 DEF HeldInv, HeldOnce, old
  <2>4. FdOf(m_channels[n], k) \in DOMAIN fds /\ fds[FdOf(m_channels[n], k)].family = Family(k)
    BY <2>1, <2>2 DEF HeldInv, HeldIsOpen
  <2> QED
    BY <1>1, <2>2, <2>3, <2>4
<1>4. HeldOnce'
  BY <1>2 DEF HeldInv, HeldOnce
<1>5. OpenIsHeld'
  <2>1. SUFFICES ASSUME ~Wraps \/ main' = "load", NEW fd \in DOMAIN fds'
                 PROVE  \/ \E n \in DOMAIN m_channels : \E k \in Field :
                             FdOf(m_channels'[n], k) = fd
                        \/ fds'[fd].family = "packet" /\ DOMAIN m_channels = {}
    BY DEF OpenIsHeld
  <2>2. fd \in DOMAIN fds /\ fd # old /\ fds'[fd] = fds[fd]
    BY <1>1
  <2>3. PICK n \in DOMAIN m_channels, k \in Field : FdOf(m_channels[n], k) = fd
    BY <2>1, <2>2 DEF HeldInv, OpenIsHeld, InSetup
  <2>4. n # c \/ k # f
    BY <2>2, <2>3 DEF old
  <2> QED
    BY <2>3, <2>4
<1> QED
  BY <1>3, <1>4, <1>5 DEF HeldInv

\* close() of what is not open.
LEMMA ClosedNothing ==
  ASSUME NEW table \in Tables, NEW fd, fd \notin DOMAIN table
  PROVE  Closed(table, fd) = table
<1>1. table = [d \in DOMAIN table |-> table[d]]
  BY TableIsFunction
<1>2. DOMAIN table \ {fd} = DOMAIN table
  OBVIOUS
<1>3. Closed(table, fd) = [d \in DOMAIN table |-> table[d]]
  BY <1>2, Zenon DEF Closed, Restrict
<1> QED
  BY <1>1, <1>3

\* Receiver::stop closes the descriptor of one field, after which the field is clear.
LEMMA JoinReceiverHeld ==
  ASSUME RouterTypes, HeldInv, SetupInv, ThreadInv, JoinReceiver
  PROVE  HeldInv'
<1> DEFINE c == m_channels[current]
           d == m_channels'[current]
<1>1. /\ main = "joinRx" /\ current \in DOMAIN m_channels /\ fds \in Tables
      /\ m_channels \in [DOMAIN m_channels -> Channel] /\ DOMAIN fds \subseteq Descriptors
  BY TableIsFunction DEF RouterTypes, JoinReceiver
<1>2. /\ UNCHANGED <<m_settings_map, section>> /\ main' \in {"joinTx", "stop"}
  BY DEF JoinReceiver, AfterReceiver, settingsVars
<1>3. UNCHANGED Wraps
  BY <1>2, Zenon DEF Wraps, NumChannels, GetData
<1>4. CanThere(c.receiver)
  BY <1>1 DEF ThreadInv, Stopping
<1>5. ReceiverStopped(m_channels', fds')
  BY JoinReceiverStops
<1>6. /\ DOMAIN m_channels' = DOMAIN m_channels
      /\ \A n \in DOMAIN m_channels : n # current => m_channels'[n] = m_channels[n]
      /\ d.transmitter = c.transmitter /\ SameEthernet(d.receiver, c.receiver)
      /\ CanFd(d.receiver) = -1 /\ fds' = Closed(fds, CanFd(c.receiver))
  <2>1. CASE c.receiver.can_init
    BY <1>4, <1>5, <2>1 DEF ReceiverStopped, CanThere, CanFd
  <2>2. CASE ~c.receiver.can_init
    <3>1. Closed(fds, -1) = fds
      BY <1>1, NoDescriptor, ClosedNothing
    <3> QED
      BY <1>4, <1>5, <2>2, <3>1 DEF ReceiverStopped, CanThere, CanFd
  <2> QED
    BY <2>1, <2>2
<1>7. /\ FdOf(d, "receiver.eth") = FdOf(c, "receiver.eth")
      /\ FdOf(d, "transmitter.eth") = FdOf(c, "transmitter.eth")
      /\ FdOf(d, "transmitter.can") = FdOf(c, "transmitter.can")
      /\ FdOf(d, "receiver.can") \notin Descriptors
      /\ fds' = Closed(fds, FdOf(c, "receiver.can"))
  BY <1>6, FdOfChannel, NoDescriptor DEF SameEthernet
<1>8. \A n \in DOMAIN m_channels : \A k \in Field :
        n # current \/ k # "receiver.can" => FdOf(m_channels'[n], k) = FdOf(m_channels[n], k)
  BY <1>6, <1>7 DEF Field
<1>9. "receiver.can" \in Field /\ main \notin InSetup /\ main' \notin InSetup
  BY <1>1, <1>2 DEF Field, InSetup
<1> QED
  BY <1>1, <1>3, <1>6, <1>7, <1>8, <1>9, HeldByOneLess

\* So does Transmitter::stop.
LEMMA JoinTransmitterHeld ==
  ASSUME RouterTypes, HeldInv, SetupInv, ThreadInv, JoinTransmitter
  PROVE  HeldInv'
<1> DEFINE c == m_channels[current]
           d == m_channels'[current]
<1>1. /\ main = "joinTx" /\ current \in DOMAIN m_channels /\ fds \in Tables
      /\ m_channels \in [DOMAIN m_channels -> Channel] /\ DOMAIN fds \subseteq Descriptors
  BY TableIsFunction DEF RouterTypes, JoinTransmitter
<1>2. /\ UNCHANGED <<m_settings_map, section>> /\ main' = "stop"
  BY DEF JoinTransmitter, settingsVars
<1>3. UNCHANGED Wraps
  BY <1>2, Zenon DEF Wraps, NumChannels, GetData
<1>4. TransmitterStopped(m_channels', fds')
  BY JoinTransmitterStops
<1>5. /\ DOMAIN m_channels' = DOMAIN m_channels
      /\ \A n \in DOMAIN m_channels : n # current => m_channels'[n] = m_channels[n]
      /\ d.receiver = c.receiver /\ SameEthernet(d.transmitter, c.transmitter)
      /\ CanFd(d.transmitter) = -1 /\ fds' = Closed(fds, CanFd(c.transmitter))
  <2>1. CASE c.transmitter.can_init
    BY <1>4, <2>1 DEF TransmitterStopped, CanFd
  <2>2. CASE ~c.transmitter.can_init
    <3>1. Closed(fds, -1) = fds
      BY <1>1, NoDescriptor, ClosedNothing
    <3> QED
      BY <1>4, <2>2, <3>1 DEF TransmitterStopped, CanFd
  <2> QED
    BY <2>1, <2>2
<1>6. /\ FdOf(d, "receiver.eth") = FdOf(c, "receiver.eth")
      /\ FdOf(d, "transmitter.eth") = FdOf(c, "transmitter.eth")
      /\ FdOf(d, "receiver.can") = FdOf(c, "receiver.can")
      /\ FdOf(d, "transmitter.can") \notin Descriptors
      /\ fds' = Closed(fds, FdOf(c, "transmitter.can"))
  BY <1>5, FdOfChannel, NoDescriptor DEF SameEthernet
<1>7. \A n \in DOMAIN m_channels : \A k \in Field :
        n # current \/ k # "transmitter.can" => FdOf(m_channels'[n], k) = FdOf(m_channels[n], k)
  BY <1>5, <1>6 DEF Field
<1>8. "transmitter.can" \in Field /\ main \notin InSetup /\ main' \notin InSetup
  BY <1>1, <1>2 DEF Field, InSetup
<1> QED
  BY <1>1, <1>3, <1>5, <1>6, <1>7, <1>8, HeldByOneLess

\* When the channels go, only Ethernet sockets are still open.
LEMMA ClearChannelsHeld ==
  ASSUME RouterTypes, HeldInv, SetupInv, ThreadInv, ClearChannels
  PROVE  HeldInv'
<1>1. /\ main = "stop" /\ todo = {} /\ main' = "idle" /\ m_channels' = <<>>
      /\ UNCHANGED <<m_settings_map, fds>>
  BY DEF ClearChannels, settingsVars
<1>2. DOMAIN m_channels' = {}
  BY <1>1
<1>3. DOMAIN fds \subseteq Descriptors
  BY TableIsFunction DEF RouterTypes
<1>4. ASSUME NEW fd \in DOMAIN fds
      PROVE  fds[fd].family = "packet"
  <2>1. ~Wraps
    BY <1>1 DEF SetupInv, InSetup
  <2>2. CASE fds[fd].family = "packet"
    BY <2>2
  <2>3. ASSUME NEW n \in DOMAIN m_channels, NEW k \in Field, FdOf(m_channels[n], k) = fd,
               fd \in Descriptors
        PROVE  fds[fd].family = "packet"
    <3>1. ~m_channels[n].receiver.can_init /\ ~m_channels[n].transmitter.can_init
      BY <1>1 DEF ThreadInv, ToStop, Stopping
    <3>2. FdOf(m_channels[n], "receiver.can") = -1 /\ FdOf(m_channels[n], "transmitter.can") = -1
      BY <3>1, FdOfChannel DEF CanFd
    <3>3. k \in {"receiver.eth", "transmitter.eth"}
      BY <2>3, <3>2, NoDescriptor DEF Field
    <3>4. fds[fd].family = Family(k)
      BY <2>3 DEF HeldInv, HeldIsOpen
    <3> QED
      BY <3>3, <3>4, FamilyOfField
  <2> QED
    BY <1>3, <2>1, <2>2, <2>3 DEF HeldInv, OpenIsHeld
<1> QED
  BY <1>1, <1>2, <1>4 DEF HeldInv, HeldIsOpen, HeldOnce, OpenIsHeld, InSetup

\* The number of channels is a setting.
LEMMA SameWraps == UNCHANGED m_settings_map => UNCHANGED Wraps
BY Zenon DEF Wraps, NumChannels, GetData

\* A step that touches neither channels nor descriptors.
LEMMA SameHeld ==
  ASSUME HeldInv, UNCHANGED <<m_channels, fds>>,
         UNCHANGED m_settings_map \/ main = "load",
         main' \in InSetup => main \in InSetup, main' = "load" => main = "load"
  PROVE  HeldInv'
BY HeldBySameFields, SameWraps

\* An iteration of DataRouter::init.
LEMMA CreateChannelHeld ==
  ASSUME SettingsInv, RouterTypes, HeldInv, SetupInv, CreateChannel
  PROVE  HeldInv'
<1>1. PICK c \in Channel :
        /\ m_channels' = [n \in DOMAIN m_channels \cup {section} |->
                            IF n = section THEN c ELSE m_channels[n]]
        /\ NewSockets(c)
  BY CreatedSockets
<1>2. fds \in Tables /\ section \in Numbers /\ DOMAIN m_channels \subseteq Numbers
  BY DEF RouterTypes
<1>3. main = "init" /\ main' = "init" /\ UNCHANGED m_settings_map
  BY DEF CreateChannel, settingsVars
<1>4. ~Wraps => section \notin DOMAIN m_channels
  BY <1>2, <1>3 DEF SetupInv, Numbers
<1> QED
  BY <1>1, <1>2, <1>3, <1>4, SameWraps, HeldByOneMore

\* Callbacks are no descriptors.
LEMMA CreateDataHandlersHeld ==
  ASSUME RouterTypes, HeldInv, CreateDataHandlers
  PROVE  HeldInv'
<1>1. /\ m_channels' = [n \in DOMAIN m_channels |-> Registered(m_channels[n])]
      /\ main = "init" /\ main' = "idle" /\ UNCHANGED <<fds, m_settings_map>>
  BY DEF CreateDataHandlers, settingsVars
<1>2. \A n \in DOMAIN m_channels : m_channels[n] \in Channel
  BY DEF RouterTypes
<1>3. \A n \in DOMAIN m_channels :
        /\ m_channels'[n].receiver = m_channels[n].receiver
        /\ m_channels'[n].transmitter = m_channels[n].transmitter
  BY <1>1, <1>2, RegisteredChannel
<1>4. \A n \in DOMAIN m_channels : \A k \in Field :
        FdOf(m_channels'[n], k) = FdOf(m_channels[n], k)
  BY <1>3, FdOfChannel DEF Field
<1>5. DOMAIN m_channels' = DOMAIN m_channels
  BY <1>1
<1> QED
  BY <1>1, <1>4, <1>5, SameWraps, HeldBySameFields DEF InSetup

\* Every step keeps the descriptors owned.
LEMMA NextHeldInv ==
  SettingsInv /\ RouterTypes /\ SetupInv /\ ThreadInv /\ HeldInv /\ [Next]_vars
    => HeldInv'
<1> SUFFICES ASSUME SettingsInv, RouterTypes, SetupInv, ThreadInv, HeldInv, [Next]_vars
             PROVE HeldInv'
  OBVIOUS
<1> USE DEF InSetup, settingsVars, routerVars, loopVars, threadVars, queueVars
<1>1. CASE UNCHANGED vars
  BY <1>1, SameHeld DEF vars
<1>2. CASE ParseLine
  BY <1>2, SameHeld DEF ParseLine
<1>3. CASE NextFile
  BY <1>3, SameHeld DEF NextFile
<1>4. CASE CreateChannel
  BY <1>4, CreateChannelHeld
<1>5. CASE CreateDataHandlers
  BY <1>5, CreateDataHandlersHeld
<1>6. CASE StartDm
  BY <1>6, SameHeld DEF StartDm, StartThread
<1>7. CASE StartAgg
  BY <1>7, SameHeld DEF StartAgg, StartThread
<1>8. CASE Started
  BY <1>8, SameHeld DEF Started
<1>9. CASE StopDm
  BY <1>9, SameHeld DEF StopDm, ClearFlag
<1>10. CASE JoinDm
  BY <1>10, SameHeld DEF JoinDm, JoinOrDetach
<1>11. CASE StopAgg
  BY <1>11, SameHeld DEF StopAgg, ClearFlag
<1>12. CASE JoinAgg
  BY <1>12, SameHeld DEF JoinAgg, JoinOrDetach
<1>13. CASE JoinReceiver
  BY <1>13, JoinReceiverHeld
<1>14. CASE JoinTransmitter
  BY <1>14, JoinTransmitterHeld
<1>15. CASE ClearChannels
  BY <1>15, ClearChannelsHeld
<1>16. ASSUME NEW n \in todo, StartChannel(n) PROVE HeldInv'
  BY <1>16, SameHeld DEF StartChannel
<1>17. ASSUME NEW n \in todo, StopReceiver(n) PROVE HeldInv'
  BY <1>17, SameHeld DEF StopReceiver
<1>18. CASE CallStart
  BY <1>18, SameHeld DEF CallStart
<1>19. CASE CallStop
  BY <1>19, SameHeld DEF CallStop
<1>20. ASSUME NEW n \in DOMAIN rx, ReceiverExit(n) PROVE HeldInv'
  BY <1>20, SameHeld DEF ReceiverExit
<1>21. ASSUME NEW n \in DOMAIN rx, TransmitterExit(n) PROVE HeldInv'
  BY <1>21, SameHeld DEF TransmitterExit
<1>22. ASSUME NEW t \in Queue, QueueThreadExit(t) PROVE HeldInv'
  BY <1>22, SameHeld DEF QueueThreadExit
<1> QED
  BY <1>1, <1>2, <1>3, <1>4, <1>5, <1>6, <1>7, <1>8, <1>9, <1>10, <1>11, <1>12, <1>13, <1>14,
     <1>15, <1>16, <1>17, <1>18, <1>19, <1>20, <1>21, <1>22 DEF Next, Main, ChannelThreads,
     QueueThreads, Queue

\* An Ethernet socket that is held stays open, and bound as it was.
LEMMA EthernetOpen ==
  ASSUME HeldInv, NEW n \in DOMAIN m_channels
  PROVE  /\ m_channels[n].receiver.m_eth_fd \in Descriptors =>
              m_channels[n].receiver.m_eth_fd \in DOMAIN fds
         /\ m_channels[n].transmitter.m_eth_fd \in Descriptors =>
              m_channels[n].transmitter.m_eth_fd \in DOMAIN fds
<1>1. \A k \in Field : FdOf(m_channels[n], k) \in Descriptors =>
        FdOf(m_channels[n], k) \in DOMAIN fds
  BY DEF HeldInv, HeldIsOpen
<1>2. "receiver.eth" \in Field /\ "transmitter.eth" \in Field
  BY DEF Field
<1> QED
  BY <1>1, <1>2, FdOfChannel

\* A step that leaves the Ethernet sockets alone.
LEMMA SameEthernetKept ==
  ASSUME EthernetInv, HeldInv, HeldInv', DOMAIN m_channels' = DOMAIN m_channels,
         \A n \in DOMAIN m_channels :
           /\ m_channels'[n].ifname = m_channels[n].ifname
           /\ SameEthernet(m_channels'[n].receiver, m_channels[n].receiver)
           /\ SameEthernet(m_channels'[n].transmitter, m_channels[n].transmitter),
         \A d \in DOMAIN fds' : d \in DOMAIN fds => fds'[d] = fds[d]
  PROVE  EthernetInv'
<1> SUFFICES ASSUME NEW n \in DOMAIN m_channels
             PROVE  LET c == m_channels'[n] IN
                    /\ c.receiver.m_is_initialized /\ ~c.receiver.memory =>
                         /\ c.receiver.m_eth_fd \in Descriptors
                         /\ fds'[c.receiver.m_eth_fd].ifname = c.ifname
                    /\ c.transmitter.m_is_initialized /\ ~c.transmitter.memory =>
                         c.transmitter.m_eth_fd \in Descriptors
  BY DEF EthernetInv
<1> DEFINE fd == m_channels[n].receiver.m_eth_fd
<1>1. fd \in Descriptors => fd \in DOMAIN fds
  BY EthernetOpen
<1>2. fd \in Descriptors => fd \in DOMAIN fds'
  <2>1. m_channels'[n].receiver.m_eth_fd = fd
    BY DEF SameEthernet
  <2>2. n \in DOMAIN m_channels'
    OBVIOUS
  <2>3. \A k \in Field : FdOf(m_channels'[n], k) \in Descriptors =>
          FdOf(m_channels'[n], k) \in DOMAIN fds'
    BY <2>2 DEF HeldInv, HeldIsOpen
  <2>4. "receiver.eth" \in Field
    BY DEF Field
  <2> QED
    BY <2>1, <2>3, <2>4, FdOfChannel
<1>3. fd \in Descriptors => fds'[fd] = fds[fd]
  BY <1>1, <1>2
<1> QED
  BY <1>3 DEF EthernetInv, SameEthernet

\* The new channel is bound as configured, the others as before.
LEMMA CreateChannelEthernet ==
  ASSUME SettingsInv, RouterTypes, HeldInv, EthernetInv, CreateChannel
  PROVE  EthernetInv'
<1>1. PICK c \in Channel :
        /\ m_channels' = [n \in DOMAIN m_channels \cup {section} |->
                            IF n = section THEN c ELSE m_channels[n]]
        /\ NewSockets(c)
        /\ c.receiver.m_is_initialized /\ ~c.receiver.memory =>
             c.receiver.m_eth_fd \in Descriptors
        /\ c.transmitter.m_is_initialized /\ ~c.transmitter.memory =>
             c.transmitter.m_eth_fd \in Descriptors
  BY CreatedSockets
<1>2. /\ \A fd \in DOMAIN fds : fds'[fd] = fds[fd]
      /\ c.receiver.m_eth_fd \in Descriptors => fds'[c.receiver.m_eth_fd].ifname = c.ifname
  BY <1>1 DEF NewSockets
<1> SUFFICES ASSUME NEW n \in DOMAIN m_channels'
             PROVE  LET d == m_channels'[n] IN
                    /\ d.receiver.m_is_initialized /\ ~d.receiver.memory =>
                         /\ d.receiver.m_eth_fd \in Descriptors
                         /\ fds'[d.receiver.m_eth_fd].ifname = d.ifname
                    /\ d.transmitter.m_is_initialized /\ ~d.transmitter.memory =>
                         d.transmitter.m_eth_fd \in Descriptors
  BY DEF EthernetInv
<1>3. CASE n = section
  <2>1. m_channels'[n] = c
    BY <1>1, <1>3
  <2> QED
    BY <1>1, <1>2, <2>1
<1>4. CASE n # section
  <2>1. n \in DOMAIN m_channels /\ m_channels'[n] = m_channels[n]
    BY <1>1, <1>4
  <2>2. m_channels[n].receiver.m_eth_fd \in Descriptors =>
          m_channels[n].receiver.m_eth_fd \in DOMAIN fds
    BY <2>1, EthernetOpen
  <2> QED
    BY <1>2, <2>1, <2>2 DEF EthernetInv
<1> QED
  BY <1>3, <1>4

\* The other steps that change a channel leave its Ethernet sockets alone.
LEMMA CreateDataHandlersEthernet ==
  ASSUME RouterTypes, HeldInv, HeldInv', EthernetInv, CreateDataHandlers
  PROVE  EthernetInv'
<1>1. m_channels' = [n \in DOMAIN m_channels |-> Registered(m_channels[n])] /\ UNCHANGED fds
  BY DEF CreateDataHandlers
<1>2. \A n \in DOMAIN m_channels : m_channels[n] \in Channel
  BY DEF RouterTypes
<1>3. \A n \in DOMAIN m_channels :
        /\ m_channels'[n].ifname = m_channels[n].ifname
        /\ m_channels'[n].receiver = m_channels[n].receiver
        /\ m_channels'[n].transmitter = m_channels[n].transmitter
  BY <1>1, <1>2, RegisteredChannel
<1>4. DOMAIN m_channels' = DOMAIN m_channels
  BY <1>1
<1> QED
  BY <1>1, <1>3, <1>4, SameEthernetKept DEF SameEthernet

\* The CAN bus is closed, of the receiver,
LEMMA JoinReceiverEthernet ==
  ASSUME RouterTypes, HeldInv, HeldInv', EthernetInv, JoinReceiver
  PROVE  EthernetInv'
<1>1. ReceiverStopped(m_channels', fds') /\ fds \in Tables
  BY JoinReceiverStops DEF RouterTypes
<1>2. \A d \in DOMAIN fds' : d \in DOMAIN fds => fds'[d] = fds[d]
  <2>1. fds' = fds \/ \E fd : fds' = Closed(fds, fd)
    BY <1>1, Zenon DEF ReceiverStopped
  <2>2. ASSUME NEW fd, fds' = Closed(fds, fd)
        PROVE  \A d \in DOMAIN fds' : d \in DOMAIN fds => fds'[d] = fds[d]
    BY <1>1, <2>2, ClosedTable
  <2> QED
    BY <2>1, <2>2
<1>3. DOMAIN m_channels' = DOMAIN m_channels
  BY <1>1 DEF ReceiverStopped
<1>4. \A n \in DOMAIN m_channels :
        /\ m_channels'[n].ifname = m_channels[n].ifname
        /\ SameEthernet(m_channels'[n].receiver, m_channels[n].receiver)
        /\ SameEthernet(m_channels'[n].transmitter, m_channels[n].transmitter)
  <2>1. SUFFICES ASSUME NEW n \in DOMAIN m_channels
                 PROVE  /\ m_channels'[n].ifname = m_channels[n].ifname
                        /\ SameEthernet(m_channels'[n].receiver, m_channels[n].receiver)
                        /\ SameEthernet(m_channels'[n].transmitter, m_channels[n].transmitter)
    OBVIOUS
  <2>2. CASE n = current
    BY <1>1, <2>2 DEF ReceiverStopped, SameEthernet
  <2>3. CASE n # current
    <3>1. m_channels'[n] = m_channels[n]
      BY <1>1, <2>3 DEF ReceiverStopped
    <3> QED
      BY <3>1 DEF SameEthernet
  <2> QED
    BY <2>2, <2>3
<1> QED
  BY <1>2, <1>3, <1>4, SameEthernetKept

\* and of the transmitter.
LEMMA JoinTransmitterEthernet ==
  ASSUME RouterTypes, HeldInv, HeldInv', EthernetInv, JoinTransmitter
  PROVE  EthernetInv'
<1>1. TransmitterStopped(m_channels', fds') /\ fds \in Tables
  BY JoinTransmitterStops DEF RouterTypes
<1>2. \A d \in DOMAIN fds' : d \in DOMAIN fds => fds'[d] = fds[d]
  <2>1. fds' = fds \/ \E fd : fds' = Closed(fds, fd)
    BY <1>1, Zenon DEF TransmitterStopped
  <2>2. ASSUME NEW fd, fds' = Closed(fds, fd)
        PROVE  \A d \in DOMAIN fds' : d \in DOMAIN fds => fds'[d] = fds[d]
    BY <1>1, <2>2, ClosedTable
  <2> QED
    BY <2>1, <2>2
<1>3. DOMAIN m_channels' = DOMAIN m_channels
  BY <1>1 DEF TransmitterStopped
<1>4. \A n \in DOMAIN m_channels :
        /\ m_channels'[n].ifname = m_channels[n].ifname
        /\ SameEthernet(m_channels'[n].receiver, m_channels[n].receiver)
        /\ SameEthernet(m_channels'[n].transmitter, m_channels[n].transmitter)
  <2>1. SUFFICES ASSUME NEW n \in DOMAIN m_channels
                 PROVE  /\ m_channels'[n].ifname = m_channels[n].ifname
                        /\ SameEthernet(m_channels'[n].receiver, m_channels[n].receiver)
                        /\ SameEthernet(m_channels'[n].transmitter, m_channels[n].transmitter)
    OBVIOUS
  <2>2. CASE n = current
    BY <1>1, <2>2 DEF TransmitterStopped, SameEthernet
  <2>3. CASE n # current
    <3>1. m_channels'[n] = m_channels[n]
      BY <1>1, <2>3 DEF TransmitterStopped
    <3> QED
      BY <3>1 DEF SameEthernet
  <2> QED
    BY <2>2, <2>3
<1> QED
  BY <1>2, <1>3, <1>4, SameEthernetKept

\* Every step keeps the Ethernet sockets.
LEMMA NextEthernetInv ==
  SettingsInv /\ RouterTypes /\ HeldInv /\ HeldInv' /\ EthernetInv /\ [Next]_vars
    => EthernetInv'
<1> SUFFICES ASSUME SettingsInv, RouterTypes, HeldInv, HeldInv', EthernetInv, [Next]_vars
             PROVE EthernetInv'
  OBVIOUS
<1> USE DEF settingsVars, routerVars, loopVars, threadVars, queueVars
<1>1. CASE UNCHANGED vars
  BY <1>1 DEF EthernetInv, vars
<1>2. CASE ParseLine
  BY <1>2 DEF EthernetInv, ParseLine
<1>3. CASE NextFile
  BY <1>3 DEF EthernetInv, NextFile
<1>4. CASE CreateChannel
  BY <1>4, CreateChannelEthernet
<1>5. CASE CreateDataHandlers
  BY <1>5, CreateDataHandlersEthernet
<1>6. CASE StartDm
  BY <1>6 DEF EthernetInv, StartDm, StartThread
<1>7. CASE StartAgg
  BY <1>7 DEF EthernetInv, StartAgg, StartThread
<1>8. CASE Started
  BY <1>8 DEF EthernetInv, Started
<1>9. CASE StopDm
  BY <1>9 DEF EthernetInv, StopDm, ClearFlag
<1>10. CASE JoinDm
  BY <1>10 DEF EthernetInv, JoinDm, JoinOrDetach
<1>11. CASE StopAgg
  BY <1>11 DEF EthernetInv, StopAgg, ClearFlag
<1>12. CASE JoinAgg
  BY <1>12 DEF EthernetInv, JoinAgg, JoinOrDetach
<1>13. CASE JoinReceiver
  BY <1>13, JoinReceiverEthernet
<1>14. CASE JoinTransmitter
  BY <1>14, JoinTransmitterEthernet
<1>15. CASE ClearChannels
  BY <1>15 DEF EthernetInv, ClearChannels
<1>16. ASSUME NEW n \in todo, StartChannel(n) PROVE EthernetInv'
  BY <1>16 DEF EthernetInv, StartChannel
<1>17. ASSUME NEW n \in todo, StopReceiver(n) PROVE EthernetInv'
  BY <1>17 DEF EthernetInv, StopReceiver
<1>18. CASE CallStart
  BY <1>18 DEF EthernetInv, CallStart
<1>19. CASE CallStop
  BY <1>19 DEF EthernetInv, CallStop
<1>20. ASSUME NEW n \in DOMAIN rx, ReceiverExit(n) PROVE EthernetInv'
  BY <1>20 DEF EthernetInv, ReceiverExit
<1>21. ASSUME NEW n \in DOMAIN rx, TransmitterExit(n) PROVE EthernetInv'
  BY <1>21 DEF EthernetInv, TransmitterExit
<1>22. ASSUME NEW t \in Queue, QueueThreadExit(t) PROVE EthernetInv'
  BY <1>22 DEF EthernetInv, QueueThreadExit
<1> QED
  BY <1>1, <1>2, <1>3, <1>4, <1>5, <1>6, <1>7, <1>8, <1>9, <1>10, <1>11, <1>12, <1>13, <1>14,
     <1>15, <1>16, <1>17, <1>18, <1>19, <1>20, <1>21, <1>22 DEF Next, Main, ChannelThreads,
     QueueThreads, Queue

-----------------------------------------------------------------------------
(* The loop over the sections.                                             *)

\* A number that fits stays as it is.
LEMMA SmallNumber ==
  ASSUME NEW x \in Nat, x < ByteModulus
  PROVE  x % ByteModulus = x
BY ConfigsAssumption

\* The loop visits a new section each time, unless the uint8_t wraps.
LEMMA CreateChannelSetup ==
  ASSUME SettingsInv, RouterTypes, SetupInv, CreateChannel
  PROVE  SetupInv'
<1>1. PICK c \in Channel :
        m_channels' = [n \in DOMAIN m_channels \cup {section} |->
                         IF n = section THEN c ELSE m_channels[n]]
  BY CreatedSockets
<1>2. /\ main = "init" /\ main' = "init" /\ UNCHANGED <<m_settings_map, rx>>
      /\ section <= NumChannels /\ section' = (section + 1) % ByteModulus
  BY DEF CreateChannel, settingsVars, threadVars, NextSection
<1>3. /\ section \in Nat /\ DOMAIN m_channels \subseteq Nat /\ NumChannels \in Nat
      /\ NumChannels < ByteModulus /\ ByteModulus \in Nat
  BY ChannelNumbers, ConfigsAssumption DEF RouterTypes, Numbers
<1>4. ~Wraps => section' = section + 1
  <2> SUFFICES ASSUME ~Wraps PROVE section' = section + 1
    OBVIOUS
  <2>1. section + 1 \in Nat /\ section + 1 < ByteModulus
    BY <1>2, <1>3 DEF Wraps
  <2> QED
    BY <1>2, <2>1, SmallNumber
<1>5. ~Wraps => \A n \in DOMAIN m_channels' : n < section'
  BY <1>1, <1>2, <1>3, <1>4 DEF SetupInv
<1> QED
  BY <1>2, <1>5, SameWraps DEF SetupInv, InSetup

\* It has ended only if it can.
LEMMA CreateDataHandlersSetup ==
  ASSUME SettingsInv, RouterTypes, SetupInv, CreateDataHandlers
  PROVE  SetupInv'
<1>1. /\ main' = "idle" /\ UNCHANGED m_settings_map /\ section > NumChannels
      /\ DOMAIN m_channels' = DOMAIN m_channels /\ DOMAIN rx' = DOMAIN m_channels
  BY DEF CreateDataHandlers, settingsVars
<1>2. section \in Numbers /\ NumChannels \in Numbers
  BY ChannelNumbers DEF RouterTypes
<1>3. ~Wraps
  BY <1>1, <1>2, ConfigsAssumption DEF Wraps, Numbers
<1> QED
  BY <1>1, <1>3, SameWraps DEF SetupInv, InSetup

\* Every step of the set-up, and after it.
LEMMA NextSetupInv == SettingsInv /\ RouterTypes /\ SetupInv /\ [Next]_vars => SetupInv'
<1> SUFFICES ASSUME SettingsInv, RouterTypes, SetupInv, [Next]_vars PROVE SetupInv'
  OBVIOUS
<1> USE DEF InSetup, settingsVars, routerVars, loopVars, threadVars, queueVars
<1>1. CASE UNCHANGED vars
  BY <1>1, SameWraps DEF SetupInv, vars
<1>2. CASE ParseLine
  BY <1>2, SameWraps DEF SetupInv, ParseLine
<1>3. CASE NextFile
  BY <1>3, SameWraps DEF SetupInv, NextFile
<1>4. CASE CreateChannel
  BY <1>4, CreateChannelSetup
<1>5. CASE CreateDataHandlers
  BY <1>5, CreateDataHandlersSetup
<1>6. CASE StartDm
  BY <1>6, SameWraps DEF SetupInv, StartDm, StartThread
<1>7. CASE StartAgg
  BY <1>7, SameWraps DEF SetupInv, StartAgg, StartThread
<1>8. CASE Started
  BY <1>8, SameWraps DEF SetupInv, Started
<1>9. CASE StopDm
  BY <1>9, SameWraps DEF SetupInv, StopDm, ClearFlag
<1>10. CASE JoinDm
  BY <1>10, SameWraps DEF SetupInv, JoinDm, JoinOrDetach
<1>11. CASE StopAgg
  BY <1>11, SameWraps DEF SetupInv, StopAgg, ClearFlag
<1>12. CASE JoinAgg
  BY <1>12, SameWraps DEF SetupInv, JoinAgg, JoinOrDetach
<1>13. CASE JoinReceiver
  <2>1. DOMAIN m_channels' = DOMAIN m_channels
    BY <1>13, JoinReceiverStops DEF ReceiverStopped
  <2>2. UNCHANGED <<m_settings_map, section>> /\ main = "joinRx" /\ main' \in {"joinTx", "stop"}
        /\ DOMAIN rx' = DOMAIN rx
    BY <1>13, SameWraps DEF SetupInv, JoinReceiver, AfterReceiver
  <2> QED
    BY <2>1, <2>2, SameWraps DEF SetupInv
<1>14. CASE JoinTransmitter
  <2>1. DOMAIN m_channels' = DOMAIN m_channels
    BY <1>14, JoinTransmitterStops DEF TransmitterStopped
  <2>2. UNCHANGED <<m_settings_map, section, rx>> /\ main = "joinTx" /\ main' = "stop"
    BY <1>14, SameWraps DEF SetupInv, JoinTransmitter
  <2> QED
    BY <2>1, <2>2, SameWraps DEF SetupInv
<1>15. CASE ClearChannels
  BY <1>15, SameWraps DEF SetupInv, ClearChannels
<1>16. ASSUME NEW n \in todo, StartChannel(n) PROVE SetupInv'
  BY <1>16, SameWraps DEF SetupInv, StartChannel
<1>17. ASSUME NEW n \in todo, StopReceiver(n) PROVE SetupInv'
  BY <1>17, SameWraps DEF SetupInv, StopReceiver
<1>18. CASE CallStart
  BY <1>18, SameWraps DEF SetupInv, CallStart
<1>19. CASE CallStop
  BY <1>19, SameWraps DEF SetupInv, CallStop
<1>20. ASSUME NEW n \in DOMAIN rx, ReceiverExit(n) PROVE SetupInv'
  BY <1>20, SameWraps DEF SetupInv, ReceiverExit
<1>21. ASSUME NEW n \in DOMAIN rx, TransmitterExit(n) PROVE SetupInv'
  BY <1>21, SameWraps DEF SetupInv, TransmitterExit
<1>22. ASSUME NEW t \in Queue, QueueThreadExit(t) PROVE SetupInv'
  BY <1>22, SameWraps DEF SetupInv, QueueThreadExit
<1> QED
  BY <1>1, <1>2, <1>3, <1>4, <1>5, <1>6, <1>7, <1>8, <1>9, <1>10, <1>11, <1>12, <1>13, <1>14,
     <1>15, <1>16, <1>17, <1>18, <1>19, <1>20, <1>21, <1>22 DEF Next, Main, ChannelThreads,
     QueueThreads, Queue

-----------------------------------------------------------------------------
(* Threads and the CAN buses.                                              *)

\* A new channel has the CAN buses that it believes to have, and no threads.
LEMMA CreateChannelThreads ==
  ASSUME SettingsInv, RouterTypes, SetupInv, ThreadInv, CreateChannel
  PROVE  ThreadInv'
<1>1. PICK c \in Channel :
        /\ m_channels' = [n \in DOMAIN m_channels \cup {section} |->
                            IF n = section THEN c ELSE m_channels[n]]
        /\ CanThere(c.receiver) /\ CanThere(c.transmitter)
  BY CreatedSockets
<1>2. main = "init" /\ main' = "init" /\ UNCHANGED <<rx, tx>> /\ DOMAIN rx = {}
  BY DEF CreateChannel, SetupInv, InSetup, threadVars
<1>3. \A n \in DOMAIN m_channels' :
        CanThere(m_channels'[n].receiver) /\ CanThere(m_channels'[n].transmitter)
  BY <1>1, <1>2 DEF ThreadInv, ToStop
<1> QED
  BY <1>2, <1>3 DEF ThreadInv, ToStop, Stopping

\* Nor has it any when the set-up ends.
LEMMA CreateDataHandlersThreads ==
  ASSUME RouterTypes, SetupInv, ThreadInv, CreateDataHandlers
  PROVE  ThreadInv'
<1>1. /\ m_channels' = [n \in DOMAIN m_channels |-> Registered(m_channels[n])]
      /\ main = "init" /\ main' = "idle"
      /\ rx' = [n \in DOMAIN m_channels |-> "none"] /\ tx' = [n \in DOMAIN m_channels |-> "none"]
  BY DEF CreateDataHandlers
<1>2. \A n \in DOMAIN m_channels : m_channels[n] \in Channel
  BY DEF RouterTypes
<1>3. DOMAIN m_channels' = DOMAIN m_channels
  BY <1>1
<1>4. \A n \in DOMAIN m_channels :
        /\ m_channels'[n].receiver = m_channels[n].receiver
        /\ m_channels'[n].transmitter = m_channels[n].transmitter
  BY <1>1, <1>2, RegisteredChannel
<1>5. \A n \in DOMAIN m_channels :
        CanThere(m_channels[n].receiver) /\ CanThere(m_channels[n].transmitter)
  BY <1>1 DEF ThreadInv, ToStop
<1>6. \A n \in DOMAIN m_channels' :
        CanThere(m_channels'[n].receiver) /\ CanThere(m_channels'[n].transmitter)
  BY <1>3, <1>4, <1>5
<1>7. \A n \in DOMAIN rx' : rx'[n] = "none" /\ tx'[n] = "none"
  BY <1>1
<1> QED
  BY <1>1, <1>6, <1>7 DEF ThreadInv, ToStop, Stopping

\* When the receiver has stopped, its thread and its CAN bus are gone.
LEMMA JoinReceiverThreads ==
  ASSUME RouterTypes, ThreadTypes, ThreadInv, JoinReceiver
  PROVE  ThreadInv'
<1> DEFINE c == m_channels[current]
           d == m_channels'[current]
<1>1. /\ main = "joinRx" /\ current \in DOMAIN m_channels /\ current \notin todo
      /\ todo \subseteq DOMAIN m_channels /\ UNCHANGED <<todo, current, tx>>
      /\ main' = IF c.transmitter.m_is_can_enabled THEN "joinTx" ELSE "stop"
  BY DEF RouterTypes, JoinReceiver, AfterReceiver, loopVars
<1>2. ReceiverStopped(m_channels', fds')
  BY JoinReceiverStops
<1>3. /\ DOMAIN m_channels' = DOMAIN m_channels /\ d.transmitter = c.transmitter
      /\ \A n \in DOMAIN m_channels : n # current => m_channels'[n] = m_channels[n]
  BY <1>2 DEF ReceiverStopped
<1>4. CanThere(c.receiver) /\ CanThere(c.transmitter)
  BY <1>1 DEF ThreadInv, Stopping
<1>5. ~d.receiver.can_init
  BY <1>2, <1>4 DEF ReceiverStopped, CanThere
<1>6. /\ rx' \in [DOMAIN rx -> Life] /\ DOMAIN rx' = DOMAIN rx
      /\ \A n \in DOMAIN rx : n # current => rx'[n] = rx[n]
      /\ current \in DOMAIN rx => rx'[current] = "none"
  BY DEF JoinReceiver, AfterReceiver, ThreadTypes, Life
<1>7. \A n \in DOMAIN rx : rx[n] # "none" =>
        /\ n \in DOMAIN m_channels /\ n \in todo \cup {current}
        /\ m_channels[n].receiver.m_is_initialized
  BY <1>1 DEF ThreadInv, ToStop, Stopping
<1>8. \A n \in DOMAIN rx : tx[n] # "none" =>
        /\ n \in DOMAIN m_channels /\ n \in todo \cup {current}
        /\ m_channels[n].transmitter.m_is_can_enabled
  BY <1>1 DEF ThreadInv, ToStop, Stopping
<1>9. \A n \in DOMAIN m_channels :
        /\ n \in todo => CanThere(m_channels[n].receiver) /\ CanThere(m_channels[n].transmitter)
        /\ n \notin todo \cup {current} =>
             ~m_channels[n].receiver.can_init /\ ~m_channels[n].transmitter.can_init
  BY <1>1 DEF ThreadInv, ToStop, Stopping
<1>10. CASE c.transmitter.m_is_can_enabled
  <2>1. main' = "joinTx"
    BY <1>1, <1>10
  <2>2. ToStop' = todo /\ Stopping' = {current}
    BY <1>1, <2>1 DEF ToStop, Stopping
  <2> HIDE DEF c, d
  <2>3. \A n \in DOMAIN m_channels' :
          /\ n \in todo => CanThere(m_channels'[n].receiver)
          /\ n \in todo \cup {current} => CanThere(m_channels'[n].transmitter)
          /\ n \notin todo => ~m_channels'[n].receiver.can_init
          /\ n \notin todo \cup {current} => ~m_channels'[n].transmitter.can_init
    BY <1>1, <1>3, <1>4, <1>5, <1>9 DEF c, d
  <2>4. \A n \in DOMAIN rx' :
          /\ rx'[n] # "none" => /\ n \in DOMAIN m_channels' /\ n \in todo
                                /\ m_channels'[n].receiver.m_is_initialized
          /\ tx'[n] # "none" => /\ n \in DOMAIN m_channels' /\ n \in todo \cup {current}
                                /\ m_channels'[n].transmitter.m_is_can_enabled
    BY <1>1, <1>3, <1>6, <1>7, <1>8 DEF c, d
  <2>5. m_channels'[current].transmitter.m_is_can_enabled
    BY <1>3, <1>10 DEF c, d
  <2> QED
    BY <1>1, <2>1, <2>2, <2>3, <2>4, <2>5 DEF ThreadInv
<1>11. CASE ~c.transmitter.m_is_can_enabled
  <2>1. main' = "stop"
    BY <1>1, <1>11
  <2>2. ToStop' = todo /\ Stopping' = {}
    BY <1>1, <2>1 DEF ToStop, Stopping
  <2>3. ~d.transmitter.can_init
    BY <1>3, <1>4, <1>11 DEF CanThere
  <2>4. current \in DOMAIN rx => tx[current] = "none"
    BY <1>8, <1>11
  <2> HIDE DEF c, d
  <2>5. \A n \in DOMAIN m_channels' :
          /\ n \in todo =>
               CanThere(m_channels'[n].receiver) /\ CanThere(m_channels'[n].transmitter)
          /\ n \notin todo =>
               ~m_channels'[n].receiver.can_init /\ ~m_channels'[n].transmitter.can_init
    BY <1>1, <1>3, <1>5, <1>9, <2>3 DEF c, d
  <2>6. \A n \in DOMAIN rx' :
          /\ rx'[n] # "none" => /\ n \in DOMAIN m_channels' /\ n \in todo
                                /\ m_channels'[n].receiver.m_is_initialized
          /\ tx'[n] # "none" => /\ n \in DOMAIN m_channels' /\ n \in todo
                                /\ m_channels'[n].transmitter.m_is_can_enabled
    BY <1>1, <1>3, <1>6, <1>7, <1>8, <2>4 DEF c, d
  <2> QED
    BY <1>1, <2>1, <2>2, <2>5, <2>6 DEF ThreadInv
<1> QED
  BY <1>10, <1>11

\* When the transmitter has stopped, so are its own.
LEMMA JoinTransmitterThreads ==
  ASSUME RouterTypes, ThreadTypes, ThreadInv, JoinTransmitter
  PROVE  ThreadInv'
<1> DEFINE c == m_channels[current]
           d == m_channels'[current]
<1>1. /\ main = "joinTx" /\ current \in DOMAIN m_channels /\ current \notin todo
      /\ todo \subseteq DOMAIN m_channels /\ UNCHANGED <<todo, current, rx>> /\ main' = "stop"
  BY DEF RouterTypes, JoinTransmitter, loopVars
<1>2. TransmitterStopped(m_channels', fds')
  BY JoinTransmitterStops
<1>3. /\ DOMAIN m_channels' = DOMAIN m_channels /\ d.receiver = c.receiver
      /\ \A n \in DOMAIN m_channels : n # current => m_channels'[n] = m_channels[n]
      /\ ~d.transmitter.can_init
  BY <1>2 DEF TransmitterStopped
<1>4. ~c.receiver.can_init
  BY <1>1 DEF ThreadInv, ToStop
<1>5. /\ tx' \in [DOMAIN rx -> Life]
      /\ \A n \in DOMAIN rx : n # current => tx'[n] = tx[n]
      /\ current \in DOMAIN rx => tx'[current] = "none"
  BY DEF JoinTransmitter, ThreadTypes, Life
<1>6. \A n \in DOMAIN rx :
        /\ rx[n] # "none" => /\ n \in DOMAIN m_channels /\ n \in todo
                             /\ m_channels[n].receiver.m_is_initialized
        /\ tx[n] # "none" => /\ n \in DOMAIN m_channels /\ n \in todo \cup {current}
                             /\ m_channels[n].transmitter.m_is_can_enabled
  BY <1>1 DEF ThreadInv, ToStop, Stopping
<1>7. \A n \in DOMAIN m_channels :
        /\ n \in todo => CanThere(m_channels[n].receiver) /\ CanThere(m_channels[n].transmitter)
        /\ n \notin todo \cup {current} =>
             ~m_channels[n].receiver.can_init /\ ~m_channels[n].transmitter.can_init
  BY <1>1 DEF ThreadInv, ToStop, Stopping
<1>8. ToStop' = todo /\ Stopping' = {}
  BY <1>1 DEF ToStop, Stopping
<1> HIDE DEF c, d
<1>9. \A n \in DOMAIN m_channels' :
        /\ n \in todo => CanThere(m_channels'[n].receiver) /\ CanThere(m_channels'[n].transmitter)
        /\ n \notin todo =>
             ~m_channels'[n].receiver.can_init /\ ~m_channels'[n].transmitter.can_init
  BY <1>1, <1>3, <1>4, <1>7 DEF c, d
<1>10. \A n \in DOMAIN rx' :
         /\ rx'[n] # "none" => /\ n \in DOMAIN m_channels' /\ n \in todo
                               /\ m_channels'[n].receiver.m_is_initialized
         /\ tx'[n] # "none" => /\ n \in DOMAIN m_channels' /\ n \in todo
                               /\ m_channels'[n].transmitter.m_is_can_enabled
  BY <1>1, <1>3, <1>5, <1>6 DEF c, d
<1> QED
  BY <1>1, <1>8, <1>9, <1>10 DEF ThreadInv

\* Every step keeps threads and CAN buses together.
LEMMA NextThreadInv ==
  SettingsInv /\ RouterTypes /\ ThreadTypes /\ SetupInv /\ ThreadInv /\ [Next]_vars
    => ThreadInv'
<1> SUFFICES ASSUME SettingsInv, RouterTypes, ThreadTypes, SetupInv, ThreadInv, [Next]_vars
             PROVE ThreadInv'
  OBVIOUS
<1> USE DEF InSetup, ToStop, Stopping, settingsVars, routerVars, loopVars, threadVars, queueVars
<1>1. CASE UNCHANGED vars
  BY <1>1 DEF ThreadInv, RouterTypes, ThreadTypes, SetupInv, Life, vars
<1>2. CASE ParseLine
  BY <1>2 DEF ThreadInv, RouterTypes, ThreadTypes, SetupInv, Life, ParseLine
<1>3. CASE NextFile
  BY <1>3 DEF ThreadInv, RouterTypes, ThreadTypes, SetupInv, Life, NextFile
<1>4. CASE CreateChannel
  BY <1>4, CreateChannelThreads
<1>5. CASE CreateDataHandlers
  BY <1>5, CreateDataHandlersThreads
<1>6. CASE StartDm
  BY <1>6 DEF ThreadInv, RouterTypes, ThreadTypes, SetupInv, Life, StartDm, StartThread
<1>7. CASE StartAgg
  BY <1>7 DEF ThreadInv, RouterTypes, ThreadTypes, SetupInv, Life, StartAgg, StartThread
<1>8. CASE Started
  BY <1>8 DEF ThreadInv, RouterTypes, ThreadTypes, SetupInv, Life, Started
<1>9. CASE StopDm
  BY <1>9 DEF ThreadInv, RouterTypes, ThreadTypes, SetupInv, Life, StopDm, ClearFlag
<1>10. CASE JoinDm
  BY <1>10 DEF ThreadInv, RouterTypes, ThreadTypes, SetupInv, Life, JoinDm, JoinOrDetach
<1>11. CASE StopAgg
  BY <1>11 DEF ThreadInv, RouterTypes, ThreadTypes, SetupInv, Life, StopAgg, ClearFlag
<1>12. CASE JoinAgg
  BY <1>12 DEF ThreadInv, RouterTypes, ThreadTypes, SetupInv, Life, JoinAgg, JoinOrDetach
<1>13. CASE JoinReceiver
  BY <1>13, JoinReceiverThreads
<1>14. CASE JoinTransmitter
  BY <1>14, JoinTransmitterThreads
<1>15. CASE ClearChannels
  BY <1>15 DEF ThreadInv, RouterTypes, ThreadTypes, SetupInv, Life, ClearChannels
<1>16. ASSUME NEW n \in todo, StartChannel(n) PROVE ThreadInv'
  BY <1>16 DEF ThreadInv, RouterTypes, ThreadTypes, SetupInv, Life, StartChannel
<1>17. ASSUME NEW n \in todo, StopReceiver(n) PROVE ThreadInv'
  BY <1>17 DEF ThreadInv, RouterTypes, ThreadTypes, SetupInv, Life, StopReceiver
<1>18. CASE CallStart
  BY <1>18 DEF ThreadInv, RouterTypes, ThreadTypes, SetupInv, Life, CallStart
<1>19. CASE CallStop
  BY <1>19 DEF ThreadInv, RouterTypes, ThreadTypes, SetupInv, Life, CallStop
<1>20. ASSUME NEW n \in DOMAIN rx, ReceiverExit(n) PROVE ThreadInv'
  BY <1>20 DEF ThreadInv, RouterTypes, ThreadTypes, SetupInv, Life, ReceiverExit
<1>21. ASSUME NEW n \in DOMAIN rx, TransmitterExit(n) PROVE ThreadInv'
  BY <1>21 DEF ThreadInv, RouterTypes, ThreadTypes, SetupInv, Life, TransmitterExit
<1>22. ASSUME NEW t \in Queue, QueueThreadExit(t) PROVE ThreadInv'
  BY <1>22 DEF ThreadInv, RouterTypes, ThreadTypes, SetupInv, Life, QueueThreadExit
<1> QED
  BY <1>1, <1>2, <1>3, <1>4, <1>5, <1>6, <1>7, <1>8, <1>9, <1>10, <1>11, <1>12, <1>13, <1>14,
     <1>15, <1>16, <1>17, <1>18, <1>19, <1>20, <1>21, <1>22 DEF Next, Main, ChannelThreads,
     QueueThreads, Queue

\* Every step after the first stop() finds no channels.
LEMMA NextStoppedInv == RouterTypes /\ TurnInv /\ StoppedInv /\ [Next]_vars => StoppedInv'
<1> SUFFICES ASSUME RouterTypes, TurnInv, StoppedInv, [Next]_vars PROVE StoppedInv'
  OBVIOUS
<1> USE DEF InSetup, Gone, settingsVars, routerVars, loopVars, threadVars, queueVars
<1>1. CASE UNCHANGED vars
  BY <1>1 DEF StoppedInv, TurnInv, TurnTypes, Odd, vars
<1>2. CASE ParseLine
  BY <1>2 DEF StoppedInv, TurnInv, TurnTypes, Odd, ParseLine
<1>3. CASE NextFile
  BY <1>3 DEF StoppedInv, TurnInv, TurnTypes, Odd, NextFile
<1>4. CASE CreateChannel
  BY <1>4 DEF StoppedInv, TurnInv, TurnTypes, Odd, CreateChannel
<1>5. CASE CreateDataHandlers
  BY <1>5 DEF StoppedInv, TurnInv, TurnTypes, Odd, CreateDataHandlers
<1>6. CASE StartDm
  BY <1>6 DEF StoppedInv, TurnInv, TurnTypes, Odd, StartDm, StartThread
<1>7. CASE StartAgg
  BY <1>7 DEF StoppedInv, TurnInv, TurnTypes, Odd, StartAgg, StartThread
<1>8. CASE Started
  BY <1>8 DEF StoppedInv, TurnInv, TurnTypes, Odd, Started
<1>9. CASE StopDm
  BY <1>9 DEF StoppedInv, TurnInv, TurnTypes, Odd, StopDm, ClearFlag
<1>10. CASE JoinDm
  BY <1>10 DEF StoppedInv, TurnInv, TurnTypes, Odd, JoinDm, JoinOrDetach
<1>11. CASE StopAgg
  BY <1>11 DEF StoppedInv, TurnInv, TurnTypes, Odd, StopAgg, ClearFlag
<1>12. CASE JoinAgg
  BY <1>12 DEF StoppedInv, TurnInv, TurnTypes, Odd, JoinAgg, JoinOrDetach
<1>13. CASE JoinReceiver
  <2>1. DOMAIN m_channels' = DOMAIN m_channels
    BY <1>13, JoinReceiverStops DEF ReceiverStopped
  <2>2. main' \in {"joinTx", "stop"} /\ UNCHANGED calls
    BY <1>13 DEF StoppedInv, TurnInv, TurnTypes, Odd, JoinReceiver, AfterReceiver
  <2> QED
    BY <2>1, <2>2 DEF StoppedInv
<1>14. CASE JoinTransmitter
  <2>1. DOMAIN m_channels' = DOMAIN m_channels
    BY <1>14, JoinTransmitterStops DEF TransmitterStopped
  <2>2. main' = "stop" /\ UNCHANGED calls
    BY <1>14 DEF StoppedInv, TurnInv, TurnTypes, Odd, JoinTransmitter
  <2> QED
    BY <2>1, <2>2 DEF StoppedInv
<1>15. CASE ClearChannels
  BY <1>15 DEF StoppedInv, TurnInv, TurnTypes, Odd, ClearChannels
<1>16. ASSUME NEW n \in todo, StartChannel(n) PROVE StoppedInv'
  BY <1>16 DEF StoppedInv, TurnInv, TurnTypes, Odd, StartChannel
<1>17. ASSUME NEW n \in todo, StopReceiver(n) PROVE StoppedInv'
  BY <1>17 DEF StoppedInv, TurnInv, TurnTypes, Odd, StopReceiver
<1>18. CASE CallStart
  BY <1>18 DEF StoppedInv, TurnInv, TurnTypes, Odd, CallStart
<1>19. CASE CallStop
  BY <1>19 DEF StoppedInv, TurnInv, TurnTypes, Odd, CallStop
<1>20. ASSUME NEW n \in DOMAIN rx, ReceiverExit(n) PROVE StoppedInv'
  BY <1>20 DEF StoppedInv, TurnInv, TurnTypes, Odd, ReceiverExit
<1>21. ASSUME NEW n \in DOMAIN rx, TransmitterExit(n) PROVE StoppedInv'
  BY <1>21 DEF StoppedInv, TurnInv, TurnTypes, Odd, TransmitterExit
<1>22. ASSUME NEW t \in Queue, QueueThreadExit(t) PROVE StoppedInv'
  BY <1>22 DEF StoppedInv, TurnInv, TurnTypes, Odd, QueueThreadExit
<1> QED
  BY <1>1, <1>2, <1>3, <1>4, <1>5, <1>6, <1>7, <1>8, <1>9, <1>10, <1>11, <1>12, <1>13, <1>14,
     <1>15, <1>16, <1>17, <1>18, <1>19, <1>20, <1>21, <1>22 DEF Next, Main, ChannelThreads,
     QueueThreads, Queue


-----------------------------------------------------------------------------
(* The theorems about sockets and threads.                                 *)

AllInv ==
  TypeInv /\ TurnInv /\ HeldInv /\ EthernetInv /\ SetupInv /\ ThreadInv /\ StoppedInv

\* The invariant holds at first,
LEMMA InitAllInv == Init => AllInv
<1> SUFFICES ASSUME Init PROVE AllInv
  OBVIOUS
<1>1. /\ main = "load" /\ section = 1 /\ m_channels = <<>> /\ fds = <<>> /\ rx = <<>>
      /\ todo = {} /\ calls = <<>>
  BY Zenon DEF Init
<1>2. DOMAIN m_channels = {} /\ DOMAIN fds = {} /\ DOMAIN rx = {}
  BY <1>1
<1>3. TypeInv /\ TurnInv
  BY InitTypeInv, InitTurnInv
<1>4. HeldInv /\ EthernetInv
  BY <1>2 DEF HeldInv, HeldIsOpen, HeldOnce, OpenIsHeld, EthernetInv
<1>5. SetupInv
  BY <1>1, <1>2 DEF SetupInv, InSetup
<1>6. ThreadInv
  BY <1>1, <1>2 DEF ThreadInv
<1>7. StoppedInv
  BY <1>2 DEF StoppedInv, Gone
<1> QED
  BY <1>3, <1>4, <1>5, <1>6, <1>7 DEF AllInv

\* after every step,
LEMMA NextAllInv == AllInv /\ [Next]_vars => AllInv'
<1> SUFFICES ASSUME AllInv, [Next]_vars PROVE AllInv'
  OBVIOUS
<1>1. /\ TurnTypes /\ SettingsInv /\ RouterTypes /\ ThreadTypes
      /\ TurnInv /\ HeldInv /\ EthernetInv /\ SetupInv /\ ThreadInv /\ StoppedInv
  BY DEF AllInv, TypeInv
<1>2. TypeInv' /\ TurnTypes'
  BY <1>1, NextTypeInv DEF TypeInv
<1>3. TurnInv'
  BY <1>1, <1>2, NextTurnInv
<1>4. HeldInv' /\ SetupInv' /\ ThreadInv' /\ StoppedInv'
  BY <1>1, NextHeldInv, NextSetupInv, NextThreadInv, NextStoppedInv
<1>5. EthernetInv'
  BY <1>1, <1>4, NextEthernetInv
<1> QED
  BY <1>2, <1>3, <1>4, <1>5 DEF AllInv

\* and so always.
LEMMA AlwaysAllInv == Spec => []AllInv
BY InitAllInv, NextAllInv, PTL DEF Spec

\* The Ethernet socket and the CAN bus of an endpoint, as the properties ask for them.
LEMMA EthernetThere ==
  ASSUME AllInv, NEW n \in DOMAIN m_channels
  PROVE  /\ HasEthernet(m_channels[n].receiver) /\ HasEthernet(m_channels[n].transmitter)
         /\ m_channels[n].receiver.m_is_initialized /\ ~m_channels[n].receiver.memory =>
              fds[m_channels[n].receiver.m_eth_fd].ifname = m_channels[n].ifname
<1> DEFINE c == m_channels[n]
<1>1. \A k \in Field : FdOf(c, k) \in Descriptors =>
        FdOf(c, k) \in DOMAIN fds /\ fds[FdOf(c, k)].family = Family(k)
  BY DEF AllInv, HeldInv, HeldIsOpen
<1>2. "receiver.eth" \in Field /\ "transmitter.eth" \in Field
  BY DEF Field
<1>3. /\ c.receiver.m_eth_fd \in Descriptors =>
           c.receiver.m_eth_fd \in DOMAIN fds /\ fds[c.receiver.m_eth_fd].family = "packet"
      /\ c.transmitter.m_eth_fd \in Descriptors =>
           c.transmitter.m_eth_fd \in DOMAIN fds /\ fds[c.transmitter.m_eth_fd].family = "packet"
  BY <1>1, <1>2, FdOfChannel, FamilyOfField
<1> QED
  BY <1>3 DEF HasEthernet, AllInv, EthernetInv

\* A CAN bus is open as long as its socket is held.
LEMMA CanBusThere ==
  ASSUME AllInv, NEW n \in DOMAIN m_channels
  PROVE  /\ CanThere(m_channels[n].receiver) => HasCan(m_channels[n].receiver)
         /\ CanThere(m_channels[n].transmitter) => HasCan(m_channels[n].transmitter)
<1> DEFINE c == m_channels[n]
<1>1. \A k \in Field : FdOf(c, k) \in Descriptors =>
        FdOf(c, k) \in DOMAIN fds /\ fds[FdOf(c, k)].family = Family(k)
  BY DEF AllInv, HeldInv, HeldIsOpen
<1>2. "receiver.can" \in Field /\ "transmitter.can" \in Field
  BY DEF Field
<1>3. /\ CanFd(c.receiver) \in Descriptors =>
           CanFd(c.receiver) \in DOMAIN fds /\ fds[CanFd(c.receiver)].family = "can"
      /\ CanFd(c.transmitter) \in Descriptors =>
           CanFd(c.transmitter) \in DOMAIN fds /\ fds[CanFd(c.transmitter)].family = "can"
  BY <1>1, <1>2, FdOfChannel, FamilyOfField
<1> QED
  BY <1>3 DEF CanThere, CanFd, HasCan

\* A thread of a channel that runs has its sockets open, its own and of the right kind,
\* whichever call failed: Receiver, Transmitter, CanReader and CanWriter close a CAN bus
\* only after the thread that uses it has been joined.
THEOREM RunningThreadsHaveSockets == Spec => []ThreadsHaveSockets
<1>1. AllInv => ThreadsHaveSockets
  <2> SUFFICES ASSUME AllInv, NEW n \in DOMAIN m_channels \cap DOMAIN rx
               PROVE  LET c == m_channels[n] IN
                      /\ rx[n] = "running" =>
                           /\ HasEthernet(c.receiver) /\ HasCan(c.receiver)
                           /\ ~c.receiver.memory => fds[c.receiver.m_eth_fd].ifname = c.ifname
                      /\ tx[n] = "running" =>
                           HasEthernet(c.transmitter) /\ HasCan(c.transmitter)
                             /\ c.transmitter.can_init
    BY DEF ThreadsHaveSockets
  <2> DEFINE c == m_channels[n]
  <2>1. /\ HasEthernet(c.receiver) /\ HasEthernet(c.transmitter)
        /\ c.receiver.m_is_initialized /\ ~c.receiver.memory =>
             fds[c.receiver.m_eth_fd].ifname = c.ifname
    BY EthernetThere
  <2>2. /\ CanThere(c.receiver) => HasCan(c.receiver)
        /\ CanThere(c.transmitter) => HasCan(c.transmitter)
    BY CanBusThere
  <2>3. rx[n] = "running" => c.receiver.m_is_initialized /\ CanThere(c.receiver)
    BY DEF AllInv, ThreadInv
  <2>4. tx[n] = "running" => c.transmitter.m_is_can_enabled /\ CanThere(c.transmitter)
    BY DEF AllInv, ThreadInv
  <2>5. CanThere(c.transmitter) /\ c.transmitter.m_is_can_enabled => c.transmitter.can_init
    BY DEF CanThere
  <2> QED
    BY <2>1, <2>2, <2>3, <2>4, <2>5
<1> QED
  BY <1>1, AlwaysAllInv, PTL

\* Once stop() has returned, no thread of a channel runs or is left to be joined, and
\* every CAN socket is closed, also if start() is called again: DataRouter::stop clears
\* the channels.
THEOREM StopLeavesNothing == Spec => []NothingLeftAfterStop
<1>1. AllInv => NothingLeftAfterStop
  <2> SUFFICES ASSUME AllInv, main = "idle", NEW i \in DOMAIN calls, calls[i] = "stop"
               PROVE  /\ \A n \in DOMAIN rx : rx[n] = "none" /\ tx[n] = "none"
                      /\ \A fd \in DOMAIN fds : fds[fd].family = "packet"
                      /\ Last(calls) = "stop" =>
                           \A t \in {"dm", "agg"} : queue_thread[t] = "none"
    BY DEF NothingLeftAfterStop
  <2>1. calls \in Seq({"start", "stop"}) /\ InTurnUpTo(Len(calls)) /\ Threads(Odd, Odd)
    BY DEF AllInv, TurnInv, TurnTypes
  <2>2. i \in 1..Len(calls) /\ i # 1 /\ Len(calls) >= 2
    BY <2>1 DEF InTurnUpTo
  <2>3. DOMAIN m_channels = {}
    BY <2>2 DEF AllInv, StoppedInv, Gone
  <2>4. \A n \in DOMAIN rx : rx[n] = "none" /\ tx[n] = "none"
    BY <2>3 DEF AllInv, ThreadInv
  <2>5. \A fd \in DOMAIN fds : fds[fd].family = "packet"
    BY <2>3 DEF AllInv, HeldInv, OpenIsHeld, SetupInv, InSetup
  <2>6. Last(calls) = "stop" => ~Odd
    BY <2>1, <2>2 DEF Last, InTurnUpTo, Odd
  <2> QED
    BY <2>1, <2>4, <2>5, <2>6 DEF Threads
<1> QED
  BY <1>1, AlwaysAllInv, PTL

\* A field, as the property names it.
Entry(n, k) ==
  CASE k = "receiver.eth" -> <<n, "receiver", "eth", m_channels[n].receiver.m_eth_fd>>
    [] k = "receiver.can" -> <<n, "receiver", "can", m_channels[n].receiver.m_can_socket>>
    [] k = "transmitter.eth" -> <<n, "transmitter", "eth", m_channels[n].transmitter.m_eth_fd>>
    [] k = "transmitter.can" ->
         <<n, "transmitter", "can", m_channels[n].transmitter.m_can_socket>>

\* The two ways to say which fields hold a descriptor.
LEMMA HeldEntries ==
  ASSUME NEW fd \in Descriptors
  PROVE  \A h : (h \in Held /\ h[4] = fd) <=>
           \E n \in DOMAIN m_channels : \E k \in Field :
             h = Entry(n, k) /\ FdOf(m_channels[n], k) = fd
<1>1. \A h : h \in Held <=>
        \E n \in DOMAIN m_channels :
          \/ h = Entry(n, "receiver.eth")
          \/ h = Entry(n, "receiver.can") /\ m_channels[n].receiver.can_init
          \/ h = Entry(n, "transmitter.eth")
          \/ h = Entry(n, "transmitter.can") /\ m_channels[n].transmitter.can_init
  BY DEF Held, HeldBy, Entry
<1>2. ASSUME NEW n \in DOMAIN m_channels
      PROVE  /\ Entry(n, "receiver.eth")[4] = FdOf(m_channels[n], "receiver.eth")
             /\ Entry(n, "transmitter.eth")[4] = FdOf(m_channels[n], "transmitter.eth")
             /\ Entry(n, "receiver.can")[4] = fd /\ m_channels[n].receiver.can_init
                  <=> FdOf(m_channels[n], "receiver.can") = fd
             /\ Entry(n, "transmitter.can")[4] = fd /\ m_channels[n].transmitter.can_init
                  <=> FdOf(m_channels[n], "transmitter.can") = fd
  BY FdOfChannel, NoDescriptor DEF Entry, CanFd
<1> QED
  BY <1>1, <1>2 DEF Field

\* While there are channels, every open descriptor is held by exactly one field of one of
\* them, whichever calls failed: no error path of comm-if forgets a socket, and no two
\* parts of the program share one.
THEOREM EveryDescriptorHasOneOwner == Spec => []DescriptorsAreOwned
<1>1. AllInv => DescriptorsAreOwned
  <2> SUFFICES ASSUME AllInv, DOMAIN m_channels # {}, ~Wraps, NEW fd \in DOMAIN fds
               PROVE  Cardinality({h \in Held : h[4] = fd}) = 1
    BY DEF DescriptorsAreOwned, Wraps
  <2>1. fd \in Descriptors
    BY TableIsFunction DEF AllInv, TypeInv, RouterTypes
  <2>2. PICK n \in DOMAIN m_channels, k \in Field : FdOf(m_channels[n], k) = fd
    BY DEF AllInv, HeldInv, OpenIsHeld
  <2>3. \A m \in DOMAIN m_channels : \A l \in Field :
          FdOf(m_channels[m], l) = fd => m = n /\ l = k
    BY <2>1, <2>2 DEF AllInv, HeldInv, HeldOnce
  <2>4. {h \in Held : h[4] = fd} = {Entry(n, k)}
    BY <2>1, <2>2, <2>3, HeldEntries
  <2> QED
    BY <2>4, FS_Singleton
<1> QED
  BY <1>1, AlwaysAllInv, PTL

-----------------------------------------------------------------------------
(* The channels are those of the settings.                                 *)

\* Before the first call: each channel is as the settings of its section say, and the
\* loop has come to section.
AsSetInv ==
  /\ calls = <<>> => /\ main \in InSetup \cup {"idle"}
                     /\ \A n \in DOMAIN m_channels : AsSet(n, m_channels[n], fds)
  /\ main = "init" /\ ~Wraps => /\ DOMAIN m_channels = 1..section - 1
                                /\ section \in 1..NumChannels + 1
  /\ main = "idle" /\ calls = <<>> => /\ DOMAIN m_channels = 1..NumChannels
                                      /\ \A n \in DOMAIN m_channels : m_channels[n].handler

\* What the settings say changes only while they are read.
LEMMA SameAsSet ==
  ASSUME UNCHANGED m_settings_map
  PROVE  /\ \A n, c, table : AsSet(n, c, table)' <=> AsSet(n, c, table)
         /\ NumChannels' = NumChannels /\ (Wraps' <=> Wraps)
<1>1. \A n, c, table : AsSet(n, c, table)' <=> AsSet(n, c, table)
  <2> SUFFICES ASSUME NEW n, NEW c, NEW table PROVE AsSet(n, c, table)' <=> AsSet(n, c, table)
    OBVIOUS
  <2> QED
    BY Zenon DEF AsSet, GetData, CanSet, ChannelName
<1>2. NumChannels' = NumChannels
  BY Zenon DEF NumChannels, GetData
<1> QED
  BY <1>1, <1>2, SameWraps

\* A step before the first call that touches no channel.
LEMMA SameChannelsAsSet ==
  ASSUME AsSetInv, UNCHANGED <<m_settings_map, main, section, m_channels, fds, calls>>
  PROVE  AsSetInv'
BY SameAsSet DEF AsSetInv

\* After the first call there is nothing left to show.
LEMMA CalledAsSet ==
  ASSUME calls' # <<>>, main' # "init"
  PROVE  AsSetInv'
BY DEF AsSetInv

\* The first section is number 1.
LEMMA NextFileAsSet ==
  ASSUME SettingsInv, SetupInv, AsSetInv, NextFile
  PROVE  AsSetInv'
<1>1. /\ main = "load" /\ UNCHANGED <<m_settings_map, section, m_channels, fds, calls>>
      /\ main' \in {"load", "init"}
  BY DEF NextFile, loopVars, threadVars, queueVars
<1>2. DOMAIN m_channels = {} /\ section = 1
  BY <1>1 DEF SetupInv
<1>3. NumChannels \in Nat
  BY ChannelNumbers, ConfigsAssumption DEF Numbers
<1>4. DOMAIN m_channels = 1..section - 1 /\ section \in 1..NumChannels + 1
  BY <1>2, <1>3
<1> QED
  BY <1>1, <1>2, <1>4, SameAsSet DEF AsSetInv, InSetup

\* A channel stays as its section says when more descriptors are opened.
LEMMA StaysAsSet ==
  ASSUME NEW n, NEW c, NEW table, NEW after, AsSet(n, c, table),
         DOMAIN table \subseteq DOMAIN after, \A fd \in DOMAIN table : after[fd] = table[fd]
  PROVE  AsSet(n, c, after)
<1> DEFINE Get(key) == GetData(ChannelName(n), key)
           rxon == Get("CAN_RECEIVER_ENABLED") = "true"
           txon == Get("CAN_TRANSMITTER_ENABLED") = "true"
           rxif == Get("CAN_IF_NAME_RECEIVER")
           txif == Get("CAN_IF_NAME_TRANSMITTER")
<1>1. CanSet(c.receiver, rxon, rxif, table) /\ CanSet(c.transmitter, txon, txif, table)
  BY Zenon DEF AsSet
<1>2. ASSUME CanSet(c.receiver, rxon, rxif, after), CanSet(c.transmitter, txon, txif, after)
      PROVE  AsSet(n, c, after)
  BY <1>2, Zenon DEF AsSet
<1> HIDE DEF rxon, txon, rxif, txif
<1>3. CanSet(c.receiver, rxon, rxif, after) /\ CanSet(c.transmitter, txon, txif, after)
  BY <1>1, CanStaysSet
<1> QED
  BY <1>2, <1>3, Zenon

\* A channel of the loop is as its section says, and those before it stay.
LEMMA CreateChannelAsSet ==
  ASSUME SettingsInv, RouterTypes, AsSetInv, CreateChannel
  PROVE  AsSetInv'
<1>1. PICK c \in Channel :
        /\ m_channels' = [n \in DOMAIN m_channels \cup {section} |->
                            IF n = section THEN c ELSE m_channels[n]]
        /\ NewSockets(c) /\ AsSet(section, c, fds')
  BY CreatedSockets
<1>2. /\ main = "init" /\ main' = "init" /\ UNCHANGED <<m_settings_map, calls>>
      /\ section <= NumChannels /\ section' = (section + 1) % ByteModulus
  BY DEF CreateChannel, settingsVars, NextSection
<1>3. /\ section \in Nat /\ NumChannels \in Nat /\ NumChannels < ByteModulus
      /\ ByteModulus \in Nat
  BY ChannelNumbers, ConfigsAssumption DEF RouterTypes, Numbers
<1>4. DOMAIN fds \subseteq DOMAIN fds' /\ \A fd \in DOMAIN fds : fds'[fd] = fds[fd]
  BY <1>1 DEF NewSockets
<1>5. ASSUME calls = <<>>, NEW n \in DOMAIN m_channels' PROVE AsSet(n, m_channels'[n], fds')
  <2>1. CASE n = section
    BY <1>1, <2>1
  <2>2. CASE n # section
    <3>1. n \in DOMAIN m_channels /\ m_channels'[n] = m_channels[n]
      BY <1>1, <1>5, <2>2
    <3>2. AsSet(n, m_channels[n], fds)
      BY <1>5, <3>1 DEF AsSetInv
    <3>3. AsSet(n, m_channels[n], fds')
      BY <1>4, <3>2, StaysAsSet
    <3> QED
      BY <3>1, <3>3, Zenon
  <2> QED
    BY <2>1, <2>2
<1>6. CASE Wraps
  BY <1>2, <1>5, <1>6, SameAsSet DEF AsSetInv, InSetup
<1>7. CASE ~Wraps
  <2>1. section + 1 \in Nat /\ section + 1 < ByteModulus
    BY <1>2, <1>3, <1>7 DEF Wraps
  <2>2. section' = section + 1
    BY <1>2, <2>1, SmallNumber
  <2>3. DOMAIN m_channels = 1..section - 1 /\ section \in 1..NumChannels + 1
    BY <1>2, <1>7 DEF AsSetInv
  <2>4. DOMAIN m_channels' = 1..section' - 1 /\ section' \in 1..NumChannels + 1
    BY <1>1, <1>2, <1>3, <2>2, <2>3
  <2> QED
    BY <1>2, <1>5, <2>4, SameAsSet DEF AsSetInv, InSetup
<1> QED
  BY <1>6, <1>7

\* The end of the loop; each channel gets the callback.
LEMMA CreateDataHandlersAsSet ==
  ASSUME SettingsInv, RouterTypes, SetupInv, SetupInv', AsSetInv, TurnInv, CreateDataHandlers
  PROVE  AsSetInv'
<1>1. /\ main = "init" /\ main' = "idle" /\ UNCHANGED <<m_settings_map, fds, calls>>
      /\ section > NumChannels
      /\ m_channels' = [n \in DOMAIN m_channels |-> Registered(m_channels[n])]
  BY DEF CreateDataHandlers, settingsVars
<1>2. calls = <<>> /\ section \in Nat /\ NumChannels \in Nat
  BY <1>1, ChannelNumbers, ConfigsAssumption DEF TurnInv, InSetup, RouterTypes, Numbers
<1>3. ~Wraps
  BY <1>1, SameWraps DEF SetupInv, InSetup
<1>4. DOMAIN m_channels = 1..NumChannels
  BY <1>1, <1>2, <1>3 DEF AsSetInv
<1>5. ASSUME NEW n \in DOMAIN m_channels'
      PROVE  AsSet(n, m_channels'[n], fds') /\ m_channels'[n].handler
  <2>1. m_channels'[n] = Registered(m_channels[n]) /\ n \in DOMAIN m_channels
    BY <1>1, <1>5
  <2>2. m_channels[n] \in Channel
    BY <2>1 DEF RouterTypes
  <2> DEFINE c == m_channels[n]  r == Registered(c)
  <2>3. /\ r.receiver = c.receiver /\ r.transmitter = c.transmitter /\ r.ifname = c.ifname
        /\ r.handler
    BY <2>2, RegisteredChannel DEF Registered, Channel
  <2>4. AsSet(n, c, fds)
    BY <1>2, <2>1 DEF AsSetInv
  <2> HIDE DEF c, r
  <2>5. AsSet(n, r, fds)
    BY <2>3, <2>4, Zenon DEF AsSet
  <2> QED
    BY <1>1, <2>1, <2>3, <2>5, Zenon DEF c, r
<1> QED
  BY <1>1, <1>4, <1>5, SameAsSet DEF AsSetInv, InSetup

\* Every step keeps the channels as set.
LEMMA NextAsSetInv == AllInv /\ AllInv' /\ AsSetInv /\ [Next]_vars => AsSetInv'
<1> SUFFICES ASSUME AllInv, AllInv', AsSetInv, [Next]_vars PROVE AsSetInv'
  OBVIOUS
<1>0. /\ SettingsInv /\ RouterTypes /\ TurnInv /\ SetupInv /\ SetupInv'
      /\ calls \in Seq({"start", "stop"})
  BY DEF AllInv, TypeInv, TurnInv, TurnTypes
<1> USE DEF routerVars, settingsVars, loopVars, threadVars, queueVars
<1>1. CASE CallStart \/ CallStop
  <2>1. PICK call : calls' = Append(calls, call)
    BY <1>1 DEF CallStart, CallStop
  <2>2. main' # "init"
    BY <1>1 DEF CallStart, CallStop
  <2> QED
    BY <1>0, <2>1, <2>2, CalledAsSet
<1>2. CASE calls # <<>> /\ ~CallStart /\ ~CallStop
  <2>1. main \notin InSetup
    BY <1>0, <1>2 DEF TurnInv
  <2>2. calls' = calls /\ main' # "init"
    BY <1>2, <2>1
       DEF Next, Main, ChannelThreads, QueueThreads, vars, CreateChannel, CreateDataHandlers,
           StartDm, StartAgg, StartThread, Started, StopDm, StopAgg, ClearFlag, JoinDm, JoinAgg,
           JoinOrDetach, JoinReceiver, AfterReceiver, JoinTransmitter, ClearChannels,
           StartChannel, StopReceiver, ReceiverExit, TransmitterExit, QueueThreadExit, InSetup,
           ParseLine, NextFile
  <2> QED
    BY <1>2, <2>2, CalledAsSet
<1>3. CASE ParseLine
  <2>1. /\ main = "load" /\ main' = "load" /\ UNCHANGED <<section, m_channels, fds, calls>>
    BY <1>3 DEF ParseLine
  <2>2. DOMAIN m_channels = {}
    BY <1>0, <2>1 DEF SetupInv
  <2> QED
    BY <2>1, <2>2 DEF AsSetInv, InSetup
<1>4. CASE NextFile
  BY <1>0, <1>4, NextFileAsSet
<1>5. CASE CreateChannel
  BY <1>0, <1>5, CreateChannelAsSet
<1>6. CASE CreateDataHandlers
  BY <1>0, <1>6, CreateDataHandlersAsSet
<1>7. CASE /\ calls = <<>> /\ ~ParseLine /\ ~NextFile /\ ~CreateChannel /\ ~CreateDataHandlers
           /\ ~CallStart /\ ~CallStop
  <2>1. main \in InSetup \cup {"idle"}
    BY <1>7 DEF AsSetInv
  <2>2. UNCHANGED <<m_settings_map, main, section, m_channels, fds, calls>>
    BY <1>7, <2>1
       DEF Next, Main, ChannelThreads, QueueThreads, vars,
           StartDm, StartAgg, StartThread, Started, StopDm, StopAgg, ClearFlag, JoinDm, JoinAgg,
           JoinOrDetach, JoinReceiver, AfterReceiver, JoinTransmitter, ClearChannels,
           StartChannel, StopReceiver, ReceiverExit, TransmitterExit, QueueThreadExit, InSetup
  <2> QED
    BY <2>2, SameChannelsAsSet
<1> QED
  BY <1>1, <1>2, <1>3, <1>4, <1>5, <1>6, <1>7

\* Nothing is set up at first.
LEMMA InitAsSetInv == Init => AsSetInv
<1> SUFFICES ASSUME Init PROVE AsSetInv
  OBVIOUS
<1>1. main = "load" /\ m_channels = <<>>
  BY Zenon DEF Init
<1>2. DOMAIN m_channels = {}
  BY <1>1
<1> QED
  BY <1>1, <1>2 DEF AsSetInv, InSetup

\* A CAN bus that is set is as the property asks.
LEMMA SetAsConfigured ==
  ASSUME NEW end, NEW enabled, NEW can_ifname,
         CanSet(end, enabled = "true", can_ifname, fds)
  PROVE  CanAsConfigured(end, enabled, can_ifname)
BY Zenon DEF CanSet, CanAsConfigured

\* The channels that are as set are as configured, since the map holds what the files say.
LEMMA AsSetShows ==
  ASSUME SettingsInv, ReadInv, AsSetInv
  PROVE  ChannelsAsConfigured
<1> SUFFICES ASSUME main = "idle", calls = <<>> PROVE ChannelsAsConfigured
  BY Zenon DEF ChannelsAsConfigured
<1> DEFINE text == Configured("DEFAULT", "NUM_CHANNEL")
           Set(n, key) == Configured(ChannelName(n), key)
<1>1. \A name, key : GetData(name, key) = Configured(name, key)
  BY GetsConfigured
<1>2. DOMAIN m_channels = 1..(IF text \in DOMAIN Stoi THEN Stoi[text] % ByteModulus ELSE 0)
  <2>1. NumChannels = IF text \in DOMAIN Stoi THEN Stoi[text] % ByteModulus ELSE 0
    BY <1>1, Zenon DEF NumChannels
  <2>2. DOMAIN m_channels = 1..NumChannels
    BY DEF AsSetInv
  <2> QED
    BY <2>1, <2>2, Zenon
<1>3. ASSUME NEW n \in DOMAIN m_channels
      PROVE  /\ m_channels[n].handler /\ m_channels[n].ifname = Set(n, "ETH_IF_NAME")
             /\ CanAsConfigured(m_channels[n].receiver, Set(n, "CAN_RECEIVER_ENABLED"),
                                Set(n, "CAN_IF_NAME_RECEIVER"))
             /\ CanAsConfigured(m_channels[n].transmitter, Set(n, "CAN_TRANSMITTER_ENABLED"),
                                Set(n, "CAN_IF_NAME_TRANSMITTER"))
  <2> DEFINE c == m_channels[n]
  <2>1. AsSet(n, c, fds) /\ c.handler
    BY DEF AsSetInv
  <2> HIDE DEF c
  <2>2. /\ c.ifname = Set(n, "ETH_IF_NAME")
        /\ CanSet(c.receiver, Set(n, "CAN_RECEIVER_ENABLED") = "true",
                  Set(n, "CAN_IF_NAME_RECEIVER"), fds)
        /\ CanSet(c.transmitter, Set(n, "CAN_TRANSMITTER_ENABLED") = "true",
                  Set(n, "CAN_IF_NAME_TRANSMITTER"), fds)
    BY <1>1, <2>1, Zenon DEF AsSet
  <2> HIDE DEF Set
  <2>3. /\ CanAsConfigured(c.receiver, Set(n, "CAN_RECEIVER_ENABLED"),
                           Set(n, "CAN_IF_NAME_RECEIVER"))
        /\ CanAsConfigured(c.transmitter, Set(n, "CAN_TRANSMITTER_ENABLED"),
                           Set(n, "CAN_IF_NAME_TRANSMITTER"))
    BY <2>2, SetAsConfigured
  <2> QED
    BY <2>1, <2>2, <2>3, Zenon DEF c
<1> QED
  BY <1>2, <1>3, Zenon DEF ChannelsAsConfigured

\* Before the first call, whatever the files hold and whichever sockets failed, the router
\* has the channels that the files ask for: the first value that a file gives to a key of a
\* section counts, as Settings::parse and DataRouter::init have it.
THEOREM ChannelsFollowTheFiles == Spec => []ChannelsAsConfigured
<1>1. AllInv => SettingsInv
  BY DEF AllInv, TypeInv
<1>2. Init => AllInv /\ ReadInv /\ AsSetInv
  BY InitAllInv, InitReadInv, InitAsSetInv
<1>3. AllInv /\ ReadInv /\ AsSetInv /\ [Next]_vars => (AllInv /\ ReadInv /\ AsSetInv)'
  BY <1>1, NextAllInv, NextReadInv, NextAsSetInv
<1>4. AllInv /\ ReadInv /\ AsSetInv => ChannelsAsConfigured
  BY <1>1, AsSetShows
<1> QED
  BY <1>2, <1>3, <1>4, PTL DEF Spec
=============================================================================
