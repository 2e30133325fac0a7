--------------------------- MODULE MCChannelSetup ---------------------------
(* Settings files for up to two channels.                                   *)
EXTENDS ChannelSetup

Section(name) == [section |-> name]
Set(key, value) == [key |-> key, value |-> value]

\* The sections of a channel with both CAN buses, and with none.
Bridge(name) == <<Section(name), Set("ETH_IF_NAME", "eth0"), Set("DEST_MAC_ADDR", "valid"),
                  Set("CAN_IF_NAME_RECEIVER", "vcan0"), Set("CAN_RECEIVER_ENABLED", "true"),
                  Set("CAN_IF_NAME_TRANSMITTER", "vcan1"), Set("CAN_TRANSMITTER_ENABLED", "true")>>
Misspelt(name) == <<Section(name), Set("ETH_IF_NAME", "eth9"), Set("DEST_MAC_ADDR", "invalid"),
                    Set("CAN_IF_NAME_TRANSMITTER", "vcan9"), Set("CAN_TRANSMITTER_ENABLED", "true")>>
Loop(name) == <<Section(name), Set("ETH_IF_NAME", "lo"), Set("CAN_RECEIVER_ENABLED", "false")>>

Count(value) == <<Section("DEFAULT"), Set("NUM_CHANNEL", value)>>

\* settings.dat is opened as ./settings.dat again, /etc may have another one.
Twice(f) == <<f, f>>
MCConfigs ==
  {Twice(Count("2") \o Bridge("CHANNEL1") \o Loop("CHANNEL2")),
   Twice(Count("2") \o Misspelt("CHANNEL1") \o Bridge("CHANNEL2")),
   Twice(Count("1") \o Bridge("CHANNEL1")) \o <<Count("2") \o Loop("CHANNEL1")>>,
   <<Count("many") \o Loop("CHANNEL1")>>,
   Twice(Count("5") \o Loop("CHANNEL1")),
   Twice(Count("3")),
   <<>>}
MCOneChannel == {Twice(Count("1") \o Bridge("CHANNEL1"))}
MCInterfaces == {"lo", "eth0", "vcan0", "vcan1"}
MCCanInterfaces == {"vcan0", "vcan1"}
MCMacAddresses == {"valid"}
MCStoi == [v \in {"1", "2", "3", "5"} |->
             CASE v = "1" -> 1 [] v = "2" -> 2 [] v = "3" -> 3 [] v = "5" -> 5]
=============================================================================
