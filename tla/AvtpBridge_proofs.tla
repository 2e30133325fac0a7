-------------------------- MODULE AvtpBridge_proofs --------------------------
(***************************************************************************)
(* Proofs about AvtpBridge, for any number of frames, failed calls, lost   *)
(* packets and other talkers, any modulus of the sequence numbers and any  *)
(* number of slots that num_can_msgs can count.                            *)
(*                                                                         *)
(* The invariant AllInv follows a frame on its way: what the network may   *)
(* carry (PacketInv), the number the receiver expects (SeqInv), the packet *)
(* it has in hand (HandInv, OutInv, CountInv), and the order of the frames *)
(* and of their repetitions from the CAN socket to the CAN bus of the      *)
(* receiver (ReadInv, QueueInv, ItemsInv, WrittenInv, ExcessInv).          *)
(***************************************************************************)
EXTENDS AvtpBridge, TLAPS, FiniteSetTheorems, SequenceTheorems

-----------------------------------------------------------------------------
(* Numbers: the bounds, and the arithmetic of sequence numbers.             *)

\* What is assumed of the constants.
LEMMA Bounds ==
  /\ MaxFrames \in Nat /\ MaxErrors \in Nat /\ MaxLost \in Nat /\ MaxOthers \in Nat
  /\ SeqModulus \in Nat \ {0, 1} /\ Slots \in 2..254
BY BoundsAssumption

\* A sequence number is below the modulus.
LEMMA ModRange == \A a \in Int : a % SeqModulus \in 0..SeqModulus - 1
BY BoundsAssumption

\* Quotient and remainder.
LEMMA Division == \A a \in Int : \E q \in Int : a = SeqModulus * q + (a % SeqModulus)
<1>1. \A a \in Int : /\ a \div SeqModulus \in Int
                     /\ a = SeqModulus * (a \div SeqModulus) + (a % SeqModulus)
  BY BoundsAssumption
<1> QED
  BY <1>1

\* The remainder of a number that is written with its quotient.
LEMMA Remainder ==
  ASSUME NEW q \in Int, NEW r \in 0..SeqModulus - 1
  PROVE  (SeqModulus * q + r) % SeqModulus = r
BY BoundsAssumption

\* Numbers that are counted up modulo SeqModulus are the remainders of the count.
LEMMA NextRemainder ==
  ASSUME NEW a \in Int
  PROVE  ((a % SeqModulus) + 1) % SeqModulus = (a + 1) % SeqModulus
<1> DEFINE r == a % SeqModulus
<1>1. r \in 0..SeqModulus - 1
  BY ModRange
<1>2. PICK q \in Int : a = SeqModulus * q + r
  BY Division
<1> HIDE DEF r
<1>3. CASE r + 1 < SeqModulus
  <2>1. a + 1 = SeqModulus * q + (r + 1) /\ r + 1 = SeqModulus * 0 + (r + 1)
    BY <1>1, <1>2, BoundsAssumption
  <2>2. (a + 1) % SeqModulus = r + 1 /\ (r + 1) % SeqModulus = r + 1
    BY <1>1, <1>3, <2>1, Remainder, BoundsAssumption
  <2> QED
    BY <2>2 DEF r
<1>4. CASE r + 1 = SeqModulus
  <2>1. a + 1 = SeqModulus * (q + 1) + 0 /\ r + 1 = SeqModulus * 1 + 0
        /\ q + 1 \in Int /\ 1 \in Int
    BY <1>1, <1>2, <1>4, BoundsAssumption
  <2>2. 0 \in 0..SeqModulus - 1
    BY BoundsAssumption
  <2>3. \A p \in Int : (SeqModulus * p + 0) % SeqModulus = 0
    BY <2>2, Remainder
  <2>4. (a + 1) % SeqModulus = 0 /\ (r + 1) % SeqModulus = 0
    BY <2>1, <2>3
  <2> QED
    BY <2>4 DEF r
<1> QED
  BY <1>1, <1>3, <1>4, BoundsAssumption

\* Two numbers follow each other modulo SeqModulus when their difference is one.
LEMMA RemainderOfDifference ==
  ASSUME NEW a \in Int, NEW b \in Int
  PROVE  (a - 1) % SeqModulus = b % SeqModulus <=> (a - b) % SeqModulus = 1
<1> DEFINE r1 == (a - 1) % SeqModulus
           r2 == b % SeqModulus
           r3 == (a - b) % SeqModulus
<1>1. r1 \in 0..SeqModulus - 1 /\ r2 \in 0..SeqModulus - 1 /\ r3 \in 0..SeqModulus - 1
  BY ModRange
<1>2. PICK q1 \in Int : a - 1 = SeqModulus * q1 + r1
  BY Division
<1>3. PICK q2 \in Int : b = SeqModulus * q2 + r2
  BY Division
<1>4. PICK q3 \in Int : a - b = SeqModulus * q3 + r3
  BY Division
<1> HIDE DEF r1, r2, r3
<1>5. ASSUME r1 = r2 PROVE r3 = 1
  <2>1. a - b = SeqModulus * (q1 - q2) + 1
    BY <1>1, <1>2, <1>3, <1>5, BoundsAssumption
  <2>2. 1 \in 0..SeqModulus - 1 /\ q1 - q2 \in Int
    BY BoundsAssumption
  <2>3. (SeqModulus * (q1 - q2) + 1) % SeqModulus = 1
    BY <2>2, Remainder
  <2> QED
    BY <2>1, <2>3 DEF r3
<1>6. ASSUME r3 = 1 PROVE r1 = r2
  <2>1. a - 1 = SeqModulus * (q3 + q2) + r2
    BY <1>1, <1>3, <1>4, <1>6, BoundsAssumption
  <2>2. (SeqModulus * (q3 + q2) + r2) % SeqModulus = r2
    BY <1>1, Remainder
  <2> QED
    BY <2>1, <2>2 DEF r1
<1> QED
  BY <1>5, <1>6 DEF r1, r2, r3
-----------------------------------------------------------------------------
\* What the network may carry, when s packets of the transmitter's thread are sent.
Carried(p, s) ==
  /\ p \in Packet /\ Len(p.acf) <= Slots
  /\ p.from \in {"run", "app"} => Accepts(p) /\ Len(p.acf) >= 1
  /\ p.from = "run" => /\ Len(p.acf) = 1 /\ p.n \in 1..s
                       /\ p.seq = (p.n - 1) % SeqModulus
PacketInv == \A i \in 1..Len(eth) : Carried(eth[i], sent)

NumberInv == cf_seq_num = sent % SeqModulus

BusInv ==
  tx # "joined" => /\ Len(bus) = arrived - got
                   /\ \A i \in 1..Len(bus) : bus[i] = traffic[got + i]

TxTypes ==
  /\ tx \in {"off", "poll", "read", "send", "done", "joined"} /\ tx_running \in BOOLEAN
  /\ traffic \in Traffic /\ bus \in Seq(Sendable) /\ sock_err \in BOOLEAN /\ tx_frame \in CanFrame
  /\ arrived \in 0..MaxFrames /\ got \in 0..arrived /\ sent \in Nat
  /\ cf_seq_num \in 0..SeqModulus - 1
NetTypes ==
  /\ eth \in Seq(Packet) /\ signalled \in BOOLEAN
  /\ errors \in 0..MaxErrors /\ lost \in 0..MaxLost /\ others \in 0..MaxOthers
RxTypes ==
  /\ rx \in {"off", "poll", "recv", "callback", "write", "fault", "done", "joined"}
  /\ rx_running \in BOOLEAN
  /\ can_frames \in [1..Slots -> CanFrame]
  /\ num_can_msgs \in 0..255 /\ num \in 0..Slots /\ exp_cf_seqnum \in 0..SeqModulus - 1
  /\ from \in Talker \cup {"rejected"}
  /\ receptions \in Seq(Reception)
  /\ delivered \in Seq(Output) /\ writes \in Seq(Write) /\ m_is_can_enabled \in BOOLEAN

TypeInv == TxTypes /\ NetTypes /\ RxTypes /\ PacketInv /\ BusInv /\ NumberInv

\* The types, with what the network may carry and what is queued, are the type invariant.
LEMMA TypeInvIsTypeOK == TypeInv => TypeOK
BY DEF TypeInv, TxTypes, NetTypes, RxTypes, TypeOK

-----------------------------------------------------------------------------
\* The steps that change a part of the state.
LEMMA NextOfTx ==
  [Next]_vars =>
    \/ Arrive \/ ReceiveData \/ SendFrame \/ StartTx \/ TxPoll \/ StopTx \/ JoinTx
    \/ BusError \/ Signal \/ UNCHANGED txVars
BY DEF Next, TxStep, RxStep, Environment, vars, StartRx, RxPoll, Recv, Callback, SendData, JoinRx,
       SendPacket, Stranger, RecvFails, StopRx

\* What stands on the bus is a frame.
LEMMA SendableFrame == Sendable \subseteq CanFrame
BY DEF Sendable

\* The frames of the bus are numbered.
LEMMA TrafficFrame ==
  ASSUME NEW t \in Traffic, NEW i \in 1..MaxFrames
  PROVE  t[i] \in Sendable /\ t[i].id = i
BY TrafficAssumption, Bounds

\* The thread of the transmitter.
LEMMA NextTxTypes == TxTypes /\ BusInv /\ [Next]_vars => TxTypes'
<1> SUFFICES ASSUME TxTypes, BusInv, [Next]_vars
             PROVE  TxTypes'
  OBVIOUS
<1> USE DEF TxTypes
<1>1. CASE Arrive
  <2>1. traffic[arrived + 1] \in Sendable
    BY <1>1, TrafficFrame, Bounds DEF Arrive
  <2>2. bus' \in Seq(Sendable)
    BY <1>1, <2>1 DEF Arrive
  <2>3. arrived' \in 0..MaxFrames /\ got' \in 0..arrived'
    BY <1>1, Bounds DEF Arrive
  <2> QED
    BY <1>1, <2>2, <2>3 DEF Arrive
<1>2. CASE ReceiveData
  <2>1. CASE sock_err
    BY <1>2, <2>1 DEF ReceiveData
  <2>2. CASE ~sock_err
    <3>1. /\ bus # <<>> /\ tx_frame' = Head(bus) /\ bus' = Tail(bus) /\ got' = got + 1
          /\ UNCHANGED sock_err
      BY <1>2, <2>2, Zenon DEF ReceiveData
    <3>2. bus' \in Seq(Sendable) /\ Len(bus) > 0
      BY <3>1
    <3>3. Head(bus) \in CanFrame
      BY <3>1, SendableFrame
    <3>4. got' \in 0..arrived
      BY <1>2, <3>1, <3>2, Bounds DEF ReceiveData, BusInv
    <3> QED
      BY <1>2, <3>1, <3>2, <3>3, <3>4 DEF ReceiveData
  <2> QED
    BY <2>1, <2>2
<1>3. CASE SendFrame
  BY <1>3, ModRange DEF SendFrame
<1>4. CASE StartTx
  BY <1>4 DEF StartTx
<1>5. CASE TxPoll
  BY <1>5 DEF TxPoll
<1>6. CASE StopTx
  BY <1>6 DEF StopTx
<1>7. CASE JoinTx
  BY <1>7 DEF JoinTx
<1>8. CASE BusError
  BY <1>8 DEF BusError
<1>9. CASE Signal
  BY <1>9 DEF Signal
<1>10. CASE UNCHANGED txVars
  BY <1>10 DEF txVars
<1> QED
  BY <1>1, <1>2, <1>3, <1>4, <1>5, <1>6, <1>7, <1>8, <1>9, <1>10, NextOfTx

\* What is queued in the CAN socket is the next of the traffic.
LEMMA NextBusInv == TxTypes /\ BusInv /\ [Next]_vars => BusInv'
<1> SUFFICES ASSUME TxTypes, BusInv, [Next]_vars, tx' # "joined"
             PROVE  /\ Len(bus') = arrived' - got'
                    /\ \A i \in 1..Len(bus') : bus'[i] = traffic'[got' + i]
  BY DEF BusInv
<1> USE DEF TxTypes
<1>1. CASE Arrive
  <2>1. traffic[arrived + 1] \in Sendable
    BY <1>1, TrafficFrame, Bounds DEF Arrive
  <2>2. Len(bus) = arrived - got /\ \A i \in 1..Len(bus) : bus[i] = traffic[got + i]
    BY <1>1 DEF Arrive, BusInv
  <2>3. Len(bus') = Len(bus) + 1
    BY <1>1, <2>1 DEF Arrive
  <2>4. \A i \in 1..Len(bus') : bus'[i] = IF i <= Len(bus) THEN bus[i] ELSE traffic[arrived + 1]
    BY <1>1, <2>1 DEF Arrive
  <2>5. traffic' = traffic /\ got' = got /\ arrived' = arrived + 1
    BY <1>1 DEF Arrive
  <2>6. ASSUME NEW i \in 1..Len(bus') PROVE bus'[i] = traffic[got + i]
    <3>1. CASE i <= Len(bus)
      BY <2>2, <2>4, <3>1
    <3>2. CASE i = Len(bus) + 1
      BY <2>2, <2>4, <3>2, Bounds
    <3> QED
      BY <2>3, <3>1, <3>2
  <2> QED
    BY <2>2, <2>3, <2>5, <2>6, Bounds
<1>2. CASE ReceiveData
  <2>0. Len(bus) = arrived - got /\ \A i \in 1..Len(bus) : bus[i] = traffic[got + i]
    BY <1>2 DEF ReceiveData, BusInv
  <2>1. CASE sock_err
    BY <1>2, <2>0, <2>1 DEF ReceiveData
  <2>2. CASE ~sock_err
    <3>1. bus # <<>> /\ bus' = Tail(bus) /\ got' = got + 1 /\ UNCHANGED <<traffic, arrived>>
      BY <1>2, <2>2, Zenon DEF ReceiveData
    <3>2. Len(bus') = Len(bus) - 1 /\ \A i \in 1..Len(bus') : bus'[i] = bus[i + 1]
      BY <3>1
    <3> QED
      BY <2>0, <3>1, <3>2, Bounds
  <2> QED
    BY <2>1, <2>2
<1>3. CASE SendFrame \/ StartTx \/ TxPoll \/ StopTx \/ BusError \/ Signal
  <2>1. UNCHANGED <<bus, arrived, got, traffic>> /\ tx # "joined"
    BY <1>3 DEF SendFrame, StartTx, TxPoll, StopTx, BusError, Signal
  <2> QED
    BY <2>1 DEF BusInv
<1>4. CASE UNCHANGED txVars
  BY <1>4 DEF txVars, BusInv
<1> QED
  BY <1>1, <1>2, <1>3, <1>4, NextOfTx DEF JoinTx

-----------------------------------------------------------------------------
\* What is sent.
LEMMA NextOfNet ==
  [Next]_vars =>
    \/ SendFrame \/ SendPacket \/ Stranger \/ Recv \/ BusError \/ RecvFails \/ Signal
    \/ UNCHANGED <<netVars, errors, sent>>
BY DEF Next, TxStep, RxStep, Environment, vars, txVars, netVars, StartRx, RxPoll, Callback,
       SendData, JoinRx, StopRx, StartTx, TxPoll, ReceiveData, JoinTx, Arrive, StopTx

\* A packet of this program.
LEMMA InsertedPacket ==
  ASSUME NEW talker \in Talker, NEW n \in Nat, NEW seq \in 0..SeqModulus - 1,
         NEW frames \in Seq(CanFrame), NEW p, p = Insert(talker, n, seq, frames)
  PROVE  /\ p \in Packet /\ Accepts(p)
         /\ p.from = talker /\ p.n = n /\ p.seq = seq
         /\ Len(p.acf) = Len(frames)
         /\ \A i \in 1..Len(frames) : p.acf[i].frame = frames[i]
<1> DEFINE acf == [i \in 1..Len(frames) |-> [kind |-> "can", frame |-> frames[i]]]
<1>1. \A i \in 1..Len(frames) : [kind |-> "can", frame |-> frames[i]] \in Acf
  BY DEF Acf
<1>2. acf \in Seq(Acf) /\ Len(acf) = Len(frames)
  BY <1>1
<1>3. \A i \in 1..Len(frames) : acf[i].kind = "can" /\ acf[i].frame = frames[i]
  OBVIOUS
<1> HIDE DEF acf
<1>4. p = [from |-> talker, n |-> n, ours |-> TRUE, seq |-> seq, acf |-> acf]
  BY DEF Insert, acf
<1> QED
  BY <1>2, <1>3, <1>4 DEF Packet, Accepts, Taken

\* What the network may carry it may carry when one more packet is sent.
LEMMA CarriedLater ==
  ASSUME NEW p, NEW s \in Nat, Carried(p, s)
  PROVE  Carried(p, s + 1)
BY DEF Carried

\* sendto() puts one of those packets behind the others, or none.
LEMMA OneMorePacket ==
  ASSUME NEW s, NEW packets \in Seq(Packet), \A i \in 1..Len(packets) : Carried(packets[i], s),
         NEW p, Carried(p, s)
  PROVE  /\ Append(packets, p) \in Seq(Packet)
         /\ \A i \in 1..Len(Append(packets, p)) : Carried(Append(packets, p)[i], s)
<1>1. p \in Packet
  BY DEF Carried
<1>2. Append(packets, p) \in Seq(Packet) /\ Len(Append(packets, p)) = Len(packets) + 1
  BY <1>1
<1>3. \A i \in 1..Len(packets) + 1 :
        Append(packets, p)[i] = IF i <= Len(packets) THEN packets[i] ELSE p
  BY <1>1
<1> QED
  BY <1>2, <1>3

\* What the application and strangers send.
LEMMA OtherPacket ==
  ASSUME SendPacket \/ Stranger
  PROVE  eth' = eth \/ \E p : eth' = Append(eth, p) /\ p.from # "run" /\ Carried(p, sent)
<1>1. CASE SendPacket
  <2>1. PICK k \in 1..2 :
          SendTo(Insert("app", 0, 0, [i \in 1..k |-> [type |-> "FD", id |-> App, brs |-> FALSE]]))
    BY <1>1 DEF SendPacket
  <2> DEFINE frames == [i \in 1..k |-> [type |-> "FD", id |-> App, brs |-> FALSE]]
             p == Insert("app", 0, 0, frames)
  <2>2. [type |-> "FD", id |-> App, brs |-> FALSE] \in CanFrame
    BY Bounds DEF App, CanFrame
  <2>3. frames \in Seq(CanFrame) /\ Len(frames) = k
    BY <2>2
  <2> HIDE DEF frames
  <2>4. p \in Packet /\ Accepts(p) /\ p.from = "app" /\ Len(p.acf) = k
    <3>1. 0 \in Nat /\ 0 \in 0..SeqModulus - 1 /\ "app" \in Talker
      BY Bounds DEF Talker
    <3>2. p = Insert("app", 0, 0, frames)
      OBVIOUS
    <3> HIDE DEF p
    <3>3. p \in Packet /\ Accepts(p) /\ p.from = "app" /\ Len(p.acf) = Len(frames)
      BY <2>3, <3>1, <3>2, InsertedPacket
    <3> QED
      BY <2>3, <3>3
  <2>5. SendTo(p)
    BY <2>1 DEF frames
  <2> HIDE DEF p
  <2>6. Carried(p, sent)
    BY <2>4, Bounds DEF Carried
  <2> QED
    BY <2>4, <2>5, <2>6 DEF SendTo
<1>2. CASE Stranger
  <2>1. PICK p \in Strangers : eth' = Append(eth, p)
    BY <1>2 DEF Stranger
  <2>2. Carried(p, sent) /\ p.from # "run"
    BY StrangersAssumption DEF Carried
  <2> QED
    BY <2>1, <2>2
<1> QED
  BY <1>1, <1>2

\* The network carries only packets of this program and of strangers.
LEMMA NextPacketInv ==
  TxTypes /\ NetTypes /\ PacketInv /\ NumberInv /\ [Next]_vars => NetTypes' /\ PacketInv'
<1> SUFFICES ASSUME TxTypes, NetTypes, PacketInv, NumberInv, [Next]_vars
             PROVE  NetTypes' /\ PacketInv'
  OBVIOUS
<1> USE DEF NetTypes, PacketInv
<1>1. CASE SendFrame
  <2> DEFINE frames == <<tx_frame>>
             p == Insert("run", sent + 1, cf_seq_num, frames)
  <2>1. frames \in Seq(CanFrame) /\ Len(frames) = 1
    BY DEF TxTypes
  <2> HIDE DEF frames
  <2>2. /\ p \in Packet /\ Accepts(p) /\ p.from = "run" /\ p.n = sent + 1 /\ p.seq = cf_seq_num
        /\ Len(p.acf) = 1
    <3>1. sent + 1 \in Nat /\ cf_seq_num \in 0..SeqModulus - 1 /\ "run" \in Talker
      BY DEF TxTypes, Talker
    <3> QED
      BY <2>1, <3>1, InsertedPacket
  <2>3. sent' = sent + 1 /\ sent \in Nat
    BY <1>1 DEF SendFrame, TxTypes
  <2> HIDE DEF p
  <2>4. Carried(p, sent')
    BY <2>2, <2>3, Bounds DEF Carried, NumberInv
  <2>5. \A i \in 1..Len(eth) : Carried(eth[i], sent')
    BY <2>3, CarriedLater
  <2>6. /\ eth' = Append(eth, p) \/ eth' = eth
        /\ lost' \in 0..MaxLost /\ UNCHANGED <<errors, others, signalled>>
    BY <1>1, Bounds DEF SendFrame, SendTo, p, frames
  <2> QED
    BY <2>4, <2>5, <2>6, OneMorePacket
<1>2. CASE SendPacket \/ Stranger
  <2>1. /\ lost' \in 0..MaxLost /\ others' \in 0..MaxOthers
        /\ UNCHANGED <<errors, signalled, sent>>
    BY <1>2, Bounds DEF SendPacket, Stranger, SendTo, txVars
  <2>2. CASE eth' = eth
    BY <2>1, <2>2
  <2>3. ASSUME NEW p, eth' = Append(eth, p), Carried(p, sent)
        PROVE  NetTypes' /\ PacketInv'
    BY <2>1, <2>3, OneMorePacket
  <2> QED
    BY <1>2, <2>2, <2>3, OtherPacket
<1>3. CASE Recv
  <2>1. eth # <<>> /\ eth' = Tail(eth) /\ UNCHANGED <<lost, others, signalled, errors, sent>>
    BY <1>3 DEF Recv, txVars
  <2>2. /\ eth' \in Seq(Packet)
        /\ \A i \in 1..Len(eth') : i + 1 \in 1..Len(eth) /\ eth'[i] = eth[i + 1]
    BY <2>1
  <2> QED
    BY <2>1, <2>2
<1>4. CASE BusError \/ RecvFails
  BY <1>4, Bounds DEF BusError, RecvFails, netVars, txVars
<1>5. CASE Signal
  BY <1>5 DEF Signal
<1>6. CASE UNCHANGED <<netVars, errors, sent>>
  BY <1>6 DEF netVars
<1> QED
  BY <1>1, <1>2, <1>3, <1>4, <1>5, <1>6, NextOfNet

\* The sequence number of the transmitter's thread counts its packets.
LEMMA NextNumberInv == TxTypes /\ NumberInv /\ [Next]_vars => NumberInv'
<1> SUFFICES ASSUME TxTypes, NumberInv, [Next]_vars
             PROVE  NumberInv'
  OBVIOUS
<1> USE DEF NumberInv
<1>1. CASE SendFrame
  BY <1>1, NextRemainder DEF SendFrame, TxTypes
<1>2. CASE UNCHANGED <<sent, cf_seq_num>>
  BY <1>2
<1> QED
  BY <1>1, <1>2, NextOfTx
     DEF txVars, Arrive, ReceiveData, StartTx, TxPoll, StopTx, JoinTx, BusError, Signal

-----------------------------------------------------------------------------
\* The receiver.
LEMMA NextOfRx ==
  [Next]_vars =>
    \/ StartRx \/ RxPoll \/ RecvFails \/ Recv \/ Callback \/ SendData \/ StopRx \/ JoinRx
    \/ Signal     \/ UNCHANGED rxVars
BY DEF Next, TxStep, RxStep, Environment, vars, txVars, netVars, SendFrame, SendPacket, Stranger,
       BusError, StartTx, TxPoll, ReceiveData, JoinTx, Arrive, StopTx

\* The frames of a packet in the array, when it is accepted.
LEMMA StoredFrames ==
  ASSUME RxTypes, NEW p \in Packet
  PROVE  /\ Store(p) \in [1..Slots -> CanFrame]
         /\ Accepts(p) => \A i \in 1..Slots :
                           i <= Len(p.acf) => Store(p)[i].id = p.acf[i].frame.id
<1>1. \A i \in 1..Len(p.acf) : p.acf[i] \in Acf
  BY DEF Packet
<1>2. \A m \in Acf : m.frame \in CanFrame
  BY DEF Acf
<1>3. \A i \in 1..Slots : can_frames[i] \in CanFrame
  BY DEF RxTypes
<1>4. \A slot, f \in CanFrame : Decode(slot, f) \in CanFrame /\ Decode(slot, f).id = f.id
  BY DEF Decode, CanFrame
<1>5. \A slot, f \in CanFrame : [slot EXCEPT !.type = f.type] \in CanFrame
  BY DEF CanFrame
<1>6. ASSUME NEW i \in 1..Slots PROVE Store(p)[i] \in CanFrame
  <2>1. CASE i > Len(p.acf) \/ ~Taken(p, i - 1) \/ p.acf[i].kind = "other"
    BY <1>3, <2>1 DEF Store
  <2>2. CASE ~(i > Len(p.acf) \/ ~Taken(p, i - 1) \/ p.acf[i].kind = "other")
    <3>1. i \in 1..Len(p.acf)
      BY <2>2 DEF Packet
    <3>2. p.acf[i].frame \in CanFrame
      BY <1>1, <1>2, <3>1
    <3> QED
      BY <1>3, <1>4, <1>5, <2>2, <3>2 DEF Store
  <2> QED
    BY <2>1, <2>2
<1>7. ASSUME Accepts(p), NEW i \in 1..Slots, i <= Len(p.acf)
      PROVE  Store(p)[i].id = p.acf[i].frame.id
  <2>1. i \in 1..Len(p.acf) /\ p.acf[i].kind = "can" /\ Taken(p, i - 1)
    BY <1>7 DEF Accepts, Taken, Packet
  <2>2. Store(p)[i] = Decode(can_frames[i], p.acf[i].frame)
    BY <2>1 DEF Store
  <2> QED
    BY <1>1, <1>2, <1>3, <1>4, <2>1, <2>2
<1> QED
  BY <1>6, <1>7 DEF Store

\* What goes out is of the type of the histories.
LEMMA HandedOut ==
  ASSUME RxTypes, NEW i \in 1..Slots
  PROVE  /\ [frame |-> can_frames[i], from |-> from] \in Output
         /\ \A ok \in BOOLEAN : [frame |-> can_frames[i], from |-> from, ok |-> ok] \in Write
BY DEF RxTypes, Output, Write

\* A turn of the loop with the callback, or its end.
LEMMA CallbackTurn ==
  ASSUME RxTypes, Callback
  PROVE  /\ rx = "callback"
         /\ UNCHANGED <<can_frames, num_can_msgs, from, receptions, writes, m_is_can_enabled>>
         /\ \/ /\ More /\ num + 1 \in 1..Slots /\ num' = num + 1 /\ rx' = rx
               /\ delivered' = Append(delivered, [frame |-> can_frames[num + 1], from |-> from])
            \/ /\ ~More /\ num' = 0 /\ UNCHANGED delivered
               /\ rx' \in {"fault", IF m_is_can_enabled THEN "write" ELSE "poll"}
BY Bounds DEF RxTypes, Callback, More, LoopEnds, NextFrame

\* A turn of the loop of CanWriter::sendData, or its end.
LEMMA SendDataTurn ==
  ASSUME RxTypes, SendData
  PROVE  /\ rx = "write"
         /\ UNCHANGED <<can_frames, num_can_msgs, from, receptions, delivered, m_is_can_enabled>>
         /\ UNCHANGED <<eth, tx, sent, got>>
         /\ \/ /\ More /\ num + 1 \in 1..Slots /\ num' = num + 1 /\ rx' = rx
               /\ \E ok \in BOOLEAN :
                    writes' = Append(writes, [frame |-> can_frames[num + 1],
                                              from |-> from, ok |-> ok])
            \/ ~More /\ num' = 0 /\ UNCHANGED writes /\ rx' \in {"fault", "poll"}
<1>1. /\ rx = "write" /\ UNCHANGED <<eth, tx, sent, got>>
      /\ UNCHANGED <<can_frames, num_can_msgs, from, receptions, delivered, m_is_can_enabled>>
  BY DEF SendData, txVars, netVars
<1>2. \/ /\ More /\ num' = num + 1 /\ rx' = rx
         /\ \E ok \in BOOLEAN : WriteNext(ok)
      \/ LoopEnds("poll") /\ UNCHANGED writes
  BY DEF SendData
<1>3. CASE More /\ num' = num + 1 /\ rx' = rx /\ \E ok \in BOOLEAN : WriteNext(ok)
  <2>1. num + 1 \in 1..Slots
    BY <1>3, Bounds DEF More, RxTypes
  <2> QED
    BY <1>1, <1>3, <2>1 DEF WriteNext
<1>4. CASE LoopEnds("poll") /\ UNCHANGED writes
  BY <1>1, <1>4 DEF LoopEnds
<1> QED
  BY <1>2, <1>3, <1>4

\* The receiver: its buffer and its counters keep their types.
LEMMA NextRxTypes == RxTypes /\ NetTypes /\ PacketInv /\ [Next]_vars => RxTypes'
<1> SUFFICES ASSUME RxTypes, NetTypes, PacketInv, [Next]_vars
             PROVE  RxTypes'
  OBVIOUS
<1>1. CASE StartRx
  BY <1>1 DEF RxTypes, StartRx, rxLocals, outputs
<1>2. CASE RxPoll
  BY <1>2 DEF RxTypes, RxPoll, rxLocals, outputs
<1>3. CASE RecvFails
  BY <1>3 DEF RxTypes, RecvFails, rxLocals, outputs
<1>4. CASE StopRx
  BY <1>4 DEF RxTypes, StopRx, rxLocals, outputs
<1>5. CASE JoinRx
  BY <1>5 DEF RxTypes, JoinRx, rxLocals, outputs
<1>6. CASE Signal
  BY <1>6 DEF RxTypes, Signal, rxLocals, outputs
<1>7. CASE Recv
  <2> DEFINE p == Head(eth)
             warned == p.ours /\ p.seq # exp_cf_seqnum
  <2>1. p \in Packet /\ Carried(p, sent)
    BY <1>7 DEF Recv, NetTypes, PacketInv
  <2>2. warned \in BOOLEAN
    OBVIOUS
  <2> HIDE DEF p
  <2>3. can_frames' \in [1..Slots -> CanFrame]
    BY <1>7, <2>1, StoredFrames DEF Recv, p, RxTypes
  <2>4. num_can_msgs' \in 0..255 /\ num' \in 0..Slots
    <3>1. Len(p.acf) \in 0..254
      <4>1. p.acf \in Seq(Acf)
        BY <2>1 DEF Packet
      <4>2. Len(p.acf) <= Slots
        BY <2>1 DEF Carried
      <4>3. Len(p.acf) \in Nat
        BY <4>1, LenProperties
      <4>4. \A k \in Nat : k <= Slots => k \in 0..254
        BY Bounds
      <4> QED
        BY <4>2, <4>3, <4>4, Zenon
    <3>2. num_can_msgs' = Count(p) /\ num' = 0
      BY <1>7 DEF Recv, p
    <3> QED
      BY <3>1, <3>2, Bounds DEF Count
  <2>5. exp_cf_seqnum' \in 0..SeqModulus - 1
    <3>1. (IF warned THEN p.seq ELSE exp_cf_seqnum) + 1 \in Int
      BY <2>1 DEF RxTypes, Packet
    <3> QED
      BY <1>7, <3>1, ModRange DEF Recv, p
  <2>6. from' \in Talker \cup {"rejected"}
    BY <1>7, <2>1 DEF Recv, p, Packet
  <2>7. receptions' \in Seq(Reception)
    <3>1. [from |-> from', n |-> p.n, warned |-> warned] \in Reception
      BY <2>1, <2>2, <2>6 DEF Reception, Packet
    <3>2. receptions' = Append(receptions, [from |-> from', n |-> p.n, warned |-> warned])
      BY <1>7 DEF Recv, p
    <3> QED
      BY <3>1, <3>2 DEF RxTypes
  <2> QED
    BY <1>7, <2>3, <2>4, <2>5, <2>6, <2>7 DEF RxTypes, Recv, outputs
<1>8. CASE Callback
  <2>1. delivered' \in Seq(Output) /\ num' \in 0..Slots
    <3>1. delivered \in Seq(Output) /\ 0 \in 0..Slots
      BY Bounds DEF RxTypes
    <3>2. CASE UNCHANGED delivered /\ num' = 0
      BY <3>1, <3>2
    <3>3. CASE /\ num + 1 \in 1..Slots /\ num' = num + 1
               /\ delivered' = Append(delivered, [frame |-> can_frames[num + 1], from |-> from])
      <4>1. [frame |-> can_frames[num + 1], from |-> from] \in Output
        BY <3>3, HandedOut
      <4>2. num' \in 0..Slots
        BY <3>3, Bounds
      <4> QED
        BY <3>1, <3>3, <4>1, <4>2
    <3> QED
      BY <1>8, <3>2, <3>3, CallbackTurn
  <2>2. rx' \in {"callback", "write", "poll", "fault"}
    BY <1>8, CallbackTurn
  <2> QED
    BY <1>8, <2>1, <2>2 DEF RxTypes, Callback
<1>9. CASE SendData
  <2>1. writes' \in Seq(Write) /\ num' \in 0..Slots
    <3>1. writes \in Seq(Write) /\ 0 \in 0..Slots
      BY Bounds DEF RxTypes
    <3>2. CASE UNCHANGED writes /\ num' = 0
      BY <3>1, <3>2
    <3>3. ASSUME NEW ok \in BOOLEAN, num + 1 \in 1..Slots, num' = num + 1,
                 writes' = Append(writes, [frame |-> can_frames[num + 1], from |-> from, ok |-> ok])
          PROVE  writes' \in Seq(Write) /\ num' \in 0..Slots
      <4>1. [frame |-> can_frames[num + 1], from |-> from, ok |-> ok] \in Write
        BY <3>3, HandedOut
      <4>2. num' \in 0..Slots
        BY <3>3, Bounds
      <4> QED
        BY <3>1, <3>3, <4>1, <4>2
    <3> QED
      BY <1>9, <3>2, <3>3, SendDataTurn
  <2>2. rx' \in {"write", "poll", "fault"}
    BY <1>9, SendDataTurn
  <2> QED
    BY <1>9, <2>1, <2>2 DEF RxTypes, SendData
<1>10. CASE UNCHANGED rxVars
  BY <1>10 DEF RxTypes, rxVars, rxLocals, outputs
<1> QED
  BY <1>1, <1>2, <1>3, <1>4, <1>5, <1>6, <1>7, <1>8, <1>9, <1>10, NextOfRx

\* At the start.
LEMMA InitTypeInv == Init => TypeInv
<1> SUFFICES ASSUME Init PROVE TypeInv
  OBVIOUS
<1>1. TxTypes
  <2>1. bus \in Seq(Sendable) /\ tx_frame \in CanFrame
    <3>1. 0 \in 0..App
      BY Bounds DEF App
    <3>2. tx_frame \in CanFrame
      BY <3>1 DEF Init, CanFrame
    <3> QED
      BY <3>2 DEF Init
  <2>2. 0 \in 0..MaxFrames /\ 0 \in 0..0 /\ 0 \in 0..SeqModulus - 1
    BY Bounds
  <2> QED
    BY <2>1, <2>2 DEF Init, TxTypes
<1>2. NetTypes
  <2>1. eth \in Seq(Packet)
    BY DEF Init
  <2>2. 0 \in 0..MaxErrors /\ 0 \in 0..MaxLost /\ 0 \in 0..MaxOthers
    BY Bounds
  <2> QED
    BY <2>1, <2>2 DEF Init, NetTypes
<1>3. RxTypes
  <2>1. Junk \subseteq CanFrame
    BY DEF Junk
  <2>2. can_frames \in [1..Slots -> CanFrame]
    BY <2>1 DEF Init
  <2>3. receptions \in Seq(Reception) /\ delivered \in Seq(Output) /\ writes \in Seq(Write)
    BY DEF Init
  <2>4. 0 \in 0..Slots /\ 0 \in 0..255 /\ 0 \in 0..SeqModulus - 1
    BY Bounds
  <2> QED
    BY <2>2, <2>3, <2>4 DEF Init, RxTypes, Talker
<1>4. PacketInv
  BY DEF Init, PacketInv
<1>5. BusInv
  BY DEF Init, BusInv
<1>6. NumberInv
  BY Bounds DEF Init, NumberInv
<1> QED
  BY <1>1, <1>2, <1>3, <1>4, <1>5, <1>6 DEF TypeInv

\* Every step.
LEMMA NextTypeInv == TypeInv /\ [Next]_vars => TypeInv'
BY NextTxTypes, NextBusInv, NextPacketInv, NextNumberInv, NextRxTypes DEF TypeInv

\* Every variable keeps its type: in particular what is left in num_can_msgs fits
\* into a uint8_t, and a thread never reads a frame that did not arrive.
THEOREM Types == Spec => []TypeOK
<1>1. Spec => []TypeInv
  BY InitTypeInv, NextTypeInv, PTL DEF Spec
<1> QED
  BY <1>1, TypeInvIsTypeOK, PTL

-----------------------------------------------------------------------------
Latest == receptions[Len(receptions)]
SeqInv ==
  /\ receptions = <<>> => exp_cf_seqnum = 0
  /\ receptions # <<>> /\ Latest.from = "run" => exp_cf_seqnum = Latest.n % SeqModulus

\* The packet that is taken.
LEMMA TakenPacket ==
  ASSUME TypeInv, Recv
  PROVE  /\ Head(eth) = eth[1] /\ 1 \in 1..Len(eth)
         /\ Head(eth) \in Packet /\ Carried(Head(eth), sent)
         /\ from' = "run" => Head(eth).from = "run" /\ Head(eth).ours
BY DEF TypeInv, NetTypes, PacketInv, Recv, Accepts

\* The history of the packets, one longer.
LEMMA TakenReception ==
  ASSUME TypeInv, Recv
  PROVE  LET r == [from |-> from', n |-> Head(eth).n,
                   warned |-> Head(eth).ours /\ Head(eth).seq # exp_cf_seqnum] IN
         /\ Len(receptions') = Len(receptions) + 1 /\ receptions' # <<>>
         /\ \A k \in 1..Len(receptions) : receptions'[k] = receptions[k]
         /\ receptions'[Len(receptions) + 1] = r
<1> DEFINE r == [from |-> from', n |-> Head(eth).n,
                 warned |-> Head(eth).ours /\ Head(eth).seq # exp_cf_seqnum]
<1>1. receptions' = Append(receptions, r)
  BY DEF Recv
<1>2. receptions \in Seq(Reception)
  BY DEF TypeInv, RxTypes
<1> HIDE DEF r
<1>3. /\ Len(receptions') = Len(receptions) + 1 /\ receptions' # <<>>
      /\ \A k \in 1..Len(receptions) : receptions'[k] = receptions[k]
      /\ receptions'[Len(receptions) + 1] = r
  BY <1>1, <1>2
<1> QED
  BY <1>3 DEF r

\* After a packet of the transmitter's thread the receiver expects the next.
LEMMA ExpectedNumber ==
  ASSUME TypeInv, Recv, from' = "run"
  PROVE  exp_cf_seqnum' = Head(eth).n % SeqModulus
<1> DEFINE p == Head(eth)
<1>1. p.ours /\ p.n \in Int /\ p.n - 1 \in Int /\ p.seq = (p.n - 1) % SeqModulus
  BY TakenPacket DEF Carried
<1>2. exp_cf_seqnum' = (p.seq + 1) % SeqModulus
  BY <1>1 DEF Recv
<1>3. exp_cf_seqnum' = ((p.n - 1) + 1) % SeqModulus
  BY <1>1, <1>2, NextRemainder
<1>4. (p.n - 1) + 1 = p.n
  BY <1>1
<1> QED
  BY <1>3, <1>4

\* The expected number follows the packet taken last.
LEMMA NextSeqInv == TypeInv /\ SeqInv /\ [Next]_vars => SeqInv'
<1> SUFFICES ASSUME TypeInv, SeqInv, [Next]_vars
             PROVE  SeqInv'
  OBVIOUS
<1>1. CASE Recv
  <2>1. Latest' = receptions'[Len(receptions) + 1] /\ receptions' # <<>>
    BY <1>1, TakenReception DEF Latest
  <2>2. Latest'.from = from' /\ Latest'.n = Head(eth).n
    BY <1>1, <2>1, TakenReception
  <2> QED
    BY <1>1, <2>1, <2>2, ExpectedNumber DEF SeqInv
<1>2. CASE UNCHANGED <<receptions, exp_cf_seqnum>>
  BY <1>2 DEF SeqInv, Latest
<1> QED
  BY <1>1, <1>2, NextOfRx
     DEF StartRx, RxPoll, RecvFails, Callback, SendData, StopRx, JoinRx, Signal, rxVars, rxLocals

\* The number before the k-th packet that was taken, as the property has it.
Before(k) == IF k = 1 THEN [from |-> "run", n |-> 0] ELSE receptions[k - 1]
WarnedRightly(k) ==
  receptions[k].from = "run" /\ Before(k).from = "run" =>
    (receptions[k].warned <=> (receptions[k].n - Before(k).n) % SeqModulus # 1)
WarnInv == \A k \in 1..Len(receptions) : WarnedRightly(k)

\* That is the property, which is stated of the whole history.
LEMMA WarnInvShows == WarnInv => WarnsExactlyOfGaps
BY Zenon DEF WarnInv, WarnedRightly, Before, WarnsExactlyOfGaps

\* The packet it takes now.
LEMMA WarnsNow ==
  ASSUME TypeInv, SeqInv, Recv, NEW k, k = Len(receptions) + 1
  PROVE  WarnedRightly(k)'
<1> DEFINE p == Head(eth)
           len == Len(receptions)
           r == receptions'[k]
           b == Before(k)'
<1> SUFFICES ASSUME r.from = "run", b.from = "run"
             PROVE  r.warned <=> (r.n - b.n) % SeqModulus # 1
  BY DEF WarnedRightly
<1> DEFINE warned == p.ours /\ p.seq # exp_cf_seqnum
<1>0. r = [from |-> from', n |-> p.n, warned |-> warned]
  BY TakenReception, Zenon
<1> HIDE DEF warned
<1>1. r.from = from' /\ r.n = p.n /\ r.warned = warned
  BY <1>0
<1> USE DEF warned
<1>2. p.ours /\ p.n \in Int /\ p.seq = (p.n - 1) % SeqModulus
  BY <1>1, TakenPacket DEF Carried
<1>3. b.n \in Int /\ exp_cf_seqnum = b.n % SeqModulus
  <2>1. receptions \in Seq(Reception) /\ len \in Nat
    BY DEF TypeInv, RxTypes
  <2>2. CASE len = 0
    <3>1. b = [from |-> "run", n |-> 0]
      BY <2>2 DEF Before
    <3>2. receptions = <<>>
      BY <2>1, <2>2
    <3> QED
      BY <3>1, <3>2, Bounds DEF SeqInv
  <2>3. CASE len # 0
    <3>1. b = receptions'[len] /\ len \in 1..len
      <4>1. k # 1 /\ k - 1 = len /\ len \in 1..len
        BY <2>1, <2>3
      <4> QED
        BY <4>1 DEF Before
    <3>2. b = Latest /\ receptions # <<>>
      BY <2>1, <2>3, <3>1, TakenReception DEF Latest
    <3>3. b \in Reception
      BY <2>1, <3>1, <3>2 DEF Latest
    <3> QED
      BY <3>2, <3>3 DEF SeqInv, Reception
  <2> QED
    BY <2>2, <2>3
<1>4. (p.n - 1) % SeqModulus = b.n % SeqModulus <=> (p.n - b.n) % SeqModulus = 1
  BY <1>2, <1>3, RemainderOfDifference
<1> QED
  BY <1>1, <1>2, <1>3, <1>4, Zenon

\* Warnings given stay right, and a new one is right.
LEMMA NextWarnInv == TypeInv /\ SeqInv /\ WarnInv /\ [Next]_vars => WarnInv'
<1> SUFFICES ASSUME TypeInv, SeqInv, WarnInv, [Next]_vars
             PROVE  WarnInv'
  OBVIOUS
<1>1. CASE Recv
  <2>1. Len(receptions) \in Nat /\ Len(receptions') = Len(receptions) + 1
    BY <1>1, TakenReception DEF TypeInv, RxTypes
  <2>2. ASSUME NEW k \in 1..Len(receptions) PROVE WarnedRightly(k)'
    <3>1. receptions'[k] = receptions[k] /\ Before(k)' = Before(k)
      BY <1>1, <2>1, TakenReception DEF Before
    <3>2. WarnedRightly(k)
      BY DEF WarnInv
    <3> QED
      BY <3>1, <3>2 DEF WarnedRightly
  <2>3. ASSUME NEW k, k = Len(receptions) + 1 PROVE WarnedRightly(k)'
    BY <1>1, <2>3, WarnsNow
  <2>4. \A k \in 1..Len(receptions') : k \in 1..Len(receptions) \/ k = Len(receptions) + 1
    BY <2>1
  <2> QED
    BY <2>2, <2>3, <2>4 DEF WarnInv
<1>2. CASE UNCHANGED receptions
  BY <1>2 DEF WarnInv, WarnedRightly, Before
<1> QED
  BY <1>1, <1>2, NextOfRx
     DEF StartRx, RxPoll, RecvFails, Callback, SendData, StopRx, JoinRx, Signal, rxVars, rxLocals

-----------------------------------------------------------------------------
\* What the receiver has in hand: the frames of one packet.
Working == rx \in {"callback", "write"}
HandInv ==
  Working =>
    /\ num <= num_can_msgs
    /\ from \in {"run", "app"} => num_can_msgs \in 1..Slots
    /\ from = "run" => num_can_msgs = 1

\* A packet is in hand from recv() until its last frame is written.
LEMMA NextHandInv == TypeInv /\ HandInv /\ [Next]_vars => HandInv'
<1> SUFFICES ASSUME TypeInv, HandInv, [Next]_vars
             PROVE  HandInv'
  OBVIOUS
<1>1. CASE Recv
  <2> DEFINE p == Head(eth)
  <2>1. /\ from' = (IF Accepts(p) THEN p.from ELSE "rejected")
        /\ num_can_msgs' = Count(p) /\ num' = 0 /\ rx' = "callback"
    BY <1>1 DEF Recv
  <2>2. p \in Packet /\ Carried(p, sent)
    BY <1>1, TakenPacket
  <2> HIDE DEF p
  <2>3. Len(p.acf) \in Nat /\ Len(p.acf) <= Slots /\ Count(p) \in Nat
    BY <2>2 DEF Packet, Carried, Count
  <2>4. CASE from' \in {"run", "app"}
    <3>1. from' = p.from /\ Count(p) = Len(p.acf)
      BY <2>1, <2>4 DEF Count
    <3> QED
      BY <2>1, <2>2, <2>3, <2>4, <3>1, Bounds DEF HandInv, Carried
  <2>5. CASE from' \notin {"run", "app"}
    BY <2>1, <2>3, <2>5 DEF HandInv
  <2> QED
    BY <2>4, <2>5
<1>2. CASE Callback \/ SendData
  <2>1. HandInv /\ Working /\ num \in 0..Slots /\ num_can_msgs \in 0..255 /\ RxTypes
    BY <1>2 DEF Callback, SendData, Working, TypeInv, RxTypes
  <2>2. UNCHANGED <<num_can_msgs, from>>
    BY <1>2, <2>1, CallbackTurn, SendDataTurn
  <2>3. (More /\ num' = num + 1) \/ num' = 0
    BY <1>2, <2>1, CallbackTurn, SendDataTurn
  <2>4. num' <= num_can_msgs
    BY <2>1, <2>3, Bounds DEF More
  <2> QED
    BY <2>1, <2>2, <2>4 DEF HandInv
<1>3. CASE StartRx \/ RxPoll \/ RecvFails \/ JoinRx
  BY <1>3 DEF StartRx, RxPoll, RecvFails, JoinRx, HandInv, Working
<1>4. CASE StopRx \/ Signal \/ UNCHANGED rxVars
  BY <1>4 DEF StopRx, Signal, rxVars, rxLocals, HandInv, Working
<1> QED
  BY <1>1, <1>2, <1>3, <1>4, NextOfRx

-----------------------------------------------------------------------------
\* How far the callback is ahead of the bus.  Frames of the packet in hand that the
\* loops go through; those from done to n that only the callback has got.
Total == IF num_can_msgs < Slots THEN num_can_msgs ELSE Slots
Ahead(done, n) ==
  /\ Len(delivered) = Len(writes) + n - done
  /\ \A i \in done + 1..n :
       delivered[Len(writes) + i - done] = [frame |-> can_frames[i], from |-> from]
SameFrame(k) ==
  /\ k <= Len(delivered)
  /\ writes[k].frame = delivered[k].frame /\ writes[k].from = delivered[k].from
SameFrames == \A k \in 1..Len(writes) : SameFrame(k)
LengthInv ==
  IF m_is_can_enabled
  THEN /\ rx = "callback" => Ahead(0, num)
       /\ rx = "write" => num <= Total /\ Ahead(num, Total)
       /\ rx \notin {"callback", "write", "fault"} => Len(writes) = Len(delivered)
  ELSE writes = <<>> /\ rx # "write"
OutInv == SameFrames /\ LengthInv

\* A loop ends with its counter at the number of frames.
LEMMA LoopIsThrough ==
  ASSUME TypeInv, HandInv, Working
  PROVE  /\ ~More => num = Total
         /\ More => num + 1 <= Total
         /\ num \in Nat /\ Total \in Nat
<1>1. num \in 0..Slots /\ num_can_msgs \in 0..255 /\ num <= num_can_msgs
  BY DEF TypeInv, RxTypes, HandInv
<1> QED
  BY <1>1, Bounds DEF More, Total

\* The callback gets one frame more.
LEMMA CallbackOut ==
  ASSUME TypeInv, HandInv, OutInv, Callback
  PROVE  OutInv'
<1>0. RxTypes /\ Working /\ Callback
  BY DEF Callback, TypeInv, Working
<1>1. /\ delivered \in Seq(Output) /\ writes \in Seq(Write) /\ num \in Nat
      /\ m_is_can_enabled \in BOOLEAN
  BY <1>0, Bounds DEF RxTypes
<1>2. rx = "callback" /\ UNCHANGED <<can_frames, num_can_msgs, from, writes, m_is_can_enabled>>
  BY <1>0, CallbackTurn
<1>3. CASE /\ More /\ num + 1 \in 1..Slots /\ num' = num + 1 /\ rx' = rx
           /\ delivered' = Append(delivered, [frame |-> can_frames[num + 1], from |-> from])
  <2> DEFINE o == [frame |-> can_frames[num + 1], from |-> from]
  <2>1. o \in Output
    BY <1>0, <1>3, HandedOut
  <2>2. /\ Len(delivered') = Len(delivered) + 1 /\ delivered'[Len(delivered) + 1] = o
        /\ \A k \in 1..Len(delivered) : delivered'[k] = delivered[k]
    <3> HIDE DEF o
    <3>1. delivered' = Append(delivered, o)
      BY <1>3 DEF o
    <3> QED
      BY <1>1, <2>1, <3>1
  <2>3. SameFrames'
    BY <1>1, <1>2, <2>2 DEF SameFrames, SameFrame, OutInv
  <2>4. LengthInv'
    <3>1. CASE m_is_can_enabled
      <4>1. Ahead(0, num)
        BY <1>2, <3>1 DEF OutInv, LengthInv
      <4>2. Len(delivered) = Len(writes) + num
        BY <1>1, <4>1 DEF Ahead
      <4>3. ASSUME NEW i \in 1..num + 1
            PROVE  delivered'[Len(writes) + i] = [frame |-> can_frames[i], from |-> from]
        <5>1. CASE i = num + 1
          BY <1>1, <2>2, <4>2, <5>1
        <5>2. CASE i \in 1..num
          BY <1>1, <2>2, <4>1, <4>2, <5>2 DEF Ahead
        <5> QED
          BY <1>1, <5>1, <5>2
      <4>4. Ahead(0, num)'
        BY <1>1, <1>2, <1>3, <2>2, <4>2, <4>3 DEF Ahead
      <4> QED
        BY <1>2, <1>3, <3>1, <4>4 DEF LengthInv
    <3>2. CASE ~m_is_can_enabled
      BY <1>2, <1>3, <3>2 DEF OutInv, LengthInv
    <3> QED
      BY <3>1, <3>2
  <2> QED
    BY <2>3, <2>4 DEF OutInv
<1>4. CASE /\ ~More /\ num' = 0 /\ UNCHANGED delivered
           /\ rx' \in {"fault", IF m_is_can_enabled THEN "write" ELSE "poll"}
  <2>1. SameFrames'
    BY <1>2, <1>4 DEF SameFrames, SameFrame, OutInv
  <2>2. LengthInv'
    <3>1. CASE m_is_can_enabled
      <4>1. Ahead(0, num) /\ num = Total /\ Total' = Total /\ Total \in Nat
        BY <1>0, <1>2, <1>4, <3>1, LoopIsThrough DEF OutInv, LengthInv, Total
      <4>2. Len(delivered) = Len(writes) + Total - 0
        BY <4>1 DEF Ahead
      <4>3. \A i \in 0 + 1..Total :
              delivered[Len(writes) + i - 0] = [frame |-> can_frames[i], from |-> from]
        BY <4>1 DEF Ahead
      <4>4. Ahead(num, Total)'
        BY <1>2, <1>4, <4>1, <4>2, <4>3 DEF Ahead
      <4> QED
        BY <1>2, <1>4, <3>1, <4>1, <4>4 DEF LengthInv
    <3>2. CASE ~m_is_can_enabled
      BY <1>2, <1>4, <3>2 DEF OutInv, LengthInv
    <3> QED
      BY <3>1, <3>2
  <2> QED
    BY <2>1, <2>2 DEF OutInv
<1> QED
  BY <1>0, <1>3, <1>4, CallbackTurn

\* A call of write(), whether it fails or not.
LEMMA SendDataOut ==
  ASSUME TypeInv, HandInv, OutInv, SendData
  PROVE  OutInv'
<1>0. RxTypes /\ Working /\ SendData
  BY DEF SendData, TypeInv, Working
<1>1. delivered \in Seq(Output) /\ writes \in Seq(Write) /\ num \in Nat
  BY <1>0, Bounds DEF RxTypes
<1>2. rx = "write" /\ UNCHANGED <<can_frames, num_can_msgs, from, delivered, m_is_can_enabled>>
  BY <1>0, SendDataTurn
<1>3. m_is_can_enabled /\ Ahead(num, Total) /\ SameFrames /\ Total' = Total /\ Total \in Nat
  BY <1>0, <1>2, LoopIsThrough DEF OutInv, LengthInv, Total
<1>4. /\ Len(delivered) = Len(writes) + Total - num
      /\ \A i \in num + 1..Total :
           delivered[Len(writes) + i - num] = [frame |-> can_frames[i], from |-> from]
  BY <1>3 DEF Ahead
<1>5. ASSUME NEW ok \in BOOLEAN, More, num + 1 \in 1..Slots, num' = num + 1, rx' = rx,
             writes' = Append(writes, [frame |-> can_frames[num + 1], from |-> from, ok |-> ok])
      PROVE  OutInv'
  <2> DEFINE o == [frame |-> can_frames[num + 1], from |-> from, ok |-> ok]
             len == Len(writes)
  <2>1. o \in Write /\ o.frame = can_frames[num + 1] /\ o.from = from
    BY <1>0, <1>5, HandedOut
  <2> HIDE DEF o
  <2>2. /\ Len(writes') = len + 1 /\ writes'[len + 1] = o /\ len \in Nat
        /\ \A k \in 1..len : writes'[k] = writes[k]
    <3>1. writes' = Append(writes, o)
      BY <1>5 DEF o
    <3> QED
      BY <1>1, <2>1, <3>1
  <2> HIDE DEF len
  <2>3. num + 1 <= Total
    BY <1>0, <1>5, LoopIsThrough
  <2>4. /\ Len(delivered) = len + Total - num
        /\ \A i \in num + 1..Total :
             delivered[len + i - num] = [frame |-> can_frames[i], from |-> from]
    BY <1>4 DEF len
  <2>5. delivered[len + 1] = [frame |-> can_frames[num + 1], from |-> from]
    <3>1. len + (num + 1) - num = len + 1 /\ num + 1 \in num + 1..Total
      BY <1>1, <1>3, <2>2, <2>3
    <3> QED
      BY <2>4, <3>1
  <2>6. /\ len + 1 <= Len(delivered)
        /\ writes'[len + 1].frame = delivered[len + 1].frame
        /\ writes'[len + 1].from = delivered[len + 1].from
    <3>1. len + 1 <= Len(delivered)
      BY <1>1, <1>3, <2>2, <2>3, <2>4
    <3> QED
      BY <2>1, <2>2, <2>5, <3>1
  <2>7. SameFrames'
    <3>1. ASSUME NEW k \in 1..len
          PROVE  /\ k <= Len(delivered) /\ writes'[k].frame = delivered[k].frame
                 /\ writes'[k].from = delivered[k].from
      BY <1>3, <2>2 DEF SameFrames, SameFrame, len
    <3>2. \A k \in 1..Len(writes') : k \in 1..len \/ k = len + 1
      BY <2>2
    <3>3. \A k \in 1..Len(writes') :
            /\ k <= Len(delivered) /\ writes'[k].frame = delivered[k].frame
            /\ writes'[k].from = delivered[k].from
      BY <2>6, <3>1, <3>2
    <3> QED
      BY <1>2, <3>3 DEF SameFrames, SameFrame
  <2>8. Ahead(num, Total)'
    <3>1. Len(delivered) = (len + 1) + Total - (num + 1)
      BY <1>1, <1>3, <2>2, <2>4
    <3>2. ASSUME NEW i \in (num + 1) + 1..Total
          PROVE  delivered[(len + 1) + i - (num + 1)] = [frame |-> can_frames[i], from |-> from]
      <4>1. (len + 1) + i - (num + 1) = len + i - num /\ i \in num + 1..Total
        BY <1>1, <1>3, <2>2
      <4> QED
        BY <2>4, <4>1
    <3> QED
      BY <1>2, <1>3, <1>5, <2>2, <3>1, <3>2 DEF Ahead
  <2>9. LengthInv'
    BY <1>2, <1>3, <1>5, <2>3, <2>8 DEF LengthInv
  <2> QED
    BY <2>7, <2>9 DEF OutInv
<1>6. CASE ~More /\ num' = 0 /\ UNCHANGED writes /\ rx' \in {"fault", "poll"}
  <2>1. Len(writes) = Len(delivered)
    <3>1. num = Total /\ Len(writes) \in Nat
      BY <1>0, <1>1, <1>6, LoopIsThrough
    <3> QED
      BY <1>1, <1>4, <3>1
  <2>2. SameFrames'
    BY <1>2, <1>3, <1>6 DEF SameFrames, SameFrame
  <2> QED
    BY <1>2, <1>3, <1>6, <2>1, <2>2 DEF OutInv, LengthInv
<1> QED
  BY <1>0, <1>5, <1>6, SendDataTurn

\* The outputs differ only by frames of the packet in hand.
LEMMA NextOutInv == TypeInv /\ HandInv /\ OutInv /\ [Next]_vars => OutInv'
<1> SUFFICES ASSUME TypeInv, HandInv, OutInv, [Next]_vars
             PROVE  OutInv'
  OBVIOUS
<1>1. CASE Recv
  <2>1. rx = "recv" /\ rx' = "callback" /\ num' = 0
        /\ UNCHANGED <<delivered, writes, m_is_can_enabled>>
    BY <1>1 DEF Recv, outputs
  <2>2. m_is_can_enabled => Len(writes) = Len(delivered)
    BY <2>1 DEF OutInv, LengthInv
  <2>3. Len(writes) \in Nat
    BY DEF TypeInv, RxTypes
  <2>4. m_is_can_enabled => Ahead(0, num)'
    BY <2>1, <2>2, <2>3 DEF Ahead
  <2> QED
    BY <2>1, <2>4 DEF OutInv, LengthInv, SameFrames, SameFrame
<1>2. CASE Callback
  BY <1>2, CallbackOut
<1>3. CASE SendData
  BY <1>3, SendDataOut
<1>4. CASE StartRx \/ RxPoll \/ RecvFails \/ JoinRx
  <2>1. rx \notin {"callback", "write", "fault"} /\ rx' \notin {"callback", "write", "fault"}
    BY <1>4 DEF StartRx, RxPoll, RecvFails, JoinRx
  <2>2. UNCHANGED <<delivered, writes, m_is_can_enabled>>
    BY <1>4 DEF StartRx, RxPoll, RecvFails, JoinRx, outputs
  <2> QED
    BY <2>1, <2>2 DEF OutInv, LengthInv, SameFrames, SameFrame
<1>5. CASE StopRx \/ Signal \/ UNCHANGED rxVars
  <2>1. UNCHANGED <<delivered, writes, can_frames, from, num, num_can_msgs, m_is_can_enabled>>
    BY <1>5 DEF StopRx, Signal, rxVars, rxLocals, outputs
  <2>2. rx' = rx \/ {rx, rx'} \subseteq {"poll", "done"}
    BY <1>5 DEF StopRx, Signal, rxVars
  <2> QED
    BY <2>1, <2>2 DEF OutInv, LengthInv, SameFrames, SameFrame, Ahead, Total
<1> QED
  BY <1>1, <1>2, <1>3, <1>4, <1>5, NextOfRx

-----------------------------------------------------------------------------
\* Nothing accepted is without output.  The packet in hand may have none yet.
CountInv ==
  \A t \in {"run", "app"} :
    Cardinality(From(t, receptions)) <=
      Cardinality(From(t, delivered)) + (IF rx = "callback" /\ num = 0 /\ from = t THEN 1 ELSE 0)

\* A history, one entry longer.
LEMMA FromHistory ==
  ASSUME NEW S, NEW h \in Seq(S), NEW t
  PROVE  IsFiniteSet(From(t, h)) /\ Cardinality(From(t, h)) \in Nat
<1>1. IsFiniteSet(1..Len(h)) /\ From(t, h) \subseteq 1..Len(h)
  BY FS_Interval DEF From
<1> QED
  BY <1>1, FS_Subset, FS_CardinalityType

\* An entry that comes from t counts for t, another does not.
LEMMA FromOneMore ==
  ASSUME NEW S, NEW h \in Seq(S), NEW x \in S, NEW t
  PROVE  /\ x.from = t => /\ From(t, Append(h, x)) = From(t, h) \cup {Len(h) + 1}
                          /\ Cardinality(From(t, Append(h, x))) = Cardinality(From(t, h)) + 1
         /\ x.from # t => From(t, Append(h, x)) = From(t, h)
<1> DEFINE g == Append(h, x)
<1>1. DOMAIN h = 1..Len(h) /\ DOMAIN g = 1..Len(h) + 1 /\ Len(h) \in Nat
      /\ g[Len(h) + 1] = x /\ \A k \in 1..Len(h) : g[k] = h[k]
  OBVIOUS
<1> HIDE DEF g
<1>2. x.from = t => From(t, g) = From(t, h) \cup {Len(h) + 1}
  BY <1>1 DEF From
<1>3. x.from # t => From(t, g) = From(t, h)
  BY <1>1 DEF From
<1>4. Len(h) + 1 \notin From(t, h)
  BY <1>1 DEF From
<1>5. Cardinality(From(t, h) \cup {Len(h) + 1}) = Cardinality(From(t, h)) + 1
  BY <1>4, FromHistory, FS_AddElement
<1> QED
  BY <1>2, <1>3, <1>5 DEF g

\* Every packet that is accepted yields a frame.
LEMMA NextCountInv == TypeInv /\ HandInv /\ CountInv /\ [Next]_vars => CountInv'
<1> SUFFICES ASSUME TypeInv, HandInv, CountInv, [Next]_vars, NEW t \in {"run", "app"}
             PROVE  Cardinality(From(t, receptions')) <= Cardinality(From(t, delivered'))
                      + (IF rx' = "callback" /\ num' = 0 /\ from' = t THEN 1 ELSE 0)
  BY DEF CountInv
<1> DEFINE r == Cardinality(From(t, receptions))
           d == Cardinality(From(t, delivered))
<1>1. /\ receptions \in Seq(Reception) /\ delivered \in Seq(Output)
      /\ num \in 0..Slots /\ num_can_msgs \in 0..255 /\ RxTypes
  BY DEF TypeInv, RxTypes
<1>2. r \in Nat /\ d \in Nat
  BY <1>1, FromHistory
<1>3. r <= d + (IF rx = "callback" /\ num = 0 /\ from = t THEN 1 ELSE 0)
  BY DEF CountInv
<1> HIDE DEF r, d
<1>4. CASE Recv
  <2> DEFINE x == [from |-> from', n |-> Head(eth).n,
                   warned |-> Head(eth).ours /\ Head(eth).seq # exp_cf_seqnum]
  <2>1. receptions' = Append(receptions, x) /\ rx = "recv" /\ rx' = "callback" /\ num' = 0
        /\ UNCHANGED delivered
    BY <1>4 DEF Recv, outputs
  <2>2. x \in Reception /\ x.from = from'
    <3>1. Head(eth) \in Packet
      BY <1>4, TakenPacket
    <3>2. from' \in Talker \cup {"rejected"}
      BY NextRxTypes DEF TypeInv, RxTypes
    <3> QED
      BY <3>1, <3>2 DEF Reception, Packet
  <2> HIDE DEF x
  <2>3. from' = t => Cardinality(From(t, receptions')) = r + 1
    BY <1>1, <2>1, <2>2, FromOneMore DEF r
  <2>4. from' # t => Cardinality(From(t, receptions')) = r
    BY <1>1, <2>1, <2>2, FromOneMore DEF r
  <2>5. Cardinality(From(t, delivered')) = d
    BY <2>1 DEF d
  <2> QED
    BY <1>2, <1>3, <2>1, <2>3, <2>4, <2>5
<1>5. CASE Callback
  <2>1. UNCHANGED <<receptions, from, num_can_msgs>> /\ rx = "callback"
    BY <1>1, <1>5, CallbackTurn
  <2>2. Cardinality(From(t, receptions')) = r
    BY <2>1 DEF r
  <2>3. from = t => num_can_msgs \in 1..Slots
    BY <2>1 DEF HandInv, Working
  <2>4. CASE /\ num + 1 \in 1..Slots /\ num' = num + 1
             /\ delivered' = Append(delivered, [frame |-> can_frames[num + 1], from |-> from])
    <3> DEFINE o == [frame |-> can_frames[num + 1], from |-> from]
    <3>1. o \in Output /\ o.from = from
      BY <1>1, <2>4, HandedOut
    <3>2. delivered' = Append(delivered, o)
      BY <2>4
    <3> HIDE DEF o
    <3>3. from = t => Cardinality(From(t, delivered')) = d + 1
      BY <1>1, <3>1, <3>2, FromOneMore DEF d
    <3>4. from # t => Cardinality(From(t, delivered')) = d
      BY <1>1, <3>1, <3>2, FromOneMore DEF d
    <3>5. num' # 0
      BY <1>1, <2>4
    <3> QED
      BY <1>2, <1>3, <2>1, <2>2, <3>3, <3>4, <3>5
  <2>5. CASE ~More /\ UNCHANGED delivered /\ rx' # "callback"
    <3>1. from = t => num # 0
      BY <1>1, <2>3, <2>5, Bounds DEF More
    <3>2. Cardinality(From(t, delivered')) = d
      BY <2>5 DEF d
    <3> QED
      BY <1>2, <1>3, <2>1, <2>2, <2>5, <3>1, <3>2
  <2> QED
    BY <1>1, <1>5, <2>4, <2>5, CallbackTurn
<1>6. CASE UNCHANGED <<receptions, delivered>> /\ (rx = "callback" => UNCHANGED <<rx, num, from>>)
  <2>1. Cardinality(From(t, receptions')) = r /\ Cardinality(From(t, delivered')) = d
    BY <1>6 DEF r, d
  <2> QED
    BY <1>2, <1>3, <1>6, <2>1
<1> QED
  BY <1>4, <1>5, <1>6, NextOfRx
     DEF StartRx, RxPoll, RecvFails, SendData, StopRx, JoinRx, Signal, rxVars, rxLocals, outputs

-----------------------------------------------------------------------------
\* A frame of the bus on its way: the number of its packet, and its own.
Item(n, id) == [n |-> n, id |-> id]
ItemOf(p) == Item(p.n, p.acf[1].frame.id)
OnEthernet == {ItemOf(eth[i]) : i \in From("run", eth)}
Unwritten == rx = "callback" \/ (rx = "write" /\ num = 0)
InHand == IF Unwritten /\ from = "run" THEN {Item(Latest.n, can_frames[1].id)} ELSE {}
ToSend == IF tx = "send" THEN {Item(sent + 1, got)} ELSE {}
Items == OnEthernet \cup InHand \cup ToSend

\* Packets that repeat the frame of another, sent or about to be sent.
Repeats == sent + (IF tx = "send" THEN 1 ELSE 0) - got

\* A frame is repeated only after a failed read.
ReadInv ==
  /\ tx_frame.id = got
  /\ Repeats >= 0 /\ Repeats + (IF sock_err THEN 1 ELSE 0) <= errors

\* Packets are in the order in which they were sent.
QueueInv ==
  /\ Working => receptions # <<>>
  /\ \A i, j \in From("run", eth) : i < j => eth[i].n < eth[j].n
  /\ \A x \in InHand : x.n <= sent /\ \A i \in From("run", eth) : x.n < eth[i].n

\* A later packet has a later frame, or repeats one more.
ItemsInv ==
  /\ \A x \in Items : x.id <= got /\ x.n - x.id <= Repeats
  /\ \A x, y \in Items : x.n < y.n => x.id <= y.id /\ x.n - x.id <= y.n - y.id

\* What was written is older than what is on its way.
FromBus == From("run", writes) \cap OnBus
WrittenInv ==
  /\ \A i, j \in FromBus : i < j => writes[i].frame.id <= writes[j].frame.id
  /\ \A i \in FromBus : writes[i].frame.id <= got
  /\ \A i \in FromBus : \A x \in Items : writes[i].frame.id <= x.id

\* What was written repeats no more than what was sent up to then.
Frames == {writes[k].frame.id : k \in FromBus} \cap 1..MaxFrames
Excess == Cardinality(FromBus) - Cardinality(Frames)
ExcessInv ==
  /\ Excess <= Repeats
  /\ \A x \in Items : Excess + (IF x.id \in Frames \cup {0} THEN 1 ELSE 0) <= x.n - x.id

\* A packet of the transmitter's thread on the Ethernet is one that was sent.
LEMMA FromEth ==
  ASSUME TypeInv, NEW i \in From("run", eth)
  PROVE  /\ i \in 1..Len(eth) /\ eth[i] \in Packet /\ eth[i].from = "run"
         /\ eth[i].n \in 1..sent /\ eth[i].n \in Nat
         /\ ItemOf(eth[i]).n = eth[i].n /\ ItemOf(eth[i]).id = eth[i].acf[1].frame.id
         /\ eth[i].acf[1].frame.id \in Nat
<1>1. i \in 1..Len(eth) /\ eth[i] \in Packet /\ Carried(eth[i], sent) /\ eth[i].from = "run"
  BY DEF From, TypeInv, NetTypes, PacketInv
<1>2. eth[i].acf \in Seq(Acf) /\ Len(eth[i].acf) = 1 /\ eth[i].n \in 1..sent
  BY <1>1 DEF Packet, Carried
<1>3. eth[i].acf[1] \in Acf
  BY <1>2
<1>4. eth[i].acf[1].frame.id \in Nat
  BY <1>3, Bounds DEF Acf, CanFrame, App
<1> QED
  BY <1>1, <1>2, <1>4 DEF ItemOf, Item, TypeInv, TxTypes

\* Its numbers.
LEMMA ItemTypes ==
  ASSUME TypeInv, QueueInv, NEW x \in Items
  PROVE  x.n \in Nat /\ x.id \in Nat
<1>1. CASE x \in OnEthernet
  BY <1>1, FromEth DEF OnEthernet
<1>2. CASE x \in InHand
  <2>1. receptions # <<>> /\ x = Item(Latest.n, can_frames[1].id)
    BY <1>2 DEF InHand, Unwritten, Working, QueueInv
  <2>2. Latest \in Reception /\ can_frames[1] \in CanFrame
    BY <2>1, Bounds DEF TypeInv, RxTypes, Latest
  <2> QED
    BY <2>1, <2>2, Bounds DEF Item, Reception, CanFrame, App
<1>3. CASE x \in ToSend
  BY <1>3 DEF ToSend, Item, TypeInv, TxTypes
<1> QED
  BY <1>1, <1>2, <1>3 DEF Items

\* Only a failed read lets the thread send without a new frame.
LEMMA NextReadInv == TypeInv /\ ReadInv /\ [Next]_vars => ReadInv'
<1> SUFFICES ASSUME TypeInv, ReadInv, [Next]_vars
             PROVE  ReadInv'
  OBVIOUS
<1> USE DEF ReadInv, Repeats
<1>0. sent \in Nat /\ got \in Nat /\ errors \in Nat /\ sock_err \in BOOLEAN
  BY Bounds DEF TypeInv, TxTypes, NetTypes
<1>1. CASE ReceiveData
  <2>1. CASE sock_err
    BY <1>0, <1>1, <2>1 DEF ReceiveData
  <2>2. CASE ~sock_err
    <3>1. /\ bus # <<>> /\ tx_frame' = Head(bus) /\ got' = got + 1
          /\ UNCHANGED <<sock_err, sent, errors>> /\ tx = "read" /\ tx' = "send"
      BY <1>1, <2>2 DEF ReceiveData
    <3>2. Head(bus) = traffic[got + 1] /\ got + 1 \in 1..MaxFrames /\ traffic \in Traffic
      <4>1. bus \in Seq(Sendable) /\ arrived \in 0..MaxFrames /\ got \in 0..arrived
        BY DEF TypeInv, TxTypes
      <4>2. Len(bus) = arrived - got /\ \A i \in 1..Len(bus) : bus[i] = traffic[got + i]
        BY <3>1 DEF TypeInv, BusInv
      <4>3. Head(bus) = bus[1] /\ 1 \in 1..Len(bus)
        BY <3>1, <4>1
      <4> QED
        BY <4>1, <4>2, <4>3, Bounds DEF TypeInv, TxTypes
    <3>3. tx_frame'.id = got + 1
      BY <3>1, <3>2, TrafficFrame
    <3> QED
      BY <1>0, <3>1, <3>3
  <2> QED
    BY <2>1, <2>2
<1>2. CASE SendFrame
  BY <1>0, <1>2 DEF SendFrame
<1>3. CASE BusError
  BY <1>0, <1>3 DEF BusError
<1>4. CASE RecvFails
  BY <1>0, <1>4 DEF RecvFails, txVars
<1>5. CASE UNCHANGED <<tx_frame, got, sent, sock_err, errors>> /\ (tx = "send" <=> tx' = "send")
  BY <1>5
<1> QED
  BY <1>1, <1>2, <1>3, <1>4, <1>5
     DEF Next, TxStep, RxStep, Environment, vars, txVars, netVars, rxVars, rxLocals, StartRx,
         RxPoll, Recv, Callback, SendData, JoinRx, StopRx, StartTx, TxPoll, JoinTx, Arrive,
         StopTx, SendPacket, Stranger, Signal

\* What a step does to the packets on the Ethernet.
LEMMA SentPacket ==
  ASSUME TypeInv, ReadInv, SendFrame
  PROVE  \/ eth' = eth
         \/ \E p \in Packet : /\ eth' = Append(eth, p) /\ p.from = "run" /\ p.n = sent + 1
                              /\ ItemOf(p) = Item(sent + 1, got)
<1> DEFINE frames == <<tx_frame>>
           p == Insert("run", sent + 1, cf_seq_num, frames)
<1>1. frames \in Seq(CanFrame) /\ Len(frames) = 1 /\ frames[1] = tx_frame
  BY DEF TypeInv, TxTypes
<1>2. eth' = eth \/ eth' = Append(eth, p)
  BY DEF SendFrame, SendTo
<1> HIDE DEF frames
<1>3. sent + 1 \in Nat /\ cf_seq_num \in 0..SeqModulus - 1 /\ "run" \in Talker
  BY DEF TypeInv, TxTypes, Talker
<1>4. p \in Packet /\ p.from = "run" /\ p.n = sent + 1 /\ p.acf[1].frame = tx_frame
  BY <1>1, <1>3, InsertedPacket
<1> HIDE DEF p
<1>5. ItemOf(p) = Item(sent + 1, got)
  BY <1>4 DEF ItemOf, ReadInv
<1> QED
  BY <1>2, <1>4, <1>5

\* Where the packets of the thread are after that.
LEMMA FromRunAppended ==
  ASSUME TypeInv, NEW p \in Packet, eth' = Append(eth, p)
  PROVE  /\ \A i \in From("run", eth) : i \in 1..Len(eth) /\ eth'[i] = eth[i]
         /\ p.from = "run" => /\ From("run", eth') = From("run", eth) \cup {Len(eth) + 1}
                              /\ eth'[Len(eth) + 1] = p
         /\ p.from # "run" => From("run", eth') = From("run", eth)
<1>1. eth \in Seq(Packet)
  BY DEF TypeInv, NetTypes
<1>2. \A i \in 1..Len(eth) : eth'[i] = eth[i]
  BY <1>1
<1>3. eth'[Len(eth) + 1] = p
  BY <1>1
<1>4. \A i \in From("run", eth) : i \in 1..Len(eth)
  BY <1>1 DEF From
<1> QED
  BY <1>1, <1>2, <1>3, <1>4, FromOneMore

\* Where they are when the receiver takes the first.
LEMMA FromRunTaken ==
  ASSUME TypeInv, Recv
  PROVE  /\ \A i \in From("run", eth') : /\ i \in Nat /\ i + 1 \in From("run", eth)
                                         /\ eth'[i] = eth[i + 1] /\ 1 < i + 1
         /\ from' = "run" => 1 \in From("run", eth) /\ eth[1] = Head(eth)
<1>1. eth \in Seq(Packet) /\ eth # <<>> /\ eth' = Tail(eth)
  BY DEF Recv, TypeInv, NetTypes
<1>2. /\ eth' \in Seq(Packet)
      /\ \A i \in 1..Len(eth') : i + 1 \in 1..Len(eth) /\ eth'[i] = eth[i + 1]
  BY <1>1
<1>3. from' = "run" => Head(eth).from = "run" /\ Head(eth) = eth[1] /\ 1 \in 1..Len(eth)
  BY TakenPacket
<1>4. /\ DOMAIN eth = 1..Len(eth) /\ DOMAIN eth' = 1..Len(eth')
      /\ Len(eth) \in Nat /\ Len(eth') \in Nat
  BY <1>1, <1>2
<1> QED
  BY <1>2, <1>3, <1>4 DEF From

\* What the receiver has in hand then.
LEMMA TakenInHand ==
  ASSUME TypeInv, Recv
  PROVE  InHand' = IF from' = "run" THEN {ItemOf(Head(eth))} ELSE {}
<1>1. rx' = "callback"
  BY DEF Recv
<1>2. CASE from' = "run"
  <2>1. Latest'.n = Head(eth).n
    BY TakenReception DEF Latest
  <2>2. can_frames' = Store(Head(eth)) /\ Accepts(Head(eth)) /\ Head(eth) \in Packet
    BY <1>2, TakenPacket DEF Recv, Carried
  <2>3. 1 \in 1..Slots /\ Len(Head(eth).acf) = 1
    BY <1>2, TakenPacket, Bounds DEF Carried
  <2>4. can_frames'[1].id = Head(eth).acf[1].frame.id
    BY <2>2, <2>3, StoredFrames DEF TypeInv
  <2> QED
    BY <1>1, <1>2, <2>1, <2>4 DEF InHand, Unwritten, ItemOf
<1> QED
  BY <1>1, <1>2 DEF InHand

\* Everything that is in hand stays, or goes.
LEMMA SameInHand ==
  ASSUME TypeInv, [Next]_vars, ~Recv
  PROVE  InHand' \subseteq InHand /\ (Working' => Working) /\ UNCHANGED receptions
<1> USE DEF InHand, Unwritten, Working, Latest
<1>0. RxTypes /\ num \in 0..Slots
  BY DEF TypeInv, RxTypes
<1>1. CASE Callback \/ SendData
  BY <1>0, <1>1, CallbackTurn, SendDataTurn, Bounds
<1>2. CASE \/ StartRx \/ RxPoll \/ RecvFails \/ JoinRx \/ StopRx \/ Signal
           \/ UNCHANGED rxVars
  BY <1>2 DEF StartRx, RxPoll, RecvFails, JoinRx, StopRx, Signal, rxVars, rxLocals
<1> QED
  BY <1>1, <1>2, NextOfRx

\* The order of packets is kept on the Ethernet and at the receiver.
LEMMA NextQueueInv == TypeInv /\ ReadInv /\ QueueInv /\ [Next]_vars => QueueInv'
<1> SUFFICES ASSUME TypeInv, ReadInv, QueueInv, [Next]_vars
             PROVE  QueueInv'
  OBVIOUS
<1>1. CASE SendFrame
  <2>1. sent' = sent + 1 /\ sent \in Nat /\ ~Recv
    BY <1>1 DEF SendFrame, Recv, TypeInv, TxTypes, txVars
  <2>2. /\ \A x \in InHand' : x.n <= sent /\ \A i \in From("run", eth) : x.n < eth[i].n
        /\ InHand' \subseteq InHand /\ (Working' => receptions' # <<>>)
    BY <2>1, SameInHand DEF QueueInv
  <2>3. \A x \in InHand' : x.n \in Nat
    BY <2>2, ItemTypes DEF Items
  <2>4. \A i \in From("run", eth) : eth[i].n \in 1..sent /\ i \in 1..Len(eth)
    BY FromEth
  <2>5. CASE eth' = eth
    BY <2>1, <2>2, <2>3, <2>5 DEF QueueInv
  <2>6. ASSUME NEW p \in Packet, eth' = Append(eth, p), p.from = "run", p.n = sent + 1
        PROVE  QueueInv'
    <3>1. /\ From("run", eth') = From("run", eth) \cup {Len(eth) + 1}
          /\ eth'[Len(eth) + 1] = p /\ \A i \in From("run", eth) : eth'[i] = eth[i]
      BY <2>6, FromRunAppended
    <3>2. Len(eth) \in Nat
      BY DEF TypeInv, NetTypes
    <3>3. \A i, j \in From("run", eth') : i < j => eth'[i].n < eth'[j].n
      BY <2>1, <2>4, <2>6, <3>1, <3>2 DEF QueueInv
    <3>4. ASSUME NEW x \in InHand'
          PROVE  x.n <= sent' /\ \A i \in From("run", eth') : x.n < eth'[i].n
      <4>1. x.n <= sent /\ x.n \in Nat /\ \A i \in From("run", eth) : x.n < eth[i].n
        BY <2>2, <2>3
      <4>2. x.n <= sent' /\ x.n < p.n
        BY <2>1, <2>6, <4>1
      <4> QED
        BY <3>1, <4>1, <4>2
    <3> QED
      BY <2>2, <3>3, <3>4 DEF QueueInv
  <2> QED
    BY <1>1, <2>5, <2>6, SentPacket
<1>2. CASE SendPacket \/ Stranger
  <2>1. UNCHANGED sent /\ ~Recv
    BY <1>2 DEF SendPacket, Stranger, txVars, rxVars, Recv
  <2>2. /\ From("run", eth') = From("run", eth)
        /\ \A i \in From("run", eth) : eth'[i] = eth[i]
    BY <1>2, OtherPacket, FromRunAppended DEF Carried
  <2> QED
    BY <2>1, <2>2, SameInHand DEF QueueInv
<1>3. CASE Recv
  <2>1. receptions' # <<>> /\ UNCHANGED sent
    BY <1>3, TakenReception DEF Recv, txVars
  <2>2. \A i, j \in From("run", eth') : i < j => eth'[i].n < eth'[j].n
    BY <1>3, FromRunTaken DEF QueueInv
  <2>3. \A x \in InHand' : x.n <= sent' /\ \A i \in From("run", eth') : x.n < eth'[i].n
    <3>1. CASE from' = "run"
      <4>1. 1 \in From("run", eth) /\ InHand' = {ItemOf(eth[1])}
        BY <1>3, <3>1, FromRunTaken, TakenInHand
      <4>2. ItemOf(eth[1]).n = eth[1].n /\ eth[1].n \in 1..sent /\ sent \in Nat
        BY <4>1, FromEth DEF TypeInv, TxTypes
      <4> QED
        BY <1>3, <2>1, <4>1, <4>2, FromRunTaken DEF QueueInv
    <3>2. CASE from' # "run"
      BY <1>3, <3>2, TakenInHand
    <3> QED
      BY <3>1, <3>2
  <2> QED
    BY <2>1, <2>2, <2>3 DEF QueueInv
<1>4. CASE UNCHANGED <<eth, sent>> /\ ~Recv
  BY <1>4, SameInHand DEF QueueInv
<1> QED
  BY <1>1, <1>2, <1>3, <1>4, NextOfNet DEF BusError, RecvFails, Signal, netVars, txVars, Recv

\* Nothing new is on its way, except what was read from the bus just now.
LEMMA SameItems ==
  ASSUME TypeInv, ReadInv, [Next]_vars, ~ReceiveData
  PROVE  Items' \subseteq Items /\ got' = got /\ Repeats' = Repeats
<1>1. CASE SendFrame
  <2>1. /\ sent' = sent + 1 /\ sent \in Nat /\ got \in Nat /\ tx = "send" /\ tx' = "poll"
        /\ got' = got /\ ~Recv
    BY <1>1 DEF SendFrame, Recv, TypeInv, TxTypes, txVars
  <2>2. ToSend = {Item(sent + 1, got)} /\ ToSend' = {} /\ Repeats' = Repeats
    BY <2>1 DEF ToSend, Repeats
  <2>3. OnEthernet' \subseteq OnEthernet \cup ToSend
    <3>1. CASE eth' = eth
      BY <3>1 DEF OnEthernet
    <3>2. ASSUME NEW p \in Packet, eth' = Append(eth, p), p.from = "run",
                 ItemOf(p) = Item(sent + 1, got)
          PROVE  OnEthernet' \subseteq OnEthernet \cup ToSend
      BY <2>2, <3>2, FromRunAppended DEF OnEthernet
    <3> QED
      BY <1>1, <3>1, <3>2, SentPacket
  <2> QED
    BY <2>1, <2>2, <2>3, SameInHand DEF Items
<1>2. CASE Recv
  <2>1. OnEthernet' \subseteq OnEthernet
    BY <1>2, FromRunTaken DEF OnEthernet
  <2>2. InHand' \subseteq OnEthernet
    BY <1>2, TakenInHand, FromRunTaken DEF OnEthernet
  <2>3. UNCHANGED <<tx, sent, got>>
    BY <1>2 DEF Recv, txVars
  <2> QED
    BY <2>1, <2>2, <2>3 DEF Items, ToSend, Repeats
<1>3. CASE ~SendFrame /\ ~Recv
  <2>1. OnEthernet' = OnEthernet
    <3>1. CASE SendPacket \/ Stranger
      BY <3>1, OtherPacket, FromRunAppended DEF OnEthernet, Carried
    <3>2. CASE UNCHANGED eth
      BY <3>2 DEF OnEthernet
    <3> QED
      BY <1>3, <3>1, <3>2, NextOfNet DEF BusError, RecvFails, Signal, netVars
  <2>2. UNCHANGED <<sent, got>> /\ (tx = "send" <=> tx' = "send")
    BY <1>3, NextOfTx
       DEF Arrive, StartTx, TxPoll, StopTx, JoinTx, BusError, Signal, txVars
  <2> QED
    BY <1>3, <2>1, <2>2, SameInHand DEF Items, ToSend, Repeats
<1> QED
  BY <1>1, <1>2, <1>3

\* A read: one frame more, or one repeated, is about to be sent.
ReadFrame ==
  /\ Items' = Items \cup {Item(sent + 1, got')} /\ Repeats' = sent + 1 - got'
  /\ sent \in Nat /\ got \in Nat /\ UNCHANGED writes
  /\ \/ got' = got /\ Repeats' = Repeats + 1
     \/ got' = got + 1 /\ Repeats' = Repeats
  /\ Repeats \in Int /\ \A x \in Items : x.n <= sent

\* That is what the read of the CAN socket does, also one that fails.
LEMMA ReadItem ==
  ASSUME TypeInv, QueueInv, ReceiveData
  PROVE  ReadFrame
<1>1. /\ tx = "read" /\ tx' = "send" /\ (got' = got \/ got' = got + 1)
      /\ UNCHANGED <<sent, eth, rx, num, from, receptions, can_frames, writes>>
  BY DEF ReceiveData, rxVars, rxLocals, outputs, netVars
<1>2. sent \in Nat /\ got \in Nat
  BY Bounds DEF TypeInv, TxTypes
<1>3. /\ OnEthernet' = OnEthernet /\ InHand' = InHand
      /\ ToSend = {} /\ ToSend' = {Item(sent + 1, got')}
  BY <1>1 DEF OnEthernet, InHand, Unwritten, Latest, ToSend
<1>4. \A x \in Items : x.n <= sent
  <2>1. \A x \in OnEthernet : x.n <= sent
    BY <1>2, FromEth DEF OnEthernet
  <2> QED
    BY <1>3, <2>1 DEF Items, QueueInv
<1>5. Repeats = sent - got /\ Repeats' = sent + 1 - got'
  BY <1>1, <1>2 DEF Repeats
<1> QED
  BY <1>1, <1>2, <1>3, <1>4, <1>5 DEF ReadFrame, Items

\* The order of frames is kept, and of the repetitions.
LEMMA NextItemsInv == TypeInv /\ ReadInv /\ QueueInv /\ ItemsInv /\ [Next]_vars => ItemsInv'
<1> SUFFICES ASSUME TypeInv, ReadInv, QueueInv, ItemsInv, [Next]_vars
             PROVE  ItemsInv'
  OBVIOUS
<1>1. CASE ReceiveData
  <2>1. ReadFrame
    BY <1>1, ReadItem
  <2>2. PICK y : y = Item(sent + 1, got') /\ Items' = Items \cup {y}
    BY <2>1 DEF ReadFrame
  <2>3. y.n = sent + 1 /\ y.id = got' /\ y.n - y.id = Repeats'
    BY <2>1, <2>2 DEF ReadFrame, Item
  <2>4. /\ sent \in Nat /\ got \in Nat /\ got' \in Nat /\ got <= got'
        /\ Repeats \in Int /\ Repeats' \in Int /\ Repeats <= Repeats'
    BY <2>1 DEF ReadFrame
  <2>5. \A x \in Items : /\ x.n \in Nat /\ x.id \in Nat /\ x.n <= sent
                         /\ x.id <= got /\ x.n - x.id <= Repeats
    BY <2>1, ItemTypes DEF ReadFrame, ItemsInv
  <2>6. \A x \in Items' : x.id <= got' /\ x.n - x.id <= Repeats'
    BY <2>2, <2>3, <2>4, <2>5
  <2>7. ASSUME NEW x \in Items', NEW z \in Items', x.n < z.n
        PROVE  x.id <= z.id /\ x.n - x.id <= z.n - z.id
    <3>1. CASE x \in Items /\ z \in Items
      BY <2>7, <3>1 DEF ItemsInv
    <3>2. CASE x \in Items /\ z = y
      <4>1. x.n \in Nat /\ x.id \in Nat /\ x.id <= got /\ x.n - x.id <= Repeats
        BY <2>5, <3>2
      <4>2. x.id <= got' /\ x.n - x.id <= Repeats'
        BY <2>4, <4>1
      <4> QED
        BY <2>3, <3>2, <4>2
    <3>3. CASE x = y
      BY <2>2, <2>3, <2>4, <2>5, <2>7, <3>3
    <3> QED
      BY <2>2, <3>1, <3>2, <3>3
  <2> QED
    BY <2>6, <2>7 DEF ItemsInv
<1>2. CASE ~ReceiveData
  BY <1>2, SameItems DEF ItemsInv
<1> QED
  BY <1>1, <1>2

-----------------------------------------------------------------------------
\* What is written: a frame of the bus is one that the other bus has taken.
LEMMA BusFrame ==
  ASSUME TypeInv
  PROVE  \A k : k \in FromBus <=> k \in 1..Len(writes) /\ writes[k].from = "run" /\ writes[k].ok
BY DEF TypeInv, RxTypes, FromBus, From, OnBus

\* One call of write() more.
LEMMA BusOneMore ==
  ASSUME TypeInv, NEW o \in Write, writes' = Append(writes, o)
  PROVE  /\ o.from = "run" /\ o.ok => FromBus' = FromBus \cup {Len(writes) + 1}
         /\ ~(o.from = "run" /\ o.ok) => FromBus' = FromBus
         /\ Len(writes) + 1 \notin FromBus /\ Len(writes) \in Nat
         /\ writes'[Len(writes) + 1] = o
         /\ \A k \in FromBus : k \in 1..Len(writes) /\ writes'[k] = writes[k]
<1>1. writes \in Seq(Write) /\ Len(writes) \in Nat
  BY DEF TypeInv, RxTypes
<1>2. /\ DOMAIN writes = 1..Len(writes) /\ DOMAIN writes' = 1..Len(writes) + 1
      /\ writes'[Len(writes) + 1] = o /\ \A k \in 1..Len(writes) : writes'[k] = writes[k]
  BY <1>1
<1>3. \A k : k \in FromBus' <=> /\ k \in 1..Len(writes) + 1
                               /\ writes'[k].from = "run" /\ writes'[k].ok
  BY <1>2 DEF FromBus, From, OnBus
<1>4. \A k : k \in FromBus <=> k \in 1..Len(writes) /\ writes[k].from = "run" /\ writes[k].ok
  BY BusFrame
<1>5. \A k : k \in 1..Len(writes) + 1 <=> k \in 1..Len(writes) \/ k = Len(writes) + 1
  BY <1>1
<1>6. Len(writes) + 1 \notin 1..Len(writes)
  BY <1>1
<1>7. o.from = "run" /\ o.ok => FromBus' = FromBus \cup {Len(writes) + 1}
  BY <1>2, <1>3, <1>4, <1>5
<1>8. ASSUME ~(o.from = "run" /\ o.ok) PROVE FromBus' = FromBus
  <2>1. \A k : k \in FromBus' <=> k \in FromBus
    BY <1>2, <1>3, <1>4, <1>5, <1>8
  <2> QED
    BY <2>1
<1> QED
  BY <1>1, <1>2, <1>4, <1>6, <1>7, <1>8

\* The bus gets nothing of the transmitter's bus, or the frame in hand.
BusKept == FromBus' = FromBus /\ \A k \in FromBus : writes'[k] = writes[k]
BusGets(w, o) ==
  /\ writes' = Append(writes, o) /\ o.from = "run" /\ o.ok /\ o.frame.id = w.id
  /\ Items' \subseteq Items /\ \A x \in Items' : w.n < x.n
  /\ UNCHANGED <<tx, sent, got>>

\* A packet of the transmitter's thread has one frame, the one in hand.
LEMMA WrittenFrame ==
  ASSUME TypeInv, HandInv, QueueInv, SendData, from = "run", More,
         NEW o \in Write, o = [frame |-> can_frames[num + 1], from |-> from, ok |-> TRUE],
         writes' = Append(writes, o)
  PROVE  \E w \in InHand : BusGets(w, o)
<1> DEFINE w == Item(Latest.n, can_frames[1].id)
<1>1. RxTypes /\ rx = "write" /\ Working
  BY DEF SendData, Working, TypeInv
<1>2. num = 0 /\ num' = 1
  BY <1>1, SendDataTurn DEF HandInv, More, RxTypes
<1>3. w \in InHand /\ w.id = can_frames[1].id /\ w.n = Latest.n
  BY <1>1, <1>2 DEF InHand, Unwritten, Item
<1>4. o.from = "run" /\ o.ok /\ o.frame.id = w.id
  BY <1>2, <1>3
<1> HIDE DEF w
<1>5. UNCHANGED <<eth, tx, sent, got>>
  BY <1>1, SendDataTurn
<1>6. rx' = "write"
  BY <1>1, SendDataTurn
<1>7. InHand' = {} /\ OnEthernet' = OnEthernet /\ ToSend' = ToSend
  BY <1>2, <1>5, <1>6 DEF InHand, Unwritten, OnEthernet, ToSend
<1>8. \A x \in Items' : w.n < x.n
  <2>1. w.n <= sent /\ w.n \in Nat /\ sent \in Nat
    BY <1>3, ItemTypes DEF Items, QueueInv, TypeInv, TxTypes
  <2>2. \A x \in OnEthernet : w.n < x.n
    BY <1>3, FromEth DEF OnEthernet, QueueInv
  <2>3. \A x \in ToSend : w.n < x.n
    BY <2>1 DEF ToSend, Item
  <2> QED
    BY <1>7, <2>2, <2>3 DEF Items
<1>9. BusGets(w, o)
  BY <1>4, <1>5, <1>7, <1>8 DEF BusGets, Items
<1> QED
  BY <1>3, <1>9

\* Nothing else comes to the bus: other frames do not count, nor failed writes.
LEMMA WrittenOrNot ==
  ASSUME TypeInv, HandInv, QueueInv, [Next]_vars
  PROVE  BusKept \/ \E w \in Items : \E o \in Write : BusGets(w, o)
<1>1. CASE SendData
  <2>1. RxTypes
    BY DEF TypeInv
  <2>2. ASSUME NEW ok \in BOOLEAN, More, num + 1 \in 1..Slots,
               writes' = Append(writes, [frame |-> can_frames[num + 1], from |-> from, ok |-> ok])
        PROVE  BusKept \/ \E w \in Items : \E o \in Write : BusGets(w, o)
    <3> DEFINE o == [frame |-> can_frames[num + 1], from |-> from, ok |-> ok]
    <3>1. o \in Write /\ o.from = from /\ o.ok = ok
      BY <2>1, <2>2, HandedOut
    <3>2. writes' = Append(writes, o)
      BY <2>2
    <3>3. CASE from = "run" /\ ok
      <4>1. o = [frame |-> can_frames[num + 1], from |-> from, ok |-> TRUE]
        BY <3>3
      <4>2. \E w \in InHand : BusGets(w, o)
        <5> HIDE DEF o
        <5> QED
          BY <1>1, <2>2, <3>1, <3>2, <3>3, <4>1, WrittenFrame
      <4> QED
        BY <3>1, <4>2 DEF Items
    <3>4. CASE ~(from = "run" /\ ok)
      <4> HIDE DEF o
      <4> QED
        BY <3>1, <3>2, <3>4, BusOneMore DEF BusKept
    <3> QED
      BY <3>3, <3>4
  <2>3. CASE UNCHANGED writes
    BY <2>3 DEF BusKept, FromBus, OnBus
  <2> QED
    BY <1>1, <2>1, <2>2, <2>3, SendDataTurn
<1>2. CASE UNCHANGED writes
  BY <1>2 DEF BusKept, FromBus, OnBus
<1> QED
  BY <1>1, <1>2, NextOfRx
     DEF StartRx, RxPoll, RecvFails, Recv, Callback, StopRx, JoinRx, Signal, rxVars, outputs

\* The histories of frames of the bus are finite.
LEMMA FrameCounts ==
  ASSUME TypeInv
  PROVE  /\ \A k \in FromBus : k \in 1..Len(writes) /\ writes[k].frame.id \in Nat
         /\ IsFiniteSet(FromBus) /\ Cardinality(FromBus) \in Nat
         /\ IsFiniteSet(Frames) /\ Cardinality(Frames) \in Nat
         /\ Excess \in Int
<1>1. writes \in Seq(Write)
  BY DEF TypeInv, RxTypes
<1>2. IsFiniteSet(FromBus) /\ Cardinality(FromBus) \in Nat
  <2>1. IsFiniteSet(1..Len(writes)) /\ FromBus \subseteq 1..Len(writes)
    BY <1>1, BusFrame, FS_Interval
  <2> QED
    BY <2>1, FS_Subset, FS_CardinalityType
<1>3. IsFiniteSet(1..MaxFrames) /\ Frames \subseteq 1..MaxFrames
  BY FS_Interval, Bounds DEF Frames
<1>4. IsFiniteSet(Frames) /\ Cardinality(Frames) \in Nat
  BY <1>3, FS_Subset, FS_CardinalityType
<1>5. ASSUME NEW k \in FromBus PROVE k \in 1..Len(writes) /\ writes[k].frame.id \in Nat
  <2>1. k \in 1..Len(writes) /\ writes[k] \in Write
    BY <1>1, BusFrame
  <2> QED
    BY <2>1, Bounds DEF Write, CanFrame, App
<1> QED
  BY <1>2, <1>4, <1>5 DEF Excess

\* The history of what was written, a frame of the bus longer.
LEMMA OneMoreWritten ==
  ASSUME TypeInv, NEW o \in Write, writes' = Append(writes, o), o.from = "run", o.ok,
         o.frame.id <= MaxFrames
  PROVE  /\ FromBus' = FromBus \cup {Len(writes) + 1} /\ writes'[Len(writes) + 1] = o
         /\ \A k \in FromBus : writes'[k] = writes[k]
         /\ Excess' = Excess + (IF o.frame.id \in Frames \cup {0} THEN 1 ELSE 0)
         /\ Frames' = Frames \cup ({o.frame.id} \ {0})
<1> DEFINE id == o.frame.id
           len == Len(writes)
<1>1. /\ FromBus' = FromBus \cup {len + 1} /\ len + 1 \notin FromBus /\ writes'[len + 1] = o
      /\ \A k \in FromBus : k \in 1..len /\ writes'[k] = writes[k]
  BY BusOneMore
<1>2. Cardinality(FromBus') = Cardinality(FromBus) + 1
  BY <1>1, FrameCounts, FS_AddElement
<1>5. id \in Nat /\ id \in 0..MaxFrames
  BY Bounds DEF Write, CanFrame, App
<1> HIDE DEF id, len
<1>6. {writes'[k].frame.id : k \in FromBus'} = {writes[k].frame.id : k \in FromBus} \cup {id}
  <2> DEFINE f(k) == writes'[k].frame.id
             g(k) == writes[k].frame.id
  <2>1. \A k \in FromBus : f(k) = g(k)
    BY <1>1
  <2>2. f(len + 1) = id
    BY <1>1 DEF id
  <2> HIDE DEF f, g
  <2>3. {f(k) : k \in FromBus'} = {g(k) : k \in FromBus} \cup {id}
    BY <1>1, <2>1, <2>2
  <2> QED
    BY <2>3 DEF f, g
<1>7. Frames' = Frames \cup ({id} \ {0})
  <2> DEFINE ids == {writes[k].frame.id : k \in FromBus}
  <2>1. Frames = ids \cap 1..MaxFrames /\ Frames' = (ids \cup {id}) \cap 1..MaxFrames
    BY <1>6 DEF Frames
  <2> HIDE DEF ids
  <2>2. {id} \cap 1..MaxFrames = {id} \ {0}
    BY <1>5, Bounds
  <2> QED
    BY <2>1, <2>2
<1>8. CASE id \in Frames \cup {0}
  <2>1. Frames' = Frames
    BY <1>7, <1>8
  <2>2. Excess' = Excess + 1
    BY <1>2, <2>1, FrameCounts DEF Excess
  <2> QED
    BY <1>1, <1>7, <1>8, <2>2 DEF id, len
<1>9. CASE id \notin Frames \cup {0}
  <2>1. Frames' = Frames \cup {id}
    BY <1>7, <1>9
  <2>2. Cardinality(Frames') = Cardinality(Frames) + 1
    BY <1>9, <2>1, FrameCounts, FS_AddElement
  <2>3. Excess' = Excess
    BY <1>2, <2>2, FrameCounts DEF Excess
  <2>4. Excess \in Int
    BY FrameCounts
  <2> QED
    BY <1>1, <1>7, <1>9, <2>3, <2>4 DEF id, len
<1> QED
  BY <1>8, <1>9

\* While nothing of it is written, nothing changes.
LEMMA NothingMoreWritten ==
  ASSUME BusKept
  PROVE  Frames' = Frames /\ Excess' = Excess
<1>1. Frames' = Frames
  BY DEF BusKept, Frames
<1> QED
  BY <1>1 DEF BusKept, Excess

\* The packet with a frame of the bus that is written.
WrittenAs(w, o) ==
  /\ writes' = Append(writes, o) /\ o.from = "run" /\ o.ok /\ o.frame.id = w.id
  /\ o.frame.id <= MaxFrames /\ w.n \in Nat /\ w.id \in Nat
  /\ w.id <= got /\ w.n - w.id <= Repeats /\ got' = got /\ Repeats' = Repeats
  /\ Items' \subseteq Items
  /\ \A x \in Items' : /\ x.n \in Nat /\ x.id \in Nat /\ w.n < x.n
                       /\ w.id <= x.id /\ w.n - w.id <= x.n - x.id

\* What the invariants say of it.
LEMMA WrittenNow ==
  ASSUME TypeInv, QueueInv, ItemsInv, NEW w \in Items, NEW o \in Write, BusGets(w, o)
  PROVE  WrittenAs(w, o)
<1>1. /\ writes' = Append(writes, o) /\ o.from = "run" /\ o.ok /\ o.frame.id = w.id
      /\ Items' \subseteq Items
      /\ \A x \in Items' : w.n < x.n
  BY DEF BusGets
<1>2. w.n \in Nat /\ w.id \in Nat /\ w.id <= got /\ w.n - w.id <= Repeats
  BY ItemTypes DEF ItemsInv
<1>3. got \in 0..MaxFrames
  BY Bounds DEF TypeInv, TxTypes
<1>4. \A x \in Items' : /\ x.n \in Nat /\ x.id \in Nat
                        /\ w.id <= x.id /\ w.n - w.id <= x.n - x.id
  BY <1>1, ItemTypes DEF ItemsInv
<1>5. got' = got /\ Repeats' = Repeats
  BY DEF BusGets, Repeats
<1>6. o.frame.id <= MaxFrames
  BY <1>1, <1>2, <1>3, Bounds
<1> QED
  BY <1>1, <1>2, <1>4, <1>5, <1>6 DEF WrittenAs

\* What is written stays older than what is on its way.
LEMMA NextWrittenInv ==
  TypeInv /\ ReadInv /\ HandInv /\ QueueInv /\ ItemsInv /\ WrittenInv /\ [Next]_vars
    => WrittenInv'
<1> SUFFICES ASSUME TypeInv, ReadInv, HandInv, QueueInv, ItemsInv, WrittenInv, [Next]_vars
             PROVE  WrittenInv'
  OBVIOUS
<1>1. ASSUME NEW w \in Items, NEW o \in Write, BusGets(w, o)
      PROVE  WrittenInv'
  <2>1. /\ writes' = Append(writes, o) /\ o.from = "run" /\ o.ok /\ o.frame.id = w.id
        /\ o.frame.id <= MaxFrames /\ w.id \in Nat
        /\ w.id <= got /\ got' = got /\ Items' \subseteq Items
        /\ \A x \in Items' : w.id <= x.id
    BY <1>1, WrittenNow DEF WrittenAs
  <2>2. /\ FromBus' = FromBus \cup {Len(writes) + 1} /\ writes'[Len(writes) + 1] = o
        /\ \A k \in FromBus : writes'[k] = writes[k]
    BY <2>1, OneMoreWritten
  <2>3. \A k \in FromBus : /\ k \in 1..Len(writes) /\ writes[k].frame.id \in Nat
                           /\ writes[k].frame.id <= w.id
    BY <2>1, FrameCounts DEF WrittenInv
  <2>4. Len(writes) \in Nat
    BY DEF TypeInv, RxTypes
  <2>5. \A i, j \in FromBus' : i < j => writes'[i].frame.id <= writes'[j].frame.id
    BY <2>1, <2>2, <2>3, <2>4 DEF WrittenInv
  <2>6. \A i \in FromBus' : writes'[i].frame.id <= got'
    BY <2>1, <2>2 DEF WrittenInv
  <2>7. \A i \in FromBus' : \A x \in Items' : writes'[i].frame.id <= x.id
    BY <2>1, <2>2 DEF WrittenInv
  <2> QED
    BY <2>5, <2>6, <2>7 DEF WrittenInv
<1>2. CASE BusKept
  <2>1. FromBus' = FromBus /\ \A k \in FromBus : writes'[k] = writes[k]
    BY <1>2 DEF BusKept
  <2>2. CASE ReceiveData
    <3>1. PICK y : y.id = got' /\ Items' = Items \cup {y}
      BY <2>2, ReadItem DEF ReadFrame, Item
    <3>2. got \in Nat /\ (got' = got \/ got' = got + 1)
      BY <2>2, ReadItem DEF ReadFrame
    <3>3. \A i \in FromBus : writes[i].frame.id \in Nat /\ writes[i].frame.id <= got'
      BY <3>2, FrameCounts DEF WrittenInv
    <3> QED
      BY <2>1, <3>1, <3>3 DEF WrittenInv
  <2>3. CASE ~ReceiveData
    BY <2>1, <2>3, SameItems DEF WrittenInv
  <2> QED
    BY <2>2, <2>3
<1> QED
  BY <1>1, <1>2, WrittenOrNot

\* What is written twice was sent twice.
LEMMA NextExcessInv ==
  TypeInv /\ ReadInv /\ HandInv /\ QueueInv /\ ItemsInv /\ WrittenInv /\ ExcessInv /\ [Next]_vars
    => ExcessInv'
<1> SUFFICES ASSUME TypeInv, ReadInv, HandInv, QueueInv, ItemsInv, WrittenInv, ExcessInv,
                    [Next]_vars
             PROVE  ExcessInv'
  OBVIOUS
<1>1. ASSUME NEW w \in Items, NEW o \in Write, BusGets(w, o)
      PROVE  ExcessInv'
  <2>1. /\ writes' = Append(writes, o) /\ o.from = "run" /\ o.ok /\ o.frame.id = w.id
        /\ o.frame.id <= MaxFrames /\ w.n \in Nat /\ w.id \in Nat
        /\ w.n - w.id <= Repeats /\ Repeats' = Repeats
        /\ Items' \subseteq Items
        /\ \A x \in Items' : /\ x.n \in Nat /\ x.id \in Nat /\ w.n < x.n
                             /\ w.id <= x.id /\ w.n - w.id <= x.n - x.id
    BY <1>1, WrittenNow DEF WrittenAs
  <2>2. /\ Excess' = Excess + (IF w.id \in Frames \cup {0} THEN 1 ELSE 0)
        /\ Frames' = Frames \cup ({w.id} \ {0})
    BY <2>1, OneMoreWritten
  <2>3. Excess' <= w.n - w.id
    BY <2>1, <2>2 DEF ExcessInv
  <2>4. Excess' \in Int /\ Repeats \in Int
    BY <2>2, FrameCounts DEF Repeats, TypeInv, TxTypes
  <2>5. Excess' <= Repeats'
    BY <2>1, <2>3, <2>4
  <2>6. \A f \in Frames : f \in Nat /\ f <= w.id
    BY <2>1, FrameCounts DEF Frames, WrittenInv
  <2>7. ASSUME NEW x \in Items'
        PROVE  Excess' + (IF x.id \in Frames' \cup {0} THEN 1 ELSE 0) <= x.n - x.id
    <3>1. /\ x.n \in Nat /\ x.id \in Nat /\ w.n < x.n
          /\ w.id <= x.id /\ w.n - w.id <= x.n - x.id
      BY <2>1
    <3>2. CASE x.id = w.id
      BY <2>1, <2>3, <2>4, <3>1, <3>2
    <3>3. CASE x.id # w.id
      <4>1. x.id \notin Frames' \cup {0}
        BY <2>1, <2>2, <2>6, <3>1, <3>3
      <4> QED
        BY <2>1, <2>3, <2>4, <3>1, <4>1
    <3> QED
      BY <3>2, <3>3
  <2> QED
    BY <2>5, <2>7 DEF ExcessInv
<1>2. CASE BusKept
  <2>1. Frames' = Frames /\ Excess' = Excess
    BY <1>2, NothingMoreWritten
  <2>2. CASE ReceiveData
    <3>1. PICK y : y.id = got' /\ y.n = sent + 1 /\ Items' = Items \cup {y}
      BY <2>2, ReadItem DEF ReadFrame, Item
    <3>2. /\ got \in Nat /\ sent \in Nat /\ Repeats \in Int /\ Repeats' = sent + 1 - got'
          /\ \/ got' = got /\ Repeats' = Repeats + 1
             \/ got' = got + 1 /\ Repeats' = Repeats
      BY <2>2, ReadItem DEF ReadFrame
    <3>3. Excess \in Int /\ Excess <= Repeats /\ \A f \in Frames : f \in Nat /\ f <= got
      BY FrameCounts DEF ExcessInv, Frames, WrittenInv
    <3>4. Excess + (IF y.id \in Frames \cup {0} THEN 1 ELSE 0) <= y.n - y.id
      <4>1. CASE got' = got
        BY <3>1, <3>2, <3>3, <4>1
      <4>2. CASE got' = got + 1
        <5>1. got' \notin Frames \cup {0}
          BY <3>2, <3>3, <4>2
        <5> QED
          BY <3>1, <3>2, <3>3, <4>2, <5>1
      <4> QED
        BY <3>2, <4>1, <4>2
    <3>5. Excess <= Repeats'
      BY <3>2, <3>3
    <3> QED
      BY <2>1, <3>1, <3>4, <3>5 DEF ExcessInv
  <2>3. CASE ~ReceiveData
    BY <2>1, <2>3, SameItems DEF ExcessInv
  <2> QED
    BY <2>2, <2>3
<1> QED
  BY <1>1, <1>2, WrittenOrNot

-----------------------------------------------------------------------------
\* The invariant of the bridge.
AllInv ==
  /\ TypeInv /\ SeqInv /\ WarnInv
  /\ HandInv /\ OutInv /\ CountInv
  /\ ReadInv /\ QueueInv /\ ItemsInv /\ WrittenInv /\ ExcessInv

\* It holds at the start, and every step keeps it.
LEMMA InitAllInv == Init => AllInv
<1> SUFFICES ASSUME Init PROVE AllInv
  OBVIOUS
<1>1. TypeInv
  BY InitTypeInv
<1>2. SeqInv /\ WarnInv
  BY Bounds DEF Init, SeqInv, WarnInv
<1>3. HandInv /\ OutInv
  BY DEF Init, HandInv, OutInv, SameFrames, LengthInv, Working
<1>4. CountInv
  <2>1. From("run", <<>>) = {} /\ From("app", <<>>) = {}
    BY DEF From
  <2>2. ASSUME NEW t \in {"run", "app"}
        PROVE  Cardinality(From(t, receptions)) = 0 /\ Cardinality(From(t, delivered)) = 0
    <3>1. receptions = <<>> /\ delivered = <<>>
      BY DEF Init
    <3>2. From(t, <<>>) = {}
      BY <2>1
    <3> QED
      BY <3>1, <3>2, FS_EmptySet
  <2> QED
    BY <2>2 DEF CountInv
<1>5. Items = {} /\ FromBus = {} /\ Repeats = 0 /\ From("run", eth) = {} /\ InHand = {}
  <2>1. From("run", <<>>) = {}
    BY DEF From
  <2>2. eth = <<>> /\ writes = <<>> /\ rx = "off" /\ tx = "off" /\ sent = 0 /\ got = 0
    BY DEF Init
  <2> QED
    BY <2>1, <2>2 DEF Items, OnEthernet, InHand, Unwritten, ToSend, FromBus, Repeats
<1>6. ReadInv
  BY <1>5 DEF Init, ReadInv
<1>7. QueueInv /\ ItemsInv /\ WrittenInv
  BY <1>5 DEF Init, QueueInv, Working, ItemsInv, WrittenInv
<1>8. ExcessInv
  <2>1. Frames = {}
    BY <1>5 DEF Frames
  <2>2. Excess = 0
    BY <1>5, <2>1, FS_EmptySet DEF Excess
  <2> QED
    BY <1>5, <2>2 DEF ExcessInv
<1> QED
  BY <1>1, <1>2, <1>3, <1>4, <1>6, <1>7, <1>8 DEF AllInv

\* Every step, part by part.
LEMMA NextAllInv == AllInv /\ [Next]_vars => AllInv'
BY NextTypeInv, NextSeqInv, NextWarnInv, NextHandInv, NextOutInv, NextCountInv, NextReadInv,
   NextQueueInv, NextItemsInv, NextWrittenInv, NextExcessInv DEF AllInv

\* It holds always.
LEMMA AlwaysAllInv == Spec => []AllInv
BY InitAllInv, NextAllInv, PTL DEF Spec

\* The receiver warns of a gap exactly when packets of the transmitter's thread were
\* lost, for every modulus of the sequence numbers and however many packets were sent:
\* a wrap-around is no gap (AvtpUtil.cpp:80-85).  Only a loss of a whole round of
\* sequence numbers is not seen.
THEOREM WarnsOfGaps == Spec => []WarnsExactlyOfGaps
<1>1. AllInv => WarnsExactlyOfGaps
  BY WarnInvShows DEF AllInv
<1> QED
  BY <1>1, AlwaysAllInv, PTL

\* Every frame that the callback got was written to the CAN bus, or tried to, in the
\* same order and before the next packet is taken, whichever writes fail; nothing is
\* written without CAN; and every packet that is accepted from the transmitter or the
\* application yields a frame (Receiver.cpp:191-203, CanWriter.cpp:80-93).
THEOREM SameOutputs == Spec => []OutputsAgree
<1>1. AllInv => OutputsAgree
  <2> SUFFICES ASSUME AllInv, rx \notin {"callback", "write", "fault"}
               PROVE  /\ Len(writes) = IF m_is_can_enabled THEN Len(delivered) ELSE 0
                      /\ \A k \in DOMAIN writes : writes[k].frame = delivered[k].frame
                                                /\ writes[k].from = delivered[k].from
                      /\ \A t \in {"run", "app"} :
                           Cardinality(From(t, receptions)) <= Cardinality(From(t, delivered))
    BY DEF OutputsAgree
  <2>1. delivered \in Seq(Output) /\ writes \in Seq(Write)
    BY DEF AllInv, TypeInv, RxTypes
  <2>2. Len(writes) = IF m_is_can_enabled THEN Len(delivered) ELSE 0
    BY DEF AllInv, OutInv, LengthInv
  <2>3. \A k \in DOMAIN writes : writes[k].frame = delivered[k].frame
                               /\ writes[k].from = delivered[k].from
    BY <2>1 DEF AllInv, OutInv, SameFrames, SameFrame
  <2>4. ASSUME NEW t \in {"run", "app"}
        PROVE  Cardinality(From(t, receptions)) <= Cardinality(From(t, delivered))
    <3>1. Cardinality(From(t, delivered)) \in Nat
      BY <2>1, FromHistory
    <3> QED
      BY <3>1 DEF AllInv, CountInv
  <2> QED
    BY <2>2, <2>3, <2>4
<1> QED
  BY <1>1, AlwaysAllInv, PTL

\* Frames cross the bridge in their order, and are repeated no more often than reads
\* failed, for any number of frames, losses, failed calls and other talkers
\* (Transmitter.cpp:154-186, Receiver.cpp:188-203).
THEOREM OrderIsKept == Spec => []BridgeKeepsOrder
<1>1. AllInv => BridgeKeepsOrder
  <2> SUFFICES ASSUME AllInv
               PROVE  BridgeKeepsOrder
    OBVIOUS
  <2>1. TypeInv /\ WrittenInv /\ ReadInv /\ Excess <= Repeats
    BY DEF AllInv, ExcessInv
  <2>2. Cardinality(FromBus) <= Cardinality(Frames) + errors
    <3>1. /\ Cardinality(FromBus) \in Nat /\ Cardinality(Frames) \in Nat
          /\ Excess = Cardinality(FromBus) - Cardinality(Frames)
      BY <2>1, FrameCounts DEF Excess
    <3>2. Repeats \in Int /\ errors \in Int /\ Repeats <= errors
      BY <2>1 DEF ReadInv, Repeats, TypeInv, TxTypes, NetTypes
    <3> QED
      BY <2>1, <3>1, <3>2
  <2> QED
    BY <2>1, <2>2 DEF BridgeKeepsOrder, WrittenInv, FromBus, Frames
<1> QED
  BY <1>1, AlwaysAllInv, PTL
=============================================================================
