----------------------------- MODULE AvtpBridge -----------------------------
(***************************************************************************)
(* The way of a CAN frame over Ethernet: the thread of a Transmitter reads *)
(* frames from a CAN bus and sends each in an AVTP packet, the thread of a *)
(* Receiver takes the frames out of the packets it gets, hands them to its *)
(* callback and writes them to another CAN bus.  The Receiver also gets    *)
(* the packets of Transmitter::sendPacket, which the application calls,    *)
(* and of strangers.  Packets may be lost, but not overtake each other.    *)
(*                                                                         *)
(* A frame is its identity (id, which stands for CAN id and payload), its  *)
(* type and one of the CAN FD flags, BRS.                                  *)
(***************************************************************************)
EXTENDS Integers, Sequences, FiniteSets, SequencesExt

CONSTANTS
  MaxFrames,    \* bound: frames on the CAN bus of the transmitter
  Traffic,      \* the sequences of that many frames that may arrive there
  MaxErrors,    \* bound: failed read and recv calls, and as many failed calls of write
  MaxLost,      \* bound: packets lost
  Strangers,    \* packets that others send
  MaxOthers,    \* bound: how many of them, and of calls of sendPacket
  MaxTroubles,  \* bound: all of these together, with failed writes and the signal
  SeqModulus,   \* 256 in the code: sequence numbers are uint8_t
  Slots         \* MAX_CAN_FRAMES_IN_ACF, 15 in the code

ASSUME BoundsAssumption ==
  /\ {MaxFrames, MaxErrors, MaxLost, MaxOthers, MaxTroubles} \subseteq Nat
  /\ SeqModulus \in Nat \ {0, 1} /\ Slots \in 2..254

App == MaxFrames + 1                  \* the id of the application's frames
CanFrame == [type : {"CC", "FD"}, id : 0..App, brs : BOOLEAN]
Sendable == {f \in CanFrame : f.id > 0 /\ (f.type = "CC" => ~f.brs)}
\* An ACF message: a CAN message, one of another type, or one whose id is too
\* large for a standard frame.
Acf == [kind : {"can", "other", "badId"}, frame : CanFrame]
Talker == {"run", "app", "stranger"}
Packet == [from : Talker, n : Nat, ours : BOOLEAN, seq : 0..SeqModulus - 1, acf : Seq(Acf)]

ASSUME TrafficAssumption ==
  \A t \in Traffic : t \in Seq(Sendable) /\ Len(t) = MaxFrames
                      /\ \A i \in DOMAIN t : t[i].id = i
ASSUME StrangersAssumption ==
  \A p \in Strangers : p \in Packet /\ p.from = "stranger" /\ Len(p.acf) <= Slots

Output == [frame : CanFrame, from : Talker \cup {"rejected"}]
Write == [frame : CanFrame, from : Talker \cup {"rejected"}, ok : BOOLEAN]
Reception == [from : Talker \cup {"rejected"}, n : Nat, warned : BOOLEAN]

VARIABLES
  tx, rx,              \* where the two threads are
  tx_running, rx_running,
  traffic,             \* what arrives on the CAN bus of the transmitter
  bus,                 \* frames in the CAN socket of the reader
  sock_err,            \* that socket has an error to report
  arrived, errors, got,   \* history: frames arrived, calls failed, frames read
  tx_frame,            \* can_frames[0] of Transmitter::run
  cf_seq_num,
  sent,                \* history: packets Transmitter::run has sent
  eth,                 \* packets on the way to the receiver
  lost, others,        \* counted for their bounds
  signalled,           \* a signal was delivered
  m_is_can_enabled,    \* the receiver writes to a CAN bus
  can_frames, num_can_msgs, num, exp_cf_seqnum,    \* locals of Receiver::run
  from,                \* history: whose packet it is working on
  receptions,          \* history: the packets it has taken, and its warnings
  delivered, writes    \* history: calls of the callback, of write() and whether they failed

txVars == <<tx, tx_running, traffic, bus, sock_err, arrived, got, tx_frame, cf_seq_num, sent>>
rxLocals == <<can_frames, num_can_msgs, num, exp_cf_seqnum, from, receptions>>
outputs == <<delivered, writes>>
rxVars == <<rx, rx_running, m_is_can_enabled, rxLocals, outputs>>
netVars == <<eth, lost, others, signalled>>
vars == <<txVars, rxVars, netVars, errors>>

TypeOK ==
  /\ tx \in {"off", "poll", "read", "send", "done", "joined"}
  /\ rx \in {"off", "poll", "recv", "callback", "write", "fault", "done", "joined"}
  /\ tx_running \in BOOLEAN /\ rx_running \in BOOLEAN /\ signalled \in BOOLEAN
  /\ traffic \in Traffic /\ bus \in Seq(Sendable) /\ sock_err \in BOOLEAN /\ tx_frame \in CanFrame
  /\ arrived \in 0..MaxFrames /\ got \in 0..arrived /\ sent \in Nat
  /\ errors \in 0..MaxErrors /\ lost \in 0..MaxLost /\ others \in 0..MaxOthers
  /\ cf_seq_num \in 0..SeqModulus - 1 /\ exp_cf_seqnum \in 0..SeqModulus - 1
  /\ eth \in Seq(Packet) /\ can_frames \in [1..Slots -> CanFrame]
  /\ num_can_msgs \in 0..255 /\ num \in 0..Slots
  /\ from \in Talker \cup {"rejected"}
  /\ receptions \in Seq(Reception)
  /\ m_is_can_enabled \in BOOLEAN
  /\ delivered \in Seq(Output) /\ writes \in Seq(Write)

\* The arrays of frames are not initialised: a slot may have a flag set.
Junk == {f \in CanFrame : f.id = 0 /\ f.type = "CC"}

Init ==
  /\ tx = "off" /\ rx = "off" /\ tx_running = FALSE /\ rx_running = FALSE
  /\ traffic \in Traffic /\ bus = <<>> /\ sock_err = FALSE /\ arrived = 0 /\ errors = 0 /\ got = 0
  /\ tx_frame = [type |-> "CC", id |-> 0, brs |-> FALSE] /\ cf_seq_num = 0 /\ sent = 0
  /\ eth = <<>> /\ lost = 0 /\ others = 0 /\ signalled = FALSE
  /\ \E f \in Junk : can_frames = [i \in 1..Slots |-> f]
  /\ num_can_msgs = 0 /\ num = 0 /\ exp_cf_seqnum = 0
  /\ m_is_can_enabled \in BOOLEAN
  /\ from = "run" /\ receptions = <<>> /\ delivered = <<>> /\ writes = <<>>

-----------------------------------------------------------------------------
(* The CAN bus and the network.                                            *)

\* Calls of write() that failed, and the bound of all that may go wrong or intervene.
Failed == {k \in DOMAIN writes : ~writes[k].ok}
Calm ==
  errors + lost + others + Cardinality(Failed) + (IF signalled THEN 1 ELSE 0) < MaxTroubles

Arrive ==
  /\ arrived < MaxFrames /\ tx # "joined"
  /\ bus' = Append(bus, traffic[arrived + 1])
  /\ arrived' = arrived + 1
  /\ UNCHANGED <<tx, tx_running, traffic, sock_err, got, tx_frame, cf_seq_num, sent,
                 rxVars, netVars, errors>>

\* The interface goes down and up: the next read fails, frames stay queued.
BusError ==
  /\ errors < MaxErrors /\ Calm /\ ~sock_err
  /\ sock_err' = TRUE /\ errors' = errors + 1
  /\ UNCHANGED <<tx, tx_running, traffic, bus, arrived, got, tx_frame, cf_seq_num, sent, rxVars, netVars>>

\* sendto: the packet may be lost, by the call or on the way.
SendTo(p) ==
  \/ eth' = Append(eth, p) /\ UNCHANGED lost
  \/ lost < MaxLost /\ Calm /\ lost' = lost + 1 /\ UNCHANGED eth

\* insertCanFramesToAvtp with prepareAcfPacket: what a talker of this program
\* sends, one ACF message for each frame.
Insert(talker, n, seq, frames) ==
  [from |-> talker, n |-> n, ours |-> TRUE, seq |-> seq,
   acf |-> [i \in 1..Len(frames) |-> [kind |-> "can", frame |-> frames[i]]]]

\* Transmitter::sendPacket: its sequence number is a local that starts at 0.
SendPacket ==
  /\ others < MaxOthers /\ Calm /\ others' = others + 1
  /\ \E k \in 1..2 :
       SendTo(Insert("app", 0, 0, [i \in 1..k |-> [type |-> "FD", id |-> App, brs |-> FALSE]]))
  /\ UNCHANGED <<txVars, rxVars, signalled, errors>>

Stranger ==
  /\ others < MaxOthers /\ Calm /\ others' = others + 1
  /\ \E p \in Strangers : eth' = Append(eth, p)
  /\ UNCHANGED <<txVars, rxVars, lost, signalled, errors>>

-----------------------------------------------------------------------------
(* Transmitter.                                                            *)

StartTx ==
  /\ tx = "off" /\ tx' = "poll" /\ tx_running' = TRUE
  /\ UNCHANGED <<traffic, bus, sock_err, arrived, got, tx_frame, cf_seq_num, sent, rxVars, netVars, errors>>

\* Mutated form of TxPoll: no timeout.
TxPollForever ==
  /\ tx = "poll" /\ bus # <<>> /\ tx' = IF tx_running THEN "read" ELSE "done"
  /\ UNCHANGED <<tx_running, traffic, bus, sock_err, arrived, got, tx_frame, cf_seq_num, sent,
                 rxVars, netVars, errors>>

\* poll, which returns with input or after its timeout, and the tests of m_running
\* behind it and in the loop; a signal makes it fail (Signal).
TxPoll ==
  /\ tx = "poll"
  /\ \/ tx_running /\ bus # <<>> /\ tx' = "read"
     \/ ~tx_running /\ tx' = "done"
  /\ UNCHANGED <<tx_running, traffic, bus, sock_err, arrived, got, tx_frame, cf_seq_num, sent,
                 rxVars, netVars, errors>>

\* Mutated form of ReceiveData: a failed read ends the thread as a failed poll does.
ReceiveDataOrLeave ==
  /\ tx = "read"
  /\ \/ sock_err /\ sock_err' = FALSE /\ tx' = "done" /\ UNCHANGED <<bus, got, tx_frame>>
     \/ /\ ~sock_err /\ bus # <<>> /\ tx' = "send"
        /\ tx_frame' = Head(bus) /\ bus' = Tail(bus) /\ got' = got + 1
        /\ UNCHANGED sock_err
  /\ UNCHANGED <<tx_running, traffic, arrived, cf_seq_num, sent, rxVars, netVars, errors>>

\* CanReader::receiveData for one frame: a failed read counts like a frame, and
\* leaves the slot as it was.
ReceiveData ==
  /\ tx = "read" /\ tx' = "send"
  /\ \/ sock_err /\ sock_err' = FALSE /\ UNCHANGED <<bus, got, tx_frame>>
     \/ /\ ~sock_err /\ bus # <<>>
        /\ tx_frame' = Head(bus) /\ bus' = Tail(bus) /\ got' = got + 1
        /\ UNCHANGED sock_err
  /\ UNCHANGED <<tx_running, traffic, arrived, cf_seq_num, sent, rxVars, netVars, errors>>

\* Mutated forms of SendFrame: the sequence number starts anew each time; it is
\* an int and never wraps around.
SendFrameZero ==
  /\ tx = "send" /\ tx' = "poll"
  /\ SendTo(Insert("run", sent + 1, 0, <<tx_frame>>))
  /\ sent' = sent + 1 /\ cf_seq_num' = 0
  /\ UNCHANGED <<tx_running, traffic, bus, sock_err, arrived, got, tx_frame, rxVars,
                 others, signalled, errors>>

SendFrameNoWrap ==
  /\ tx = "send" /\ tx' = "poll"
  /\ SendTo(Insert("run", sent + 1, cf_seq_num, <<tx_frame>>))
  /\ sent' = sent + 1 /\ cf_seq_num' = cf_seq_num + 1
  /\ UNCHANGED <<tx_running, traffic, bus, sock_err, arrived, got, tx_frame, rxVars,
                 others, signalled, errors>>

SendFrame ==
  /\ tx = "send" /\ tx' = "poll"
  /\ SendTo(Insert("run", sent + 1, cf_seq_num, <<tx_frame>>))
  /\ sent' = sent + 1 /\ cf_seq_num' = (cf_seq_num + 1) % SeqModulus
  /\ UNCHANGED <<tx_running, traffic, bus, sock_err, arrived, got, tx_frame, rxVars,
                 others, signalled, errors>>

\* stop(): the flag, then the join, then the socket is closed.
StopTx ==
  /\ tx_running /\ tx_running' = FALSE
  /\ UNCHANGED <<tx, traffic, bus, sock_err, arrived, got, tx_frame, cf_seq_num, sent,
                 rxVars, netVars, errors>>

JoinTx ==
  /\ tx = "done" /\ ~tx_running /\ tx' = "joined" /\ bus' = <<>>
  /\ UNCHANGED <<tx_running, traffic, sock_err, arrived, got, tx_frame, cf_seq_num, sent,
                 rxVars, netVars, errors>>

-----------------------------------------------------------------------------
(* Receiver.                                                               *)

StartRx ==
  /\ rx = "off" /\ rx' = "poll" /\ rx_running' = TRUE
  /\ UNCHANGED <<m_is_can_enabled, rxLocals, outputs, txVars, netVars, errors>>

RxPoll ==
  /\ rx = "poll"
  /\ \/ rx_running /\ eth # <<>> /\ rx' = "recv"
     \/ ~rx_running /\ rx' = "done"
  /\ UNCHANGED <<rx_running, m_is_can_enabled, rxLocals, outputs, txVars, netVars, errors>>

\* A failed recv: its -1 does not fit in pdu_length, 65535 is too large a packet.
RecvFails ==
  /\ rx = "recv" /\ rx' = "poll"
  /\ errors < MaxErrors /\ Calm /\ errors' = errors + 1
  /\ UNCHANGED <<rx_running, m_is_can_enabled, rxLocals, outputs, txVars, netVars>>

\* extractCanFramesFromAvtp takes the ACF messages before the first that it rejects.
Taken(p, i) == \A j \in 1..i : p.acf[j].kind = "can"
Accepts(p) == p.ours /\ Taken(p, Len(p.acf))

\* A slot after a frame was stored in it: the flags are only ever set, and lie
\* where a CC frame has padding.
Decode(slot, f) == [type |-> f.type, id |-> f.id, brs |-> slot.brs \/ (f.type = "FD" /\ f.brs)]

Store(p) ==
  [i \in 1..Slots |->
     IF i > Len(p.acf) \/ ~Taken(p, i - 1) \/ p.acf[i].kind = "other" THEN can_frames[i]
     ELSE IF p.acf[i].kind = "can" THEN Decode(can_frames[i], p.acf[i].frame)
     ELSE [can_frames[i] EXCEPT !.type = p.acf[i].frame.type]]

\* The result, stored in a uint8_t: -1 becomes 255.
Count(p) == IF Accepts(p) THEN Len(p.acf) ELSE 255

\* recv, extractCanFramesFromAvtp and exp_cf_seqnum++.
Recv ==
  /\ rx = "recv" /\ eth # <<>>
  /\ LET p == Head(eth)
         warned == p.ours /\ p.seq # exp_cf_seqnum IN
     /\ can_frames' = IF p.ours THEN Store(p) ELSE can_frames
     /\ exp_cf_seqnum' = ((IF warned THEN p.seq ELSE exp_cf_seqnum) + 1) % SeqModulus
     /\ num_can_msgs' = Count(p) /\ num' = 0
     /\ from' = IF Accepts(p) THEN p.from ELSE "rejected"
     /\ receptions' = Append(receptions, [from |-> from', n |-> p.n, warned |-> warned])
  /\ eth' = Tail(eth) /\ rx' = "callback"
  /\ UNCHANGED <<rx_running, m_is_can_enabled, outputs, txVars, lost, others, signalled, errors>>

\* The frame that is next in the loop over the frames.
NextFrame == [frame |-> can_frames[num + 1], from |-> from]
\* Mutated form of More: the loops run over the whole array.
WholeArray == num < Slots
More == num < num_can_msgs /\ num < Slots

\* After the last frame, or behind the array, where the program may crash, or hand
\* out whatever it finds, which is left out.
LoopEnds(next) ==
  /\ ~More /\ num' = 0
  /\ rx' \in (IF num < num_can_msgs THEN {"fault", next} ELSE {next})

\* One turn of the loop with the callback.
Callback ==
  /\ rx = "callback"
  /\ \/ More /\ delivered' = Append(delivered, NextFrame) /\ num' = num + 1 /\ UNCHANGED rx
     \/ LoopEnds(IF m_is_can_enabled THEN "write" ELSE "poll") /\ UNCHANGED delivered
  /\ UNCHANGED <<rx_running, m_is_can_enabled, can_frames, num_can_msgs, exp_cf_seqnum, from,
                 receptions, writes, txVars, netVars, errors>>

\* A call of write(), which may fail.
WriteNext(ok) == writes' = Append(writes, [frame |-> can_frames[num + 1], from |-> from, ok |-> ok])
MayFail == Cardinality(Failed) < MaxErrors /\ Calm

\* Mutated form of SendData: the first failure ends the loop.
SendDataUntilFailure ==
  /\ rx = "write"
  /\ \/ More /\ WriteNext(TRUE) /\ num' = num + 1 /\ UNCHANGED rx
     \/ More /\ MayFail /\ WriteNext(FALSE) /\ num' = 0 /\ rx' = "poll"
     \/ LoopEnds("poll") /\ UNCHANGED writes
  /\ UNCHANGED <<rx_running, m_is_can_enabled, can_frames, num_can_msgs, exp_cf_seqnum, from,
                 receptions, delivered, txVars, netVars, errors>>

\* One turn of the loop of CanWriter::sendData, which goes on after a failed write.
SendData ==
  /\ rx = "write"
  /\ \/ /\ More /\ num' = num + 1 /\ UNCHANGED rx
        /\ \E ok \in BOOLEAN : (ok \/ MayFail) /\ WriteNext(ok)
     \/ LoopEnds("poll") /\ UNCHANGED writes
  /\ UNCHANGED <<rx_running, m_is_can_enabled, can_frames, num_can_msgs, exp_cf_seqnum, from,
                 receptions, delivered, txVars, netVars, errors>>

StopRx ==
  /\ rx_running /\ rx_running' = FALSE
  /\ UNCHANGED <<rx, m_is_can_enabled, rxLocals, outputs, txVars, netVars, errors>>

JoinRx ==
  /\ rx = "done" /\ ~rx_running /\ rx' = "joined"
  /\ UNCHANGED <<rx_running, m_is_can_enabled, rxLocals, outputs, txVars, netVars, errors>>

\* The signal that ends the program may interrupt the poll of either thread.
Signal ==
  /\ ~signalled /\ Calm /\ signalled' = TRUE
  /\ \/ tx = "poll" /\ tx' = "done" /\ UNCHANGED rx
     \/ rx = "poll" /\ rx' = "done" /\ UNCHANGED tx
  /\ UNCHANGED <<tx_running, traffic, bus, sock_err, arrived, got, tx_frame, cf_seq_num, sent,
                 rx_running, m_is_can_enabled, rxLocals, outputs, eth, lost, others, errors>>

-----------------------------------------------------------------------------
TxStep == StartTx \/ TxPoll \/ ReceiveData \/ SendFrame \/ JoinTx
RxStep == StartRx \/ RxPoll \/ Recv \/ Callback \/ SendData \/ JoinRx
Environment == Arrive \/ BusError \/ SendPacket \/ Stranger \/ RecvFails \/ Signal
               \/ StopTx \/ StopRx

Next == TxStep \/ RxStep \/ Environment

Spec == Init /\ [][Next]_vars
FairSpec == Spec /\ WF_vars(TxStep) /\ WF_vars(RxStep)

-----------------------------------------------------------------------------
(* Properties.                                                             *)

\* Where something came from t, in a history.
From(t, history) == {k \in DOMAIN history : history[k].from = t}

\* The frames of one bus reach the other in their order, after they were read,
\* and more often than once only by failed reads, whatever is lost, whichever writes
\* fail and whoever else sends (Transmitter.cpp:154-186, Receiver.cpp:188-203).
OnBus == {k \in DOMAIN writes : writes[k].ok}
BridgeKeepsOrder ==
  LET fromBus == From("run", writes) \cap OnBus
      frames == {writes[k].frame.id : k \in fromBus} \cap 1..MaxFrames IN
  /\ \A i, j \in fromBus : i < j => writes[i].frame.id <= writes[j].frame.id
  /\ Cardinality(fromBus) <= Cardinality(frames) + errors
  /\ \A i \in fromBus : writes[i].frame.id <= got

\* The receiver warns of a gap in the sequence numbers exactly when packets of
\* the transmitter's thread were lost, unless it took a packet of someone else in
\* between (AvtpUtil.cpp:80-85, Receiver.cpp:190, Transmitter.cpp:178).
WarnsExactlyOfGaps ==
  LET before(k) == IF k = 1 THEN [from |-> "run", n |-> 0] ELSE receptions[k - 1] IN
  \A k \in 1..Len(receptions) :
    receptions[k].from = "run" /\ before(k).from = "run" =>
      (receptions[k].warned <=> (receptions[k].n - before(k).n) % SeqModulus # 1)

\* Between two packets every frame that the callback got was written once, in the same
\* order, or tried to: a write that fails costs that frame and no other.  Without CAN
\* nothing was.  Each accepted packet has come to the callback, also behind one that was
\* rejected halfway (AvtpUtil.cpp:87-145, Receiver.cpp:191-203, CanWriter.cpp:80-93).
OutputsAgree ==
  rx \notin {"callback", "write", "fault"} =>
    /\ Len(writes) = IF m_is_can_enabled THEN Len(delivered) ELSE 0
    /\ \A k \in DOMAIN writes :
         writes[k].frame = delivered[k].frame /\ writes[k].from = delivered[k].from
    /\ \A t \in {"run", "app"} :
         Cardinality(From(t, receptions)) <= Cardinality(From(t, delivered))

\* A thread told to stop does stop, however much traffic there is
\* (Transmitter.cpp:154-171, Receiver.cpp:160-179).
BridgeStops ==
  /\ (tx # "off" /\ ~tx_running) ~> tx = "joined"
  /\ (rx # "off" /\ ~rx_running) ~> rx \in {"joined", "fault"}

\* A frame that arrives on the bus comes to the callback and, if CAN is enabled, to
\* write(), whose success is up to the other bus, failed reads and failed writes of other
\* frames notwithstanding, unless a packet is lost or somebody stops the bridge.
EverythingBridged ==
  \A i \in 1..MaxFrames :
    (arrived >= i) ~> \/ /\ \E k \in DOMAIN delivered : delivered[k].frame.id = i
                         /\ m_is_can_enabled => \E k \in DOMAIN writes : writes[k].frame.id = i
                      \/ lost > 0 \/ signalled \/ rx = "fault"
                      \/ (tx # "off" /\ ~tx_running) \/ (rx # "off" /\ ~rx_running)

\* "Accept only TSCF and NTSCF formats allowed" (AvtpUtil.cpp:59): a packet that
\* extractCanFramesFromAvtp rejects delivers no frames.
RejectedPacketDeliversNothing == \A k \in 1..Len(delivered) : delivered[k].from # "rejected"
=============================================================================
