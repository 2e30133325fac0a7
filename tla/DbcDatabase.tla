----------------------------- MODULE DbcDatabase -----------------------------
(***************************************************************************)
(* The database of messages: CanDbc reads it from the lines of a DBC file, *)
(* then DataManager looks the received frames up and ProcessCanMessage     *)
(* decodes their signals.  The sender of the frames is another device that *)
(* has the same file; it lays signals out as the DBC format says.          *)
(*                                                                         *)
(* A line is a record of what the parser tells apart.  "BO" and "SG" start *)
(* a message and a signal.  The parser looks for BO_ and SG_ anywhere in a *)
(* line, so that it also takes for a message "TX" (BO_TX_BU_, with an id)  *)
(* and "BA" (CM_ BO_, BA_ .. BO_, BA_DEF_ BO_, with a word in its place),  *)
(* and for a signal "CM" (CM_ SG_, BA_ .. SG_, BU_SG_REL_, SG_MUL_VAL_).   *)
(* "other" is a line with none of them.                                    *)
(*                                                                         *)
(* more < 0: fewer than 5 tokens, or 7 where SG_ is; more > 0 there: more  *)
(* than 8, which a signal has that is multiplexed or has a blank in it.    *)
(***************************************************************************)
EXTENDS SignalCodec

CONSTANTS
  Files,      \* sequences of lines
  Values,     \* bound: the words that are sent in plain signals
  MaxFrames   \* bound: frames received

Name == STRING \ {""}
Line ==
  [kind : {"other"}]
    \cup [kind : {"BO", "TX"}, id : Nat, more : {-1, 0, 1}]
    \cup [kind : {"BA"}, more : {-1, 0, 1}]
    \cup [kind : {"SG", "CM"}, more : {-1, 0, 1}, name : Name, mux : {"none", "M", "m"},
          num : 0..99, start : 0..63, length : 1..24, order : {0, 1}, signed : BOOLEAN,
          factor : Int, offset : Int]

-----------------------------------------------------------------------------
(* The DBC format, which the sender follows.                               *)

\* Line k is about the message of line i: no other message begins between them.
Owns(f, i, k) ==
  i < k /\ f[i].kind = "BO" /\ \A j \in i + 1..k - 1 : f[j].kind # "BO"

\* The signals of a message.
SignalLines(f, id) ==
  {k \in DOMAIN f : f[k].kind = "SG" /\ \E i \in DOMAIN f : Owns(f, i, k) /\ f[i].id = id}

\* Bit i of a signal: Intel counts up from the lowest bit; Motorola starts at the
\* highest bit and goes down in a byte, then to bit 7 of the next one.
DbcCell(line, i) ==
  LET p == (line.start \div 8) * 8 + 7 - (line.start % 8) + line.length - 1 - i
  IN  IF line.order = 1 THEN <<(line.start + i) \div 8, (line.start + i) % 8>>
                        ELSE <<p \div 8, 7 - (p % 8)>>

\* A signal has its bits for itself: no other signal of the message lies there.
Alone(f, id, k) ==
  \A l \in SignalLines(f, id) \ {k} :
    \A i \in 0..f[k].length - 1, j \in 0..f[l].length - 1 : DbcCell(f[k], i) # DbcCell(f[l], j)

\* A file: each message begins once, and with all its tokens, as does a signal, which
\* comes after a message; transmitters are listed without blanks; a message has one
\* multiplexer, not signed, and no name twice; signals lie in 8 bytes, and 24 bits, which
\* a float keeps, are enough for their values.  (What was read of a CM line is undefined:
\* the numbers in its record are never looked at.)
WellFormed(f) ==
  /\ \A i \in DOMAIN f : f[i].kind \in {"BO", "TX"} => (f[i].kind = "BO" <=> f[i].more >= 0)
  /\ \A i, j \in DOMAIN f : f[i].kind = "BO" /\ f[j].kind = "BO" /\ f[i].id = f[j].id => i = j
  /\ \A k \in DOMAIN f : f[k].kind = "SG" =>
       /\ f[k].more >= 0 /\ \E i \in 1..k - 1 : f[i].kind = "BO"
  /\ \A k \in DOMAIN f : f[k].kind \in {"SG", "CM"} =>
       /\ \A b \in 0..f[k].length - 1 : DbcCell(f[k], b)[1] \in 0..7
       /\ ~(f[k].mux = "M" /\ f[k].signed)
       /\ \A x \in {-f[k].factor, f[k].factor, 1}, y \in {-f[k].offset, f[k].offset} :
            (Largest(f[k].length) + 1) * x + y <= 2^24
  /\ \A i, k, l \in DOMAIN f :
       /\ Owns(f, i, k) /\ f[k].kind = "SG"
       /\ Owns(f, i, l) /\ f[l].kind = "SG" /\ k # l
       => f[k].name # f[l].name /\ ~(f[k].mux = "M" /\ f[l].mux = "M")

ASSUME FilesAssumption ==
  /\ Values \subseteq SUBSET Word /\ MaxFrames \in Nat
  /\ \A f \in Files : f \in Seq(Line) /\ WellFormed(f)

VARIABLES
  file,       \* the file
  read,       \* how many lines of it were read
  frame_id, can_db,        \* of CanDbc::parse
  aborted,    \* did the program end in it, by an exception or by undefined behaviour?
  sent,       \* the last frame: its id, the numbers in it, its data
  frames,     \* frames received
  can_msg     \* signals of the CanMessage that was made of it

vars == <<file, read, frame_id, can_db, aborted, sent, frames, can_msg>>

-----------------------------------------------------------------------------
(* CanDbc.                                                                 *)

\* Motorola signals: from the position of the highest bit to that of the lowest.
StartBit(line) ==
  LET pos == 7 - (line.start % 8) + (line.length - 1)
  IN  IF line.order = 1 THEN line.start
      ELSE IF pos < 8 THEN line.start - line.length + 1
      ELSE 7 - (pos % 8) + (pos \div 8) * 8 + (line.start \div 8) * 8

MuxType(line) ==
  CASE line.kind = "CM" \/ line.more = 0 -> 0 [] line.mux = "M" -> 1 [] line.mux = "m" -> 2 [] OTHER -> 0

\* The number after 'm' is read into a uint8_t, as a character: its first digit.
MuxId(line) ==
  IF MuxType(line) = 2 THEN 48 + (IF line.num < 10 THEN line.num ELSE line.num \div 10) ELSE 0

\* With more than 8 tokens, and only then, the third one is taken for the multiplexer.
\* If it was the colon, the numbers are looked for one token too late, if it is there and
\* not taken, one too early, and they stay undefined; in a comment there are none (nor a
\* multiplexer: SG_MUL_VAL_ with more than 8 tokens is left out).
Misread(line) == line.kind = "CM" \/ (line.mux = "none" <=> line.more > 0)

SignalOf(line) ==
  [name |-> IF line.kind = "CM" THEN "SG_" ELSE line.name, defined |-> ~Misread(line),
   start |-> StartBit(line), length |-> line.length, big |-> line.order = 0,
   signed |-> line.signed, factor |-> line.factor, offset |-> line.offset,
   is_multiplexer |-> MuxType(line), mux_id |-> MuxId(line)]

NewMessage == [is_multiplexed |-> FALSE, signals |-> <<>>]

\* can_db[id]: makes a message if there is none.
MessageAt(id) == IF id \in DOMAIN can_db THEN can_db[id] ELSE NewMessage

SetMessage(id, message) ==
  can_db' = [i \in DOMAIN can_db \cup {id} |-> IF i = id THEN message ELSE can_db[i]]

\* A line was read, or ended the program.
GoesOn == read' = read + 1 /\ UNCHANGED aborted
Aborts(how) == aborted' = how /\ UNCHANGED <<read, frame_id, can_db>>

\* std::stoul throws where the id is a word, and nothing catches it; tokens of a line that
\* has fewer than 7 are read behind the last one, which may go well.
Throws(line) == line.kind = "BA" /\ line.more >= 0
PastTheEnd(line) == line.kind = "CM" /\ line.more < 0

\* The line makes a message new, or adds a signal to the one that has begun.
Begins(line) == frame_id' = line.id /\ SetMessage(line.id, NewMessage)
Adds(line) ==
  LET message == MessageAt(frame_id)
      signal == SignalOf(line)
  IN  /\ SetMessage(frame_id,
           [is_multiplexed |-> message.is_multiplexed \/ signal.is_multiplexer > 0,
            signals |-> Append(message.signals, signal)])
      /\ UNCHANGED frame_id

\* Mutated form of ParseFrame: short lines with BO_ and an id are not left out.
ParseFrameAny(line) ==
  \/ line.kind = "BA" /\ line.more < 0 /\ GoesOn /\ UNCHANGED <<frame_id, can_db>>
  \/ Throws(line) /\ Aborts("terminate")
  \/ line.kind # "BA" /\ GoesOn /\ Begins(line)

ParseFrame(line) ==
  \/ line.more < 0 /\ GoesOn /\ UNCHANGED <<frame_id, can_db>>
  \/ Throws(line) /\ Aborts("terminate")
  \/ line.more >= 0 /\ ~Throws(line) /\ GoesOn /\ Begins(line)

ParseSignal(line) ==
  \/ PastTheEnd(line) /\ Aborts("fault")
  \/ GoesOn /\ Adds(line)

Parse ==
  /\ aborted = "no" /\ read < Len(file)
  /\ LET line == file[read + 1] IN
       \/ line.kind \in {"BO", "TX", "BA"} /\ ParseFrame(line)
       \/ line.kind \in {"SG", "CM"} /\ ParseSignal(line)
       \/ line.kind = "other" /\ GoesOn /\ UNCHANGED <<frame_id, can_db>>
  /\ UNCHANGED <<file, sent, frames, can_msg>>

-----------------------------------------------------------------------------
(* The sender.                                                             *)

\* Is the signal of this line in a frame whose multiplexer is n?
Present(line, n) == line.mux # "m" \/ line.num = n
Bits(n) == {i \in 0..7 : (n \div 2^i) % 2 = 1}

\* What may be sent in the signals of a message.
Numbers(id, n) ==
  {f \in [SignalLines(file, id) -> Values \cup {Bits(n), {}}] :
     \A k \in SignalLines(file, id) : CASE file[k].mux = "M" -> f[k] = Bits(n)
                                  [] ~Present(file[k], n) -> f[k] = {}
                                  [] OTHER -> f[k] \in Values}

Data(id, f) ==
  [b \in 0..7 |->
     {bit \in Byte : \E k \in SignalLines(file, id) : \E i \in f[k] \cap (0..file[k].length - 1) :
                      DbcCell(file[k], i) = <<b, bit>>}]

-----------------------------------------------------------------------------
(* ProcessCanMessage and DataManager.                                      *)

\* What is reported of a signal.  Where its numbers are undefined any value may come out.
Reported(signal, value, junk) ==
  [name |-> signal.name, defined |-> signal.defined,
   value |-> IF signal.defined THEN value ELSE junk]
Decoded(data, signal, shifting, junk) == Reported(signal, Decode(data, signal, shifting), junk)

\* The signals of the second loop.  Mutated form: it takes the multiplexer again.
SelectedAll(s, muxer_val) == s.is_multiplexer # 2 \/ Bits(s.mux_id) = muxer_val
Selected(s, muxer_val) ==
  s.is_multiplexer = 0 \/ (s.is_multiplexer = 2 /\ Bits(s.mux_id) = muxer_val)

\* The place of i in the set S of numbers, and the elements of s at the places in S.
Rank(S, i) == Cardinality({j \in S : j <= i})
At(s, S) == [k \in 1..Cardinality(S) |-> s[CHOOSE i \in S : Rank(S, i) = k]]

Process(data, msg, shifting, junk) ==
  LET muxers == {k \in DOMAIN msg.signals : msg.signals[k].is_multiplexer = 1}
      muxer == msg.signals[Min(muxers)]
      \* unsigned int, compared with a uint8_t
      muxer_val == IF muxers = {} THEN {} ELSE ExtractSignal(data, muxer, shifting) \cap (0..31)
      first == IF ~msg.is_multiplexed \/ muxers = {} THEN <<>>
               ELSE <<Reported(muxer, ToPhysicalValue(muxer_val, muxer), junk)>>
      selected == {k \in DOMAIN msg.signals :
                     msg.is_multiplexed => Selected(msg.signals[k], muxer_val)}
      chosen == At(msg.signals, selected)
  IN  first \o [k \in DOMAIN chosen |-> Decoded(data, chosen[k], shifting, junk)]

\* A frame of a message of the file or of one that is not in it, and
\* DataManager::constructMessage, for which an unknown id is an exception.
Receive(id, n) ==
  /\ read = Len(file) /\ frames < MaxFrames /\ frames' = frames + 1
  /\ \E f \in Numbers(id, n), shifting \in Shifting, junk \in {-1, 0} :
       /\ sent' = [id |-> id, n |-> n, numbers |-> f]
       /\ can_msg' = IF id \in DOMAIN can_db
                     THEN Process(Data(id, f), can_db[id], shifting, junk)
                     ELSE <<>>
  /\ UNCHANGED <<file, read, frame_id, can_db, aborted>>

MuxNumbers == 0..3 \cup 48..51
UnknownId == 999
MessageIds == {file[i].id : i \in {k \in DOMAIN file : file[k].kind = "BO"}}

Init ==
  /\ file \in Files /\ read = 0 /\ frame_id = 0 /\ can_db = <<>> /\ aborted = "no"
  /\ sent = [id |-> UnknownId, n |-> 0, numbers |-> <<>>] /\ frames = 0 /\ can_msg = <<>>

\* A frame on the bus.  The file need not have a message 0, which parse() may add to.
ReceiveAny ==
  \E id \in MessageIds \cup {0, UnknownId} :
    \E n \in IF \E k \in SignalLines(file, id) : file[k].mux = "M" THEN MuxNumbers ELSE {0} :
      Receive(id, n)

Next == Parse \/ ReceiveAny

Spec == Init /\ [][Next]_vars

-----------------------------------------------------------------------------
(* Properties.                                                             *)

\* A comment on a signal is read as one with this name, or another that no signal has.
SignalName == Name \cup {"SG_"}
DbSignal ==
  [name : SignalName, defined : BOOLEAN, start : 0..63, length : 1..24, big : BOOLEAN,
   signed : BOOLEAN, factor : Int, offset : Int, is_multiplexer : 0..2, mux_id : 0..255]

TypeOK ==
  /\ file \in Files /\ read \in 0..Len(file) /\ frame_id \in Nat /\ frames \in 0..MaxFrames
  /\ aborted \in {"no", "terminate", "fault"}
  /\ \A id \in DOMAIN can_db :
       can_db[id].is_multiplexed \in BOOLEAN /\ can_db[id].signals \in Seq(DbSignal)
  /\ can_msg \in Seq([name : SignalName, defined : BOOLEAN, value : Int])

\* Line k is read after message id has begun, or before any has.
About(f, id, k) ==
  \/ \E i \in DOMAIN f : Owns(f, i, k) /\ f[i].id = id
  \/ id = 0 /\ \A j \in 1..k - 1 : f[j].kind # "BO"

\* A message without lines that the parser misreads: none among its signals, no comment
\* on a signal before the next message begins.
Sound(f, id) ==
  \A k \in DOMAIN f : f[k].kind \in {"SG", "CM"} /\ About(f, id, k) => ~Misread(f[k])

\* When the file is read, the database has its messages, and perhaps a message 0 that is
\* not among them, and each sound one has its signals in their order, each bit of them
\* where the file puts it.  Only a line with BO_ and a word for an id, or one with SG_ and
\* too few tokens, ends the program, and no file with one of the former is read
\* (CanDbc::parse, which finds lines by BO_ and SG_ anywhere in them, and the conversion
\* of the start of Motorola signals).
DatabaseIsTheFile ==
  /\ aborted = "terminate" => read < Len(file) /\ Throws(file[read + 1])
  /\ aborted = "fault" => read < Len(file) /\ PastTheEnd(file[read + 1])
  /\ read = Len(file) =>
       /\ \A k \in DOMAIN file : ~Throws(file[k])
       /\ MessageIds \subseteq DOMAIN can_db /\ DOMAIN can_db \subseteq MessageIds \cup {0}
       /\ \A id \in MessageIds : Sound(file, id) =>
            /\ Len(can_db[id].signals) = Cardinality(SignalLines(file, id))
            /\ \A k \in SignalLines(file, id) :
                 LET signal == can_db[id].signals[Rank(SignalLines(file, id), k)] IN
                 /\ signal.name = file[k].name /\ signal.defined
                 /\ \A i \in 0..file[k].length - 1 : Cell(signal, i) = DbcCell(file[k], i)

\* Every plain signal and the multiplexer of the sound message that was sent is
\* reported once, with the physical value of the number the sender put into it unless it
\* shares bits with another signal, and no signal of another message is (constructMessage
\* and process, after parse has done its part and with decode doing its own).
DecodesWhatWasSent ==
  frames > 0 /\ Sound(file, sent.id) =>
    /\ \A j \in DOMAIN can_msg : \E k \in SignalLines(file, sent.id) : file[k].name = can_msg[j].name
    /\ \A k \in SignalLines(file, sent.id) : file[k].mux # "m" =>
         LET reports == {j \in DOMAIN can_msg : can_msg[j].name = file[k].name} IN
         /\ Cardinality(reports) = 1
         /\ Alone(file, sent.id, k) =>
              \A j \in reports : can_msg[j].value = Physical(sent.numbers[k], file[k])

\* "decode not multiplexed signals and signals with correct muxVal"
\* (ProcessCanMessage.cpp:63): the multiplexed signals that are reported are those of
\* the number that the multiplexer has.
SignalsWithCorrectMuxVal ==
  frames > 0 =>
    \A k \in SignalLines(file, sent.id) : file[k].mux = "m" =>
      (file[k].num = sent.n <=> \E j \in DOMAIN can_msg : can_msg[j].name = file[k].name)
=============================================================================
