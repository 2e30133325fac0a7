-------------------------- MODULE VssMapping_proofs --------------------------
(***************************************************************************)
(* The way of a value from a DBC file and a mapping file to the store, for *)
(* all files, all frames and all bounds.  Each part is proved of its own   *)
(* state, in the order the values go:                                      *)
(*   - MapInv: the two maps of VssMapper agree;                            *)
(*   - DbInv: the database has what the lines read so far say;             *)
(*   - DecodesWhatWasSent: a report is what the sender put in the frame;   *)
(*   - PathInv: a DBC name has the path of its last pair;                  *)
(*   - MsgInv, AgentInv: the types of the reports and of the store.        *)
(* With DecodedValue of SignalCodec_proofs they give StoreFollowsBus.      *)
(***************************************************************************)
EXTENDS VssMapping, SignalCodec_proofs, FiniteSetTheorems, SequenceTheorems

\* The map of paths has the paths read so far; so the next path, which is another
\* one, changes no entry that the other map points to.
MapInv ==
  /\ mapper \in Mappers
  /\ vss_read \in [yaml : Nat, mapper : Nat]
  /\ DOMAIN m_vss2dbc_map = {mapper[i].vss : i \in 1..vss_read.mapper}
  /\ vss_read.mapper <= Len(mapper)
  /\ \A d \in DOMAIN m_dbc2vss_map :
       /\ m_dbc2vss_map[d] \in DOMAIN m_vss2dbc_map
       /\ m_vss2dbc_map[m_dbc2vss_map[d]] = d

\* A mapping file is a sequence.
LEMMA MapperIsSequence ==
  ASSUME NEW m \in Mappers
  PROVE  Len(m) \in Nat /\ DOMAIN m = 1..Len(m)
  <1>1. m \in Seq(NamePair)
    BY MappersAssumption
  <1> QED
    BY <1>1

\* MapInv holds in the initial states.
LEMMA MapInit == InitMapping => MapInv
  <1> SUFFICES ASSUME InitMapping PROVE MapInv
    OBVIOUS
  <1>1. mapper \in Mappers /\ vss_read = [yaml |-> 0, mapper |-> 0]
    BY DEF InitMapping
  <1>2. Len(mapper) \in Nat
    BY <1>1, MapperIsSequence
  <1>3. m_vss2dbc_map = <<>> /\ m_dbc2vss_map = <<>>
    BY DEF InitMapping
  <1>4. DOMAIN m_vss2dbc_map = {} /\ DOMAIN m_dbc2vss_map = {}
    BY <1>3
  <1>5. {mapper[i].vss : i \in 1..vss_read.mapper} = {}
    BY <1>1
  <1> QED
    BY <1>1, <1>2, <1>4, <1>5 DEF MapInv

\* One more pair of the mapping file keeps the maps in agreement.
LEMMA MapLoad == ASSUME MapInv, LoadVssDbcMapper PROVE MapInv'
  <1> DEFINE n == vss_read.mapper
             pair == mapper[n + 1]
  <1>1. /\ mapper' = mapper /\ n \in Nat /\ n < Len(mapper) /\ n' = n + 1
        /\ vss_read' \in [yaml : Nat, mapper : Nat]
    BY DEF MapInv, LoadVssDbcMapper
  <1>2. /\ mapper \in Mappers
        /\ \A i, j \in DOMAIN mapper : mapper[i].vss = mapper[j].vss => i = j
    BY MappersAssumption DEF MapInv
  <1>3. Len(mapper) \in Nat /\ DOMAIN mapper = 1..Len(mapper)
    BY <1>2, MapperIsSequence
  <1>4. pair.vss \notin DOMAIN m_vss2dbc_map
    <2>1. \A i \in 1..n : mapper[i].vss # pair.vss
      BY <1>1, <1>2, <1>3
    <2> QED
      BY <2>1 DEF MapInv
  <1>5. /\ m_vss2dbc_map' = Put(m_vss2dbc_map, pair.vss, pair.dbc)
        /\ m_dbc2vss_map' = PathOf(pair)
    BY DEF LoadVssDbcMapper
  <1>6. /\ DOMAIN m_vss2dbc_map' = DOMAIN m_vss2dbc_map \cup {pair.vss}
        /\ m_vss2dbc_map'[pair.vss] = pair.dbc
        /\ \A k \in DOMAIN m_vss2dbc_map : m_vss2dbc_map'[k] = m_vss2dbc_map[k]
    BY <1>4, <1>5 DEF Put
  <1>7. DOMAIN m_vss2dbc_map' = {mapper'[i].vss : i \in 1..n'}
    <2>1. 1..n' = 1..n \cup {n + 1}
      BY <1>1
    <2> QED
      BY <1>1, <1>6, <2>1 DEF MapInv
  <1>8. ASSUME NEW d \in DOMAIN m_dbc2vss_map'
        PROVE  /\ m_dbc2vss_map'[d] \in DOMAIN m_vss2dbc_map'
               /\ m_vss2dbc_map'[m_dbc2vss_map'[d]] = d
    <2>1. CASE pair.dbc = ""
      <3>1. m_dbc2vss_map' = m_dbc2vss_map
        BY <1>5, <2>1 DEF PathOf
      <3> QED
        BY <3>1, <1>6 DEF MapInv
    <2>2. CASE pair.dbc # ""
      <3>1. m_dbc2vss_map' = Put(m_dbc2vss_map, pair.dbc, pair.vss)
        BY <1>5, <2>2 DEF PathOf
      <3>2. /\ DOMAIN m_dbc2vss_map' = DOMAIN m_dbc2vss_map \cup {pair.dbc}
            /\ m_dbc2vss_map'[pair.dbc] = pair.vss
            /\ \A k \in DOMAIN m_dbc2vss_map :
                 k # pair.dbc => m_dbc2vss_map'[k] = m_dbc2vss_map[k]
        BY <3>1 DEF Put
      <3>3. CASE d = pair.dbc
        BY <3>2, <3>3, <1>6
      <3>4. CASE d # pair.dbc
        BY <3>2, <3>4, <1>6 DEF MapInv
      <3> QED
        BY <3>3, <3>4
    <2> QED
      BY <2>1, <2>2
  <1>9. vss_read'.mapper <= Len(mapper)
    BY <1>1, <1>3
  <1> QED
    BY <1>1, <1>7, <1>8, <1>9 DEF MapInv

\* Every step keeps MapInv; only two of them change what it is about.
LEMMA MapNext == MapInv /\ [NextMapping]_allVars => MapInv'
  <1> SUFFICES ASSUME MapInv, [NextMapping]_allVars PROVE MapInv'
    OBVIOUS
  <1>1. ASSUME UNCHANGED <<mapper, vss_read, m_vss2dbc_map, m_dbc2vss_map>> PROVE MapInv'
    BY <1>1 DEF MapInv
  <1>2. CASE Parse /\ UNCHANGED <<mapVars, agent, store>>
    BY <1>1, <1>2 DEF mapVars
  <1>3. CASE LoadVssPathYaml
    <2>1. /\ UNCHANGED <<mapper, m_vss2dbc_map, m_dbc2vss_map>>
          /\ vss_read' = [vss_read EXCEPT !.yaml = @ + 1]
      BY <1>3 DEF LoadVssPathYaml
    <2>2. vss_read' \in [yaml : Nat, mapper : Nat] /\ vss_read'.mapper = vss_read.mapper
      BY <2>1 DEF MapInv
    <2> QED
      BY <2>1, <2>2 DEF MapInv
  <1>4. CASE LoadVssDbcMapper
    BY <1>4, MapLoad
  <1>5. CASE ReceiveFrame
    BY <1>1, <1>5 DEF ReceiveFrame, mapVars
  <1>6. CASE ProcessMessage
    BY <1>1, <1>6 DEF ProcessMessage, mapVars
  <1>7. CASE UNCHANGED allVars
    BY <1>1, <1>7 DEF allVars, mapVars
  <1> QED
    BY <1>2, <1>3, <1>4, <1>5, <1>6, <1>7 DEF NextMapping

\* The path of a signal belongs to that signal, while the mapping is loaded and ever
\* after: what VssMapper::getVssNameFromDbcMap and getDbcNameFromVssMap answer agrees.
THEOREM MappingAgrees == SpecMapping => []MapsAgree
  <1>1. MapInv => MapsAgree
    BY DEF MapInv, MapsAgree, DbcName
  <1> QED
    BY <1>1, MapInit, MapNext, PTL DEF SpecMapping

-----------------------------------------------------------------------------
(* The layout of signals.                                                  *)

\* Division by 8.
LEMMA Bytes ==
  ASSUME NEW a \in Int
  PROVE  /\ a \div 8 \in Int /\ a % 8 \in 0..7
         /\ a = 8 * (a \div 8) + (a % 8)
OBVIOUS

\* A position is given by its byte and its bit: a is bit r of byte q.
IsPosition(a, q, r) == a \in Int /\ q \in Int /\ r \in 0..7 /\ a = 8 * q + r

\* They are its quotient and its remainder.
LEMMA Position ==
  ASSUME NEW a, NEW q, NEW r, IsPosition(a, q, r)
  PROVE  a \div 8 = q /\ a % 8 = r
BY DEF IsPosition

\* The position of the lowest bit is computed right from that of the highest.
LEMMA MotorolaStart ==
  ASSUME NEW line, line.start \in 0..63, line.length \in Nat \ {0}, line.order = 0,
         NEW p, p = 8 * (line.start \div 8) + 7 - (line.start % 8) + line.length - 1
  PROVE  StartBit(line) = 8 * (p \div 8) + 7 - (p % 8)
<1> DEFINE byte == line.start \div 8  bit == line.start % 8  len == line.length
           pos == 7 - bit + (len - 1)
<1>1. /\ byte \in Int /\ bit \in 0..7 /\ line.start = 8 * byte + bit /\ len \in Nat /\ len > 0
  <2>1. line.start \in Int /\ len \in Nat /\ len > 0
    OBVIOUS
  <2> QED
    BY <2>1, Bytes
<1>2. StartBit(line) = IF pos < 8 THEN line.start - len + 1
                       ELSE 7 - (pos % 8) + (pos \div 8) * 8 + byte * 8
  BY DEF StartBit
<1>3. p = 8 * byte + pos
  BY <1>1
<1> HIDE DEF byte, bit, len
<1>4. pos \in Int
  BY <1>1
<1> HIDE DEF pos
<1>5. /\ pos \div 8 \in Int /\ pos % 8 \in 0..7 /\ pos = 8 * (pos \div 8) + (pos % 8)
  BY <1>4, Bytes
<1>6. p \div 8 = byte + (pos \div 8) /\ p % 8 = pos % 8
  <2>1. IsPosition(p, byte + (pos \div 8), pos % 8)
    BY <1>1, <1>3, <1>4, <1>5 DEF IsPosition
  <2> QED
    BY <2>1, Position
<1>7. CASE pos < 8
  <2>1. pos = 7 - bit + (len - 1) /\ pos >= 0
    BY <1>1 DEF pos
  <2>2. IsPosition(pos, 0, pos)
    BY <1>4, <1>7, <2>1 DEF IsPosition
  <2>3. p \div 8 = byte /\ p % 8 = pos
    BY <1>1, <1>6, <2>2, Position
  <2>4. line.start - len + 1 = 8 * byte + 7 - pos
    BY <1>1, <2>1
  <2> QED
    BY <1>2, <1>7, <2>3, <2>4
<1>8. CASE ~(pos < 8)
  BY <1>1, <1>2, <1>5, <1>6, <1>8
<1> QED
  BY <1>7, <1>8

\* Each bit of a signal lies where the DBC file puts it, for every start, length and
\* byte order (the conversion of the start of Motorola signals in CanDbc::parse).
THEOREM LayoutConverted ==
  ASSUME NEW line, line.start \in 0..63, line.length \in Nat \ {0}, line.order \in {0, 1},
         NEW i \in 0..line.length - 1
  PROVE  Cell(SignalOf(line), i) = DbcCell(line, i)
<1> DEFINE start == StartBit(line)  big == line.order = 0
           away == ((start % 8) + i) \div 8
<1>1. SignalOf(line).start = start /\ SignalOf(line).big = big
  BY DEF SignalOf
<1>2. Cell(SignalOf(line), i)
        = <<(start \div 8) + (IF big THEN -away ELSE away), ((start % 8) + i) % 8>>
  BY <1>1 DEF Cell
<1>3. i \in Int /\ line.start \in Int /\ line.length \in Int
  OBVIOUS
<1>4. CASE line.order = 1
  <2>1. start = line.start
    BY <1>4 DEF StartBit
  <2>2. DbcCell(line, i) = <<(start + i) \div 8, (start + i) % 8>>
    BY <1>4, <2>1 DEF DbcCell
  <2>3. /\ start \div 8 \in Int /\ start % 8 \in 0..7 /\ start = 8 * (start \div 8) + (start % 8)
    BY <1>3, <2>1, Bytes
  <2>4. away \in Int /\ ((start % 8) + i) % 8 \in 0..7
        /\ (start % 8) + i = 8 * away + (((start % 8) + i) % 8)
    BY <1>3, <2>3, Bytes
  <2>5. /\ (start + i) \div 8 = (start \div 8) + away
        /\ (start + i) % 8 = ((start % 8) + i) % 8
    <3> DEFINE n == start \div 8  bit == start % 8  rest == (bit + i) % 8
    <3>1. n \in Int /\ bit \in 0..7 /\ start = 8 * n + bit /\ start \in Int
      BY <1>3, <2>1, <2>3
    <3>2. away \in Int /\ rest \in 0..7 /\ bit + i = 8 * away + rest
      BY <2>4
    <3> HIDE DEF n, bit, rest, away, start
    <3>3. IsPosition(start + i, n + away, rest)
      BY <1>3, <3>1, <3>2 DEF IsPosition
    <3> QED
      BY <3>3, Position DEF n, rest, bit
  <2>6. ~big
    BY <1>4
  <2> QED
    BY <1>2, <2>2, <2>5, <2>6
<1>5. CASE line.order = 0
  <2> DEFINE p == 8 * (line.start \div 8) + 7 - (line.start % 8) + line.length - 1
             q == p \div 8  r == p % 8
  <2>1. line.start \div 8 \in Int /\ line.start % 8 \in 0..7 /\ p \in Int
    BY <1>3, Bytes
  <2>2. start = 8 * q + 7 - r
    BY <1>5, MotorolaStart
  <2>3. DbcCell(line, i) = <<(p - i) \div 8, 7 - ((p - i) % 8)>>
    <3>1. (line.start \div 8) * 8 + 7 - (line.start % 8) + line.length - 1 - i = p - i
      BY <1>3, <2>1
    <3> QED
      BY <1>5, <3>1 DEF DbcCell
  <2> HIDE DEF p, start
  <2>4. q \in Int /\ r \in 0..7 /\ p = 8 * q + r
    BY <2>1, Bytes
  <2>5. start \div 8 = q /\ start % 8 = 7 - r
    <3> HIDE DEF q, r
    <3>1. IsPosition(start, q, 7 - r)
      BY <2>2, <2>4 DEF IsPosition
    <3> QED
      BY <3>1, Position
  <2> HIDE DEF q, r
  <2>6. away \in Int /\ (7 - r + i) % 8 \in 0..7 /\ away = (7 - r + i) \div 8
        /\ 7 - r + i = 8 * away + ((7 - r + i) % 8)
    BY <1>3, <2>4, <2>5, Bytes
  <2>7. (p - i) \div 8 = q - away /\ (p - i) % 8 = 7 - ((7 - r + i) % 8)
    <3> DEFINE rest == (7 - r + i) % 8
    <3>1. rest \in 0..7 /\ away \in Int /\ 7 - r + i = 8 * away + rest
      BY <2>6
    <3> HIDE DEF rest, away
    <3>2. IsPosition(p - i, q - away, 7 - rest)
      BY <1>3, <2>1, <2>4, <3>1 DEF IsPosition
    <3> QED
      BY <3>2, Position DEF rest
  <2>8. /\ big /\ (start \div 8) + (-away) = q - away
        /\ 7 - (7 - ((7 - r + i) % 8)) = (7 - r + i) % 8
    BY <1>5, <2>4, <2>5, <2>6
  <2> QED
    BY <1>2, <2>3, <2>5, <2>7, <2>8
<1> QED
  BY <1>4, <1>5

-----------------------------------------------------------------------------
(* The database that CanDbc::parse makes of a file.                        *)

\* A file is a sequence of lines, and keeps to the format.
LEMMA FileIsSequence ==
  ASSUME NEW f \in Files
  PROVE  /\ Len(f) \in Nat /\ DOMAIN f = 1..Len(f) /\ WellFormed(f)
         /\ \A k \in DOMAIN f : f[k] \in Line
BY FilesAssumption

\* What the lines about a message and about a signal have.
LEMMA LineFields ==
  ASSUME NEW line \in Line
  PROVE  /\ line.kind \in {"other", "BO", "TX", "BA", "SG", "CM"}
         /\ line.kind \in {"BO", "TX"} => line.id \in Nat
         /\ line.kind # "other" => line.more \in {-1, 0, 1}
         /\ line.kind \in {"SG", "CM"} =>
              /\ line.name \in Name /\ line.mux \in {"none", "M", "m"}
              /\ line.num \in 0..99 /\ line.start \in 0..63 /\ line.length \in 1..24
              /\ line.order \in {0, 1} /\ line.signed \in BOOLEAN
              /\ line.factor \in Int /\ line.offset \in Int
BY DEF Line

\* A line belongs to one message, and a signal belongs to some.
LEMMA OneOwner ==
  ASSUME NEW f \in Files, NEW i \in DOMAIN f, NEW j \in DOMAIN f, NEW k \in Nat,
         Owns(f, i, k), Owns(f, j, k)
  PROVE  i = j
<1>1. i \in Int /\ j \in Int
  BY FileIsSequence
<1> QED
  BY <1>1 DEF Owns

\* A line behind the first message is about one of the messages before it.
LEMMA SomeOwner ==
  ASSUME NEW f \in Files, NEW k \in DOMAIN f, NEW b \in 1..k - 1, f[b].kind = "BO"
  PROVE  \E i \in DOMAIN f : Owns(f, i, k)
<1>1. DOMAIN f = 1..Len(f) /\ Len(f) \in Nat /\ k \in Nat
  BY FileIsSequence
<1> DEFINE T == {n \in Nat : n \in 1..k - 1 /\ f[k - n].kind = "BO"}
<1>3. k - b \in T
  BY <1>1
<1>4. PICK n \in T : \A m \in T : n <= m
  <2>1. T \subseteq Nat /\ T # {}
    BY <1>3
  <2> HIDE DEF T
  <2> QED
    BY <2>1, Least
<1>5. ASSUME NEW j \in k - n + 1..k - 1 PROVE f[j].kind # "BO"
  <2>1. k - j \in 1..k - 1 /\ ~(n <= k - j) /\ k - (k - j) = j /\ k - j \in Nat
    BY <1>1
  <2> QED
    BY <1>4, <2>1
<1>6. k - n \in DOMAIN f /\ k - n < k /\ f[k - n].kind = "BO"
  BY <1>1
<1> QED
  BY <1>5, <1>6 DEF Owns

\* The signal of a line is one of the message that has begun last before it.
LEMMA SignalAbout ==
  ASSUME NEW f \in Files, NEW k \in DOMAIN f, f[k].kind = "SG", NEW id, About(f, id, k)
  PROVE  k \in SignalLines(f, id)
<1>1. \E b \in 1..k - 1 : f[b].kind = "BO"
  BY FileIsSequence DEF WellFormed
<1> QED
  BY <1>1 DEF About, SignalLines

\* Nothing is read for two messages.
LEMMA OneAbout ==
  ASSUME NEW f \in Files, NEW k \in Nat, NEW id, About(f, id, k), NEW other, About(f, other, k)
  PROVE  id = other
<1>1. ASSUME NEW i \in DOMAIN f, Owns(f, i, k) PROVE \E j \in 1..k - 1 : f[j].kind = "BO"
  BY <1>1, FileIsSequence DEF Owns
<1> QED
  BY <1>1, OneOwner DEF About

\* The signal that is made of a line about one.
LEMMA SignalTyped ==
  ASSUME NEW f \in Files, NEW k \in DOMAIN f, f[k].kind \in {"SG", "CM"}
  PROVE  SignalOf(f[k]) \in DbSignal
<1> DEFINE line == f[k]
<1>1. /\ line.name \in Name /\ line.mux \in {"none", "M", "m"}
      /\ line.num \in 0..99 /\ line.start \in 0..63 /\ line.length \in 1..24
      /\ line.order \in {0, 1} /\ line.signed \in BOOLEAN
      /\ line.factor \in Int /\ line.offset \in Int
  BY FileIsSequence, LineFields
<1>2. DbcCell(line, 0)[1] \in 0..7
  <2>1. 0 \in 0..f[k].length - 1
    BY <1>1
  <2>2. \A b \in 0..f[k].length - 1 : DbcCell(f[k], b)[1] \in 0..7
    BY FileIsSequence DEF WellFormed
  <2> QED
    BY <2>1, <2>2
<1> HIDE DEF line
<1>3. StartBit(line) \in 0..63
  <2>1. CASE line.order = 1
    BY <1>1, <2>1 DEF StartBit
  <2>2. CASE line.order = 0
    <3> DEFINE p == 8 * (line.start \div 8) + 7 - (line.start % 8) + line.length - 1
    <3>1. StartBit(line) = 8 * (p \div 8) + 7 - (p % 8)
      BY <1>1, <2>2, MotorolaStart
    <3>2. p \in Int /\ (line.start \div 8) * 8 + 7 - (line.start % 8) + line.length - 1 - 0 = p
      BY <1>1
    <3>3. p \div 8 = DbcCell(line, 0)[1]
      BY <2>2, <3>2 DEF DbcCell
    <3> HIDE DEF p
    <3>4. p % 8 \in 0..7
      BY <3>2
    <3> QED
      BY <1>2, <3>1, <3>3, <3>4
  <2> QED
    BY <1>1, <2>1, <2>2
<1>4. MuxType(line) \in 0..2
  BY DEF MuxType
<1>5. MuxId(line) \in 0..255
  <2>1. line.num \div 10 \in 0..9
    BY <1>1
  <2> DEFINE digit == IF line.num < 10 THEN line.num ELSE line.num \div 10
  <2>2. digit \in 0..9
    BY <1>1, <2>1
  <2> HIDE DEF digit
  <2>3. 48 + digit \in 0..255
    BY <2>2
  <2>4. MuxId(line) = 48 + digit \/ MuxId(line) = 0
    BY Zenon DEF MuxId, digit
  <2>5. CASE MuxId(line) = 48 + digit
    BY <2>3, <2>5
  <2>6. CASE MuxId(line) = 0
    BY <2>6
  <2> QED
    BY <2>4, <2>5, <2>6
<1>6. (IF line.kind = "CM" THEN "SG_" ELSE line.name) \in SignalName
  BY <1>1 DEF SignalName
<1> QED
  BY <1>1, <1>3, <1>4, <1>5, <1>6 DEF SignalOf, DbSignal, Misread, line

\* The lines about the signals of a message, up to line n.
Known(f, id, n) == {k \in SignalLines(f, id) : k <= n}

\* What is known of a message after n lines: each signal comes from a line about it; if
\* none of them is misread the lines with its signals are there, in their order.
MessageOK(f, m, id, n) ==
  /\ m.is_multiplexed \in BOOLEAN /\ m.signals \in Seq(DbSignal)
  /\ m.is_multiplexed <=> \E p \in DOMAIN m.signals : m.signals[p].is_multiplexer > 0
  /\ \A p \in DOMAIN m.signals : \E k \in DOMAIN f :
       About(f, id, k) /\ f[k].kind \in {"SG", "CM"} /\ m.signals[p] = SignalOf(f[k])
  /\ Sound(f, id) =>
       /\ Len(m.signals) = Cardinality(Known(f, id, n))
       /\ \A k \in Known(f, id, n) : m.signals[Rank(SignalLines(f, id), k)] = SignalOf(f[k])

\* The messages that have begun in n lines are in the database, and no other but 0.
Holds(f, ids, n) ==
  /\ \A i \in 1..n : f[i].kind = "BO" => f[i].id \in ids
  /\ \A id \in ids : id = 0 \/ \E i \in 1..n : f[i].kind = "BO" /\ f[i].id = id

\* The program ends at a line that is misread, and so does not read one that throws.
EndsAt(f, how, n) ==
  /\ how \in {"no", "terminate", "fault"}
  /\ how = "terminate" => n < Len(f) /\ Throws(f[n + 1])
  /\ how = "fault" => n < Len(f) /\ PastTheEnd(f[n + 1])
  /\ \A k \in 1..n : ~Throws(f[k])

\* After read lines of the file the database has the messages that have begun, and the
\* last of them is the one that signals are added to.
DbInv ==
  /\ file \in Files /\ read \in 0..Len(file) /\ frame_id \in Nat
  /\ About(file, frame_id, read + 1) /\ Holds(file, DOMAIN can_db, read)
  /\ EndsAt(file, aborted, read)
  /\ \A id \in DOMAIN can_db : MessageOK(file, can_db[id], id, read)

\* Lines of signals are finitely many.
LEMMA KnownFinite ==
  ASSUME NEW f \in Files, NEW id, NEW n
  PROVE  /\ IsFiniteSet(SignalLines(f, id)) /\ IsFiniteSet(Known(f, id, n))
         /\ Cardinality(Known(f, id, n)) \in Nat
<1>1. SignalLines(f, id) \in SUBSET (1..Len(f)) /\ Len(f) \in Nat
  BY FileIsSequence DEF SignalLines
<1>2. IsFiniteSet(1..Len(f))
  BY <1>1, FS_Interval
<1>3. IsFiniteSet(SignalLines(f, id))
  BY <1>1, <1>2, FS_Subset
<1>4. Known(f, id, n) \in SUBSET SignalLines(f, id)
  BY DEF Known
<1> QED
  BY <1>3, <1>4, FS_Subset, FS_CardinalityType

\* A line that is not about a signal of the message changes nothing for it.
LEMMA OtherLine ==
  ASSUME NEW f \in Files, NEW m, NEW id, NEW n \in Nat, MessageOK(f, m, id, n),
         n + 1 \notin SignalLines(f, id)
  PROVE  MessageOK(f, m, id, n + 1)
<1>1. Known(f, id, n + 1) = Known(f, id, n)
  <2>1. \A k \in SignalLines(f, id) : k \in Int
    BY FileIsSequence DEF SignalLines
  <2> QED
    BY <2>1 DEF Known
<1> QED
  BY <1>1 DEF MessageOK

\* A message that begins has no signals yet.
LEMMA Begun ==
  ASSUME NEW f \in Files, NEW n \in Nat, n + 1 \in DOMAIN f, f[n + 1].kind = "BO"
  PROVE  MessageOK(f, NewMessage, f[n + 1].id, n + 1)
<1> DEFINE id == f[n + 1].id
<1>1. Known(f, id, n + 1) = {}
  <2> SUFFICES ASSUME NEW k \in SignalLines(f, id), k <= n + 1 PROVE FALSE
    BY DEF Known
  <2>1. PICK i \in DOMAIN f : Owns(f, i, k) /\ f[i].id = id
    BY DEF SignalLines
  <2>2. i = n + 1
    BY <2>1, FileIsSequence DEF WellFormed, Owns
  <2>3. k \in Int
    BY FileIsSequence DEF SignalLines
  <2> QED
    BY <2>1, <2>2, <2>3 DEF Owns
<1>2. NewMessage.is_multiplexed = FALSE /\ NewMessage.signals = <<>>
  BY DEF NewMessage
<1> DEFINE new == NewMessage
<1> HIDE DEF new, id
<1>3. new.signals \in Seq(DbSignal) /\ DOMAIN new.signals = {} /\ Len(new.signals) = 0
  BY <1>2 DEF new
<1>4. Cardinality(Known(f, id, n + 1)) = 0
  BY <1>1, FS_EmptySet
<1>5. MessageOK(f, new, id, n + 1)
  BY <1>1, <1>2, <1>3, <1>4 DEF MessageOK, new
<1> QED
  BY <1>5 DEF new, id

\* A line about a signal of the message adds that signal.
Added(m, signal) ==
  [is_multiplexed |-> m.is_multiplexed \/ signal.is_multiplexer > 0,
   signals |-> Append(m.signals, signal)]

\* The message then has the lines up to this one.
LEMMA OwnLine ==
  ASSUME NEW f \in Files, NEW m, NEW id, NEW n \in Nat, MessageOK(f, m, id, n),
         n + 1 \in DOMAIN f, f[n + 1].kind \in {"SG", "CM"}, About(f, id, n + 1)
  PROVE  MessageOK(f, Added(m, SignalOf(f[n + 1])), id, n + 1)
<1> DEFINE signal == SignalOf(f[n + 1])  new == Added(m, signal)
           lines == SignalLines(f, id)  len == Len(m.signals)
<1>1. signal \in DbSignal /\ signal.is_multiplexer \in 0..2
  BY SignalTyped DEF DbSignal
<1>2. new.is_multiplexed = (m.is_multiplexed \/ signal.is_multiplexer > 0)
      /\ new.signals = Append(m.signals, signal)
  BY DEF Added
<1>3. m.signals \in Seq(DbSignal) /\ m.is_multiplexed \in BOOLEAN
  BY DEF MessageOK
<1> HIDE DEF new
<1>4. /\ new.signals \in Seq(DbSignal) /\ new.is_multiplexed \in BOOLEAN
      /\ len \in Nat /\ Len(new.signals) = len + 1 /\ DOMAIN new.signals = 1..len + 1
      /\ DOMAIN m.signals = 1..len
      /\ new.signals[len + 1] = signal /\ \A p \in 1..len : new.signals[p] = m.signals[p]
  <2> HIDE DEF signal
  <2> QED
    BY <1>1, <1>2, <1>3
<1>5. new.is_multiplexed <=> \E p \in DOMAIN new.signals : new.signals[p].is_multiplexer > 0
  <2>1. m.is_multiplexed <=> \E p \in DOMAIN m.signals : m.signals[p].is_multiplexer > 0
    BY DEF MessageOK
  <2> HIDE DEF signal
  <2>2. DOMAIN new.signals = DOMAIN m.signals \cup {len + 1}
    BY <1>4
  <2>3. \A p \in DOMAIN m.signals : new.signals[p] = m.signals[p]
    BY <1>4
  <2>4. new.signals[len + 1] = signal
    BY <1>4
  <2> QED
    BY <1>2, <2>1, <2>2, <2>3, <2>4, Zenon
<1>6. ASSUME NEW p \in DOMAIN new.signals
      PROVE  \E k \in DOMAIN f : /\ About(f, id, k) /\ f[k].kind \in {"SG", "CM"}
                                 /\ new.signals[p] = SignalOf(f[k])
  <2>1. CASE p = len + 1
    BY <1>4, <2>1
  <2>2. CASE p \in 1..len
    BY <1>4, <2>2 DEF MessageOK
  <2> QED
    BY <1>4, <2>1, <2>2
<1>7. ASSUME Sound(f, id)
      PROVE  /\ Len(new.signals) = Cardinality(Known(f, id, n + 1))
             /\ \A k \in Known(f, id, n + 1) : new.signals[Rank(lines, k)] = SignalOf(f[k])
  <2>1. f[n + 1].kind = "SG"
    BY <1>7 DEF Sound, Misread
  <2>2. n + 1 \in lines
    BY <2>1, SignalAbout
  <2>3. \A k \in lines : k \in Int
    BY FileIsSequence DEF SignalLines
  <2>4. Known(f, id, n + 1) = Known(f, id, n) \cup {n + 1} /\ n + 1 \notin Known(f, id, n)
    BY <2>2, <2>3 DEF Known
  <2>5. Cardinality(Known(f, id, n + 1)) = Cardinality(Known(f, id, n)) + 1
    BY <2>4, KnownFinite, FS_AddElement
  <2>6. len = Cardinality(Known(f, id, n))
        /\ \A k \in Known(f, id, n) : m.signals[Rank(lines, k)] = SignalOf(f[k])
    BY <1>7 DEF MessageOK
  <2>7. Rank(lines, n + 1) = len + 1
    BY <2>5, <2>6 DEF Rank, Known
  <2>8. ASSUME NEW k \in Known(f, id, n) PROVE Rank(lines, k) \in 1..len
    <3>1. Rank(lines, k) = Cardinality(Known(f, id, k))
      BY DEF Rank, Known
    <3>2. Known(f, id, k) \in SUBSET Known(f, id, n) /\ k \in Known(f, id, k)
      BY <2>3 DEF Known
    <3>3. Cardinality(Known(f, id, k)) <= len
      BY <2>6, <3>2, KnownFinite, FS_Subset
    <3>4. Cardinality(Known(f, id, k)) \in Nat /\ Cardinality(Known(f, id, k)) # 0
      BY <3>2, KnownFinite, FS_EmptySet
    <3> QED
      BY <1>4, <3>1, <3>3, <3>4
  <2> QED
    BY <1>4, <2>4, <2>5, <2>6, <2>7, <2>8
<1>8. MessageOK(f, new, id, n + 1)
  BY <1>4, <1>5, <1>6, <1>7 DEF MessageOK
<1> QED
  BY <1>8 DEF new

\* A message that is new in the database has no signals before this line.
LEMMA Made ==
  ASSUME NEW f \in Files, NEW n \in Nat, NEW ids, Holds(f, ids, n), About(f, 0, n + 1), 0 \notin ids
  PROVE  MessageOK(f, NewMessage, 0, n)
<1>1. Known(f, 0, n) = {}
  <2> SUFFICES ASSUME NEW k \in SignalLines(f, 0), k <= n PROVE FALSE
    BY DEF Known
  <2>1. PICK i \in DOMAIN f : Owns(f, i, k) /\ f[i].id = 0
    BY DEF SignalLines
  <2>2. i \in 1..n /\ f[i].kind = "BO"
    BY <2>1, FileIsSequence DEF Owns, SignalLines
  <2> QED
    BY <2>1, <2>2 DEF Holds
<1> DEFINE new == NewMessage
<1>2. new.is_multiplexed = FALSE /\ new.signals = <<>>
  BY DEF NewMessage
<1> HIDE DEF new
<1>3. new.signals \in Seq(DbSignal) /\ DOMAIN new.signals = {} /\ Len(new.signals) = 0
  BY <1>2
<1>4. Cardinality(Known(f, 0, n)) = 0
  BY <1>1, FS_EmptySet
<1>5. MessageOK(f, new, 0, n)
  BY <1>1, <1>2, <1>3, <1>4 DEF MessageOK
<1> QED
  BY <1>5 DEF new

\* The database before the first line.
LEMMA DbInit == Init => DbInv
<1> SUFFICES ASSUME Init PROVE DbInv
  OBVIOUS
<1>1. file \in Files /\ read = 0 /\ frame_id = 0 /\ can_db = <<>> /\ aborted = "no"
  BY DEF Init
<1>2. DOMAIN can_db = {} /\ Len(file) \in Nat /\ 0 \in 0..Len(file)
  BY <1>1, FileIsSequence
<1>3. About(file, 0, 1) /\ Holds(file, {}, 0) /\ EndsAt(file, "no", 0)
  BY DEF About, Holds, EndsAt
<1> QED
  BY <1>1, <1>2, <1>3 DEF DbInv

\* What the next line is about: the message that begins, or else the one before.
LEMMA NextAbout ==
  ASSUME NEW f \in Files, NEW n \in Nat, n + 1 \in DOMAIN f, NEW id, About(f, id, n + 1)
  PROVE  /\ f[n + 1].kind = "BO" => About(f, f[n + 1].id, n + 2)
         /\ f[n + 1].kind # "BO" => About(f, id, n + 2)
<1>1. \A j \in 1..n + 1 : j \in 1..n \/ j = n + 1
  OBVIOUS
<1>2. ASSUME f[n + 1].kind = "BO" PROVE Owns(f, n + 1, n + 2)
  BY <1>2 DEF Owns
<1>3. ASSUME f[n + 1].kind # "BO", NEW i \in DOMAIN f, Owns(f, i, n + 1)
      PROVE  Owns(f, i, n + 2)
  <2>1. i \in Int /\ i < n + 1 /\ f[i].kind = "BO" /\ \A j \in i + 1..n : f[j].kind # "BO"
    BY <1>3, FileIsSequence DEF Owns
  <2>2. \A j \in i + 1..n + 1 : j \in i + 1..n \/ j = n + 1
    BY <2>1
  <2>3. (n + 2) - 1 = n + 1 /\ i < n + 2
    BY <2>1
  <2> QED
    BY <1>3, <2>1, <2>2, <2>3 DEF Owns
<1>4. (n + 2) - 1 = n + 1 /\ (n + 1) - 1 = n
  OBVIOUS
<1> QED
  BY <1>1, <1>2, <1>3, <1>4 DEF About

\* A line that is read to its end does not throw.
LEMMA GoneOn ==
  ASSUME NEW f, NEW n \in Nat, EndsAt(f, "no", n), ~Throws(f[n + 1])
  PROVE  EndsAt(f, "no", n + 1)
<1>1. \A k \in 1..n + 1 : k \in 1..n \/ k = n + 1
  OBVIOUS
<1> QED
  BY <1>1 DEF EndsAt

\* One more line for the messages that have begun.
LEMMA HoldsOn ==
  ASSUME NEW f, NEW n \in Nat, NEW ids, Holds(f, ids, n), NEW id,
         IF f[n + 1].kind = "BO" THEN id = f[n + 1].id ELSE id \in ids \cup {0}
  PROVE  Holds(f, ids \cup {id}, n + 1)
<1>1. \A k \in 1..n + 1 : k \in 1..n \/ k = n + 1
  OBVIOUS
<1>2. n + 1 \in 1..n + 1 /\ \A k \in 1..n : k \in 1..n + 1
  OBVIOUS
<1> QED
  BY <1>1, <1>2 DEF Holds

\* Every line keeps DbInv.
LEMMA DbParse == ASSUME DbInv, Parse PROVE DbInv'
<1> DEFINE n == read  line == file[n + 1]
<1>1. /\ file \in Files /\ file' = file /\ n \in Nat /\ n < Len(file)
      /\ Len(file) \in Nat /\ DOMAIN file = 1..Len(file) /\ n + 1 \in DOMAIN file
      /\ frame_id \in Nat /\ aborted = "no" /\ n + 1 \in 0..Len(file) /\ n + 1 + 1 = n + 2
  BY FileIsSequence DEF DbInv, Parse
<1>2. /\ line.kind \in {"other", "BO", "TX", "BA", "SG", "CM"}
      /\ line.kind \in {"BO", "TX"} => line.id \in Nat /\ (line.kind = "BO" <=> line.more >= 0)
      /\ line.kind # "other" => line.more \in {-1, 0, 1}
  BY <1>1, FileIsSequence, LineFields DEF WellFormed
<1>3. \/ line.kind \in {"BO", "TX", "BA"} /\ ParseFrame(line)
      \/ line.kind \in {"SG", "CM"} /\ ParseSignal(line)
      \/ line.kind = "other" /\ GoesOn /\ UNCHANGED <<frame_id, can_db>>
  BY DEF Parse
<1>4. /\ About(file, frame_id, n + 1) /\ Holds(file, DOMAIN can_db, n) /\ EndsAt(file, "no", n)
      /\ \A id \in DOMAIN can_db : MessageOK(file, can_db[id], id, n)
  BY <1>1 DEF DbInv
<1>5. ASSUME NEW id \in DOMAIN can_db, n + 1 \notin SignalLines(file, id)
      PROVE  MessageOK(file, can_db[id], id, n + 1)
  BY <1>1, <1>4, <1>5, OtherLine
<1>6. CASE (Throws(line) /\ Aborts("terminate")) \/ (PastTheEnd(line) /\ Aborts("fault"))
  <2>1. UNCHANGED <<read, frame_id, can_db>>
    BY <1>6 DEF Aborts
  <2>2. EndsAt(file, aborted', n)
    BY <1>1, <1>4, <1>6 DEF EndsAt, Aborts
  <2> QED
    BY <1>1, <1>4, <2>1, <2>2 DEF DbInv
<1>7. CASE line.kind = "BO" /\ GoesOn /\ Begins(line)
  <2>1. frame_id' = line.id /\ read' = n + 1 /\ aborted' = "no"
        /\ can_db' = [i \in DOMAIN can_db \cup {line.id} |->
                      IF i = line.id THEN NewMessage ELSE can_db[i]]
    BY <1>1, <1>7 DEF GoesOn, Begins, SetMessage
  <2>2. /\ DOMAIN can_db' = DOMAIN can_db \cup {line.id}
        /\ can_db'[line.id] = NewMessage
        /\ \A id \in DOMAIN can_db : id # line.id => can_db'[id] = can_db[id]
    BY <2>1
  <2>3. About(file, line.id, n + 2)
    BY <1>1, <1>4, <1>7, NextAbout
  <2>4. ASSUME NEW id \in DOMAIN can_db' PROVE MessageOK(file, can_db'[id], id, n + 1)
    <3>1. CASE id = line.id
      BY <1>1, <1>7, <2>2, <3>1, Begun
    <3>2. CASE id # line.id
      <4>1. n + 1 \notin SignalLines(file, id)
        BY <1>7 DEF SignalLines
      <4> QED
        BY <1>5, <2>2, <3>2, <4>1
    <3> QED
      BY <3>1, <3>2
  <2>5. Holds(file, DOMAIN can_db', n + 1)
    <3>1. IF file[n + 1].kind = "BO" THEN line.id = file[n + 1].id
                                     ELSE line.id \in DOMAIN can_db \cup {0}
      BY <1>7
    <3>2. Holds(file, DOMAIN can_db \cup {line.id}, n + 1)
      <4> HIDE DEF n, line
      <4> QED
        BY <1>1, <1>4, <3>1, HoldsOn
    <3> QED
      BY <2>2, <3>2
  <2>6. EndsAt(file, "no", n + 1)
    BY <1>1, <1>4, <1>7, GoneOn DEF Throws
  <2> QED
    BY <1>1, <1>2, <1>7, <2>1, <2>3, <2>4, <2>5, <2>6 DEF DbInv
<1>8. CASE line.kind \in {"SG", "CM"} /\ GoesOn /\ Adds(line)
  <2> DEFINE old == MessageAt(frame_id)  new == Added(old, SignalOf(line))
  <2>1. /\ frame_id' = frame_id /\ read' = n + 1 /\ aborted' = "no"
        /\ can_db' = [j \in DOMAIN can_db \cup {frame_id} |->
                      IF j = frame_id THEN new ELSE can_db[j]]
    BY <1>1, <1>8 DEF GoesOn, Adds, SetMessage, Added
  <2>2. MessageOK(file, old, frame_id, n)
    <3>1. CASE frame_id \in DOMAIN can_db
      BY <1>4, <3>1 DEF MessageAt
    <3>2. CASE frame_id \notin DOMAIN can_db
      <4>1. frame_id = 0
        <5>1. ASSUME NEW i \in DOMAIN file, Owns(file, i, n + 1) PROVE file[i].id \in DOMAIN can_db
          <6>1. i \in 1..n /\ file[i].kind = "BO"
            BY <1>1, <5>1 DEF Owns
          <6> QED
            BY <1>4, <6>1 DEF Holds
        <5> QED
          BY <1>4, <3>2, <5>1 DEF About
      <4> QED
        BY <1>1, <1>4, <3>2, <4>1, Made DEF MessageAt
    <3> QED
      BY <3>1, <3>2
  <2>3. MessageOK(file, new, frame_id, n + 1)
    <3> HIDE DEF old
    <3> QED
      BY <1>1, <1>4, <1>8, <2>2, OwnLine
  <2> HIDE DEF new
  <2>4. /\ DOMAIN can_db' = DOMAIN can_db \cup {frame_id}
        /\ can_db'[frame_id] = new
        /\ \A id \in DOMAIN can_db : id # frame_id => can_db'[id] = can_db[id]
    BY <2>1
  <2>5. About(file, frame_id, n + 2)
    BY <1>1, <1>4, <1>8, NextAbout
  <2>6. ASSUME NEW id \in DOMAIN can_db' PROVE MessageOK(file, can_db'[id], id, n + 1)
    <3>1. CASE id = frame_id
      BY <2>3, <2>4, <3>1
    <3>2. CASE id # frame_id
      <4>1. n + 1 \notin SignalLines(file, id)
        <5>1. ASSUME n + 1 \in SignalLines(file, id) PROVE About(file, id, n + 1)
          BY <5>1 DEF SignalLines, About
        <5>2. n + 1 \in Nat
          BY <1>1
        <5> QED
          BY <1>1, <1>4, <3>2, <5>1, <5>2, OneAbout
      <4> QED
        BY <1>5, <2>4, <3>2, <4>1
    <3> QED
      BY <3>1, <3>2
  <2>7. Holds(file, DOMAIN can_db', n + 1)
    <3>1. frame_id \in DOMAIN can_db \cup {0}
      <4>1. ASSUME NEW i \in DOMAIN file, Owns(file, i, n + 1) PROVE file[i].id \in DOMAIN can_db
        <5>1. i \in 1..n /\ file[i].kind = "BO"
          BY <1>1, <4>1 DEF Owns
        <5> QED
          BY <1>4, <5>1 DEF Holds
      <4> QED
        BY <1>4, <4>1 DEF About
    <3> QED
      BY <1>1, <1>4, <1>8, <2>4, <3>1, HoldsOn
  <2>8. EndsAt(file, "no", n + 1)
    BY <1>1, <1>4, <1>8, GoneOn DEF Throws
  <2> QED
    BY <1>1, <2>1, <2>5, <2>6, <2>7, <2>8 DEF DbInv
<1>9. CASE /\ line.kind \in {"TX", "BA", "other"} /\ ~Throws(line)
           /\ GoesOn /\ UNCHANGED <<frame_id, can_db>>
  <2>1. frame_id' = frame_id /\ can_db' = can_db /\ read' = n + 1 /\ aborted' = "no"
    BY <1>1, <1>9 DEF GoesOn
  <2>2. About(file, frame_id, n + 2)
    BY <1>1, <1>4, <1>9, NextAbout
  <2>3. \A id : n + 1 \notin SignalLines(file, id)
    BY <1>9 DEF SignalLines
  <2>4. \A id \in DOMAIN can_db : MessageOK(file, can_db[id], id, n + 1)
    BY <1>5, <2>3
  <2>5. Holds(file, DOMAIN can_db, n + 1)
    <3>1. ASSUME DOMAIN can_db = {} PROVE Holds(file, DOMAIN can_db, n + 1)
      BY <1>1, <1>4, <1>9, <3>1 DEF Holds
    <3>2. ASSUME NEW id \in DOMAIN can_db PROVE Holds(file, DOMAIN can_db, n + 1)
      <4>1. DOMAIN can_db \cup {id} = DOMAIN can_db
        OBVIOUS
      <4> QED
        BY <1>1, <1>4, <1>9, <4>1, HoldsOn
    <3> QED
      BY <3>1, <3>2
  <2>6. EndsAt(file, "no", n + 1)
    BY <1>1, <1>4, <1>9, GoneOn
  <2> QED
    BY <1>1, <2>1, <2>2, <2>4, <2>5, <2>6 DEF DbInv
<1> QED
  <2>1. CASE line.kind \in {"BO", "TX", "BA"} /\ ParseFrame(line)
    BY <1>2, <1>6, <1>7, <1>9, <2>1 DEF ParseFrame, Throws
  <2>2. CASE line.kind \in {"SG", "CM"} /\ ParseSignal(line)
    BY <1>6, <1>8, <2>2 DEF ParseSignal
  <2>3. CASE line.kind = "other" /\ GoesOn /\ UNCHANGED <<frame_id, can_db>>
    BY <1>9, <2>3 DEF Throws
  <2> QED
    BY <1>3, <2>1, <2>2, <2>3

\* The steps that do not parse leave the database.
LEMMA DbOther ==
  ASSUME DbInv, UNCHANGED <<file, read, frame_id, can_db, aborted>> PROVE DbInv'
BY DEF DbInv

\* Every step keeps the database equal to what the lines read so far say.
LEMMA DbNext == DbInv /\ [NextMapping]_allVars => DbInv'
<1> SUFFICES ASSUME DbInv, [NextMapping]_allVars PROVE DbInv'
  OBVIOUS
<1>1. CASE Parse
  BY <1>1, DbParse
<1>2. CASE LoadVssPathYaml
  BY <1>2, DbOther DEF LoadVssPathYaml, vars
<1>3. CASE LoadVssDbcMapper
  BY <1>3, DbOther DEF LoadVssDbcMapper, vars
<1>4. CASE ReceiveFrame
  BY <1>4, DbOther DEF ReceiveFrame, ReceiveAny, Receive
<1>5. CASE ProcessMessage
  BY <1>5, DbOther DEF ProcessMessage, vars
<1>6. CASE UNCHANGED allVars
  BY <1>6, DbOther DEF allVars, vars
<1> QED
  BY <1>1, <1>2, <1>3, <1>4, <1>5, <1>6 DEF NextMapping

\* What is about a signal of a sound message, and what is made of it.
LEMMA SoundLine ==
  ASSUME NEW f \in Files, NEW id, Sound(f, id), NEW k \in SignalLines(f, id)
  PROVE  /\ k \in DOMAIN f /\ f[k].kind = "SG" /\ ~Misread(f[k])
         /\ f[k].name \in Name /\ f[k].mux \in {"none", "M", "m"}
         /\ f[k].start \in 0..63 /\ f[k].length \in 1..24 /\ f[k].order \in {0, 1}
         /\ SignalOf(f[k]) \in DbSignal
         /\ SignalOf(f[k]).name = f[k].name /\ SignalOf(f[k]).defined
<1>1. k \in DOMAIN f /\ f[k].kind = "SG" /\ ~Misread(f[k])
  BY DEF SignalLines, Sound, About
<1>2. /\ f[k].name \in Name /\ f[k].mux \in {"none", "M", "m"}
      /\ f[k].start \in 0..63 /\ f[k].length \in 1..24 /\ f[k].order \in {0, 1}
  BY <1>1, FileIsSequence, LineFields
<1>3. SignalOf(f[k]) \in DbSignal
  BY <1>1, SignalTyped
<1>4. SignalOf(f[k]).name = f[k].name /\ SignalOf(f[k]).defined
  BY <1>1 DEF SignalOf
<1> QED
  BY <1>1, <1>2, <1>3, <1>4

\* Its bits are where the file puts them.
LEMMA SoundCell ==
  ASSUME NEW f \in Files, NEW id, Sound(f, id), NEW k \in SignalLines(f, id),
         NEW i \in 0..f[k].length - 1
  PROVE  Cell(SignalOf(f[k]), i) = DbcCell(f[k], i) /\ DbcCell(f[k], i)[1] \in 0..7
<1>1. k \in DOMAIN f /\ f[k].kind = "SG"
  BY SoundLine
<1>2. f[k].start \in 0..63 /\ f[k].length \in 1..24 /\ f[k].order \in {0, 1}
  BY SoundLine
<1>3. \A x \in 1..24 : x \in Nat \ {0}
  OBVIOUS
<1>4. f[k].length \in Nat \ {0}
  BY <1>2, <1>3, Zenon
<1>5. Cell(SignalOf(f[k]), i) = DbcCell(f[k], i)
  BY <1>2, <1>4, LayoutConverted
<1>6. DbcCell(f[k], i)[1] \in 0..7
  BY <1>1, FileIsSequence DEF WellFormed
<1> QED
  BY <1>5, <1>6

\* The database of a file that was read has its messages, with their signals at their
\* places (CanDbc::parse).
LEMMA DbIsTheFile == DbInv => DatabaseIsTheFile
<1> SUFFICES ASSUME DbInv PROVE DatabaseIsTheFile
  OBVIOUS
<1>0. /\ aborted = "terminate" => read < Len(file) /\ Throws(file[read + 1])
      /\ aborted = "fault" => read < Len(file) /\ PastTheEnd(file[read + 1])
  BY DEF DbInv, EndsAt
<1> SUFFICES ASSUME read = Len(file) PROVE
      /\ \A k \in DOMAIN file : ~Throws(file[k])
      /\ MessageIds \subseteq DOMAIN can_db /\ DOMAIN can_db \subseteq MessageIds \cup {0}
      /\ \A id \in MessageIds : Sound(file, id) =>
           /\ Len(can_db[id].signals) = Cardinality(SignalLines(file, id))
           /\ \A k \in SignalLines(file, id) :
                LET signal == can_db[id].signals[Rank(SignalLines(file, id), k)] IN
                /\ signal.name = file[k].name /\ signal.defined
                /\ \A i \in 0..file[k].length - 1 : Cell(signal, i) = DbcCell(file[k], i)
  BY <1>0 DEF DatabaseIsTheFile
<1>1. file \in Files /\ DOMAIN file = 1..Len(file) /\ \A k \in DOMAIN file : ~Throws(file[k])
  BY FileIsSequence DEF DbInv, EndsAt
<1>2. MessageIds \subseteq DOMAIN can_db /\ DOMAIN can_db \subseteq MessageIds \cup {0}
  BY <1>1 DEF DbInv, Holds, MessageIds
<1>3. ASSUME NEW id \in MessageIds, Sound(file, id)
      PROVE  /\ Len(can_db[id].signals) = Cardinality(SignalLines(file, id))
             /\ \A k \in SignalLines(file, id) :
                  /\ can_db[id].signals[Rank(SignalLines(file, id), k)] = SignalOf(file[k])
                  /\ SignalOf(file[k]).name = file[k].name /\ SignalOf(file[k]).defined
                  /\ \A i \in 0..file[k].length - 1 :
                       Cell(SignalOf(file[k]), i) = DbcCell(file[k], i)
  <2>1. Known(file, id, read) = SignalLines(file, id)
    BY <1>1 DEF Known, SignalLines
  <2>2. MessageOK(file, can_db[id], id, read)
    BY <1>2 DEF DbInv
  <2>3. ASSUME NEW k \in SignalLines(file, id)
        PROVE  /\ SignalOf(file[k]).name = file[k].name /\ SignalOf(file[k]).defined
               /\ \A i \in 0..file[k].length - 1 :
                    Cell(SignalOf(file[k]), i) = DbcCell(file[k], i)
    BY <1>1, <1>3, SoundLine, SoundCell
  <2> QED
    BY <1>3, <2>1, <2>2, <2>3 DEF MessageOK
<1> QED
  BY <1>1, <1>2, <1>3

\* DatabaseIsTheFile is an invariant: for every file as in WellFormed, in which lines of
\* all kinds may be misread, throw or have too few tokens, and signals may overlap.
THEOREM ParsedAsWritten == SpecMapping => []DatabaseIsTheFile
<1>1. InitMapping => DbInv
  BY DbInit DEF InitMapping
<1> QED
  BY <1>1, DbNext, DbIsTheFile, PTL DEF SpecMapping

-----------------------------------------------------------------------------
(* Places in a sequence.                                                   *)

\* Each number of a set has a rank of its own, and each rank is that of a number.
LEMMA Ranked ==
  ASSUME NEW n \in Nat, NEW S, S \subseteq 1..n
  PROVE  /\ IsFiniteSet(S) /\ Cardinality(S) \in Nat
         /\ \A i \in S : Rank(S, i) \in 1..Cardinality(S)
         /\ \A i, j \in S : Rank(S, i) = Rank(S, j) => i = j
         /\ \A p \in 1..Cardinality(S) : \E i \in S : Rank(S, i) = p
<1> DEFINE Upto(i) == {j \in S : j <= i}  c == Cardinality(S)
<1>1. IsFiniteSet(S) /\ c \in Nat /\ \A i \in S : i \in Int
  <2>1. IsFiniteSet(1..n)
    BY FS_Interval
  <2>2. S \in SUBSET (1..n)
    OBVIOUS
  <2>3. IsFiniteSet(S)
    BY <2>1, <2>2, FS_Subset
  <2> QED
    BY <2>3, FS_CardinalityType
<1>2. ASSUME NEW i \in S
      PROVE  /\ IsFiniteSet(Upto(i)) /\ Rank(S, i) = Cardinality(Upto(i))
             /\ Rank(S, i) \in 1..c /\ i \in Upto(i)
  <2>1. Upto(i) \in SUBSET S /\ i \in Upto(i) /\ Rank(S, i) = Cardinality(Upto(i))
    BY <1>1 DEF Rank
  <2> HIDE DEF Upto
  <2>2. IsFiniteSet(Upto(i)) /\ Cardinality(Upto(i)) <= c
    BY <1>1, <2>1, FS_Subset
  <2>3. Cardinality(Upto(i)) \in Nat /\ Cardinality(Upto(i)) # 0
    BY <2>1, <2>2, FS_CardinalityType, FS_EmptySet
  <2> QED
    BY <1>1, <2>1, <2>2, <2>3
<1>3. ASSUME NEW i \in S, NEW j \in S, Rank(S, i) = Rank(S, j) PROVE i <= j
  <2> SUFFICES ASSUME ~(i <= j) PROVE FALSE
    OBVIOUS
  <2>1. Upto(j) \in SUBSET Upto(i) /\ i \notin Upto(j)
    <3>1. i \in Int /\ j \in Int /\ j < i
      BY <1>1
    <3>2. \A x \in S : x <= j => x <= i
      BY <1>1, <3>1
    <3> QED
      BY <3>1, <3>2
  <2>2. Upto(i) = Upto(j)
    <3> HIDE DEF Upto
    <3> QED
      BY <1>2, <1>3, <2>1, FS_Subset
  <2> QED
    BY <1>2, <2>1, <2>2
<1>4. \A i, j \in S : Rank(S, i) = Rank(S, j) => i = j
  BY <1>1, <1>3
<1>5. ASSUME NEW p \in 1..c PROVE \E i \in S : Rank(S, i) = p
  <2> SUFFICES ASSUME \A i \in S : Rank(S, i) # p PROVE FALSE
    OBVIOUS
  <2> DEFINE T == (1..c) \ {p}  f == [i \in S |-> Rank(S, i)]
  <2> HIDE DEF c
  <2>1. IsFiniteSet(1..c) /\ Cardinality(1..c) = c
    BY <1>1, FS_Interval
  <2>2. IsFiniteSet(T) /\ Cardinality(T) = c - 1
    BY <2>1, FS_RemoveElement
  <2>3. f \in [S -> T]
    BY <1>2
  <2> HIDE DEF T, f
  <2>4. Cardinality(T) < Cardinality(S)
    BY <1>1, <2>2 DEF c
  <2>5. PICK x, y \in S : x # y /\ f[x] = f[y]
    BY <1>1, <2>2, <2>3, <2>4, FS_PigeonHole
  <2> QED
    BY <1>4, <2>5 DEF f
<1> QED
  BY <1>1, <1>2, <1>4, <1>5

\* The elements at some places of a sequence, in their order: each is there once.
LEMMA Chosen ==
  ASSUME NEW s, NEW n \in Nat, NEW S, S \subseteq 1..n
  PROVE  /\ DOMAIN At(s, S) = 1..Cardinality(S)
         /\ \A i \in S : At(s, S)[Rank(S, i)] = s[i]
<1>1. /\ Cardinality(S) \in Nat
      /\ \A i \in S : Rank(S, i) \in 1..Cardinality(S)
      /\ \A i, j \in S : Rank(S, i) = Rank(S, j) => i = j
  BY Ranked
<1>2. ASSUME NEW i \in S PROVE At(s, S)[Rank(S, i)] = s[i]
  <2>1. (CHOOSE j \in S : Rank(S, j) = Rank(S, i)) = i
    BY <1>1
  <2> QED
    BY <1>1, <2>1 DEF At
<1> QED
  BY <1>2 DEF At

\* The least of some numbers is one of them.
LEMMA MinIn ==
  ASSUME NEW T, T \subseteq Nat, T # {}
  PROVE  Min(T) \in T
<1>1. PICK n \in T : \A m \in T : n <= m
  BY Least
<1> QED
  BY <1>1 DEF Min

\* The greatest of some numbers of an interval is one of them, and none is greater.
LEMMA MaxIn ==
  ASSUME NEW n \in Nat, NEW T, T \subseteq 0..n, T # {}
  PROVE  Max(T) \in T /\ \A t \in T : t <= Max(T)
<1> DEFINE U == {n - t : t \in T}
<1>1. U \subseteq Nat /\ U # {}
  <2>1. ASSUME NEW t \in T PROVE n - t \in Nat
    <3>1. t \in 0..n
      OBVIOUS
    <3> QED
      BY <3>1
  <2> QED
    BY <2>1
<1>2. PICK u \in U : \A v \in U : u <= v
  <2> HIDE DEF U
  <2> QED
    BY <1>1, Least
<1>3. PICK m \in T : u = n - m
  OBVIOUS
<1>4. ASSUME NEW t \in T PROVE m >= t
  <2>1. n - m <= n - t
    BY <1>2, <1>3
  <2>2. n \in Int /\ m \in Int /\ t \in Int
    OBVIOUS
  <2> QED
    BY <2>1, <2>2
<1>5. Max(T) \in T /\ \A t \in T : Max(T) >= t
  BY <1>4 DEF Max
<1> QED
  BY <1>5

-----------------------------------------------------------------------------
(* ProcessCanMessage.                                                      *)

\* A signal of the database is one of the codec.
LEMMA DbSignalIsSignal ==
  ASSUME NEW s \in DbSignal
  PROVE  /\ IsSignal(s) /\ s.length \in 1..24 /\ s.name \in SignalName /\ s.defined \in BOOLEAN
         /\ s.factor \in Int /\ s.offset \in Int /\ s.is_multiplexer \in 0..2
BY DEF DbSignal, IsSignal

\* A power of 2 is positive.
LEMMA PowerPositive ==
  ASSUME NEW k \in Nat
  PROVE  2^k \in Nat \ {0}
<1>1. IsFiniteSet(1..k) /\ Cardinality(1..k) = k
  BY FS_Interval
<1>2. IsFiniteSet(SUBSET (1..k)) /\ Cardinality(SUBSET (1..k)) = 2^k
  BY <1>1, FS_SUBSET
<1>3. SUBSET (1..k) # {}
  OBVIOUS
<1> QED
  BY <1>2, <1>3, FS_CardinalityType, FS_EmptySet

\* A float of whole units is a number.
LEMMA FloatIsInt ==
  ASSUME NEW n \in Int
  PROVE  ToFloat(n) \in Int
<1> DEFINE m == IF n < 0 THEN -n ELSE n
           T == {0} \cup {k \in 1..104 : 2^(23 + k) < m}
           spacing == 2^Max(T)
           below == n \div spacing
           rest == n % spacing
           up == 2 * rest > spacing \/ (2 * rest = spacing /\ below % 2 = 1)
<1>1. Max(T) \in Nat
  <2>1. T \subseteq 0..104 /\ T # {}
    OBVIOUS
  <2> HIDE DEF T
  <2>2. 104 \in Nat
    OBVIOUS
  <2>3. Max(T) \in T
    BY <2>1, <2>2, MaxIn
  <2>4. Max(T) \in 0..104
    BY <2>1, <2>3
  <2> QED
    BY <2>4
<1> HIDE DEF T
<1>2. spacing \in Nat \ {0}
  BY <1>1, PowerPositive
<1>3. ToFloat(n) = IF IsExact(n) THEN n ELSE spacing * (IF up THEN below + 1 ELSE below)
  BY DEF ToFloat, T
<1> HIDE DEF spacing
<1>4. below \in Int
  BY <1>2
<1> HIDE DEF below, up
<1>5. spacing * (below + 1) \in Int /\ spacing * below \in Int
  BY <1>2, <1>4
<1> QED
  BY <1>3, <1>5

\* What is reported of a signal.
Report == [name : SignalName, defined : BOOLEAN, value : Int]

\* It has its types, whatever value nobody has written.
LEMMA ReportTyped ==
  ASSUME NEW s \in DbSignal, NEW x, NEW junk \in Int
  PROVE  /\ Reported(s, ToPhysicalValue(x, s), junk) \in Report
         /\ Reported(s, ToPhysicalValue(x, s), junk).name = s.name
<1> DEFINE value == ToPhysicalValue(x, s)
<1>1. value \in Int
  <2>1. Unsigned(x) \in Int /\ AsInt64(x) \in Int
    BY ValueIsInt DEF Unsigned, AsInt64
  <2>2. s.factor \in Int /\ s.offset \in Int
    BY DbSignalIsSignal
  <2> DEFINE number == IF s.signed THEN AsInt64(x) ELSE Unsigned(x)
  <2>3. number \in Int
    BY <2>1
  <2>4. ToPhysicalValue(x, s) = ToFloat(ToFloat(ToFloat(number) * s.factor) + s.offset)
    BY DEF ToPhysicalValue
  <2> HIDE DEF number
  <2>5. ToFloat(number) * s.factor \in Int
    BY <2>2, <2>3, FloatIsInt
  <2>6. ToFloat(ToFloat(number) * s.factor) + s.offset \in Int
    BY <2>2, <2>5, FloatIsInt
  <2> QED
    BY <2>4, <2>6, FloatIsInt
<1> HIDE DEF value
<1>2. s.name \in SignalName /\ s.defined \in BOOLEAN
  BY DbSignalIsSignal
<1>3. Reported(s, value, junk) \in Report
  BY <1>1, <1>2 DEF Reported, Report
<1>4. Reported(s, value, junk).name = s.name
  BY DEF Reported
<1> QED
  BY <1>3, <1>4 DEF value

\* The parts of process(): the multiplexer, its number, and the signals decoded.
Muxers(msg) == {k \in DOMAIN msg.signals : msg.signals[k].is_multiplexer = 1}
Muxer(msg) == msg.signals[Min(Muxers(msg))]
MuxerVal(data, msg, shifting) ==
  IF Muxers(msg) = {} THEN {} ELSE ExtractSignal(data, Muxer(msg), shifting) \cap (0..31)
First(data, msg, shifting, junk) ==
  IF ~msg.is_multiplexed \/ Muxers(msg) = {} THEN <<>>
  ELSE <<Reported(Muxer(msg), ToPhysicalValue(MuxerVal(data, msg, shifting), Muxer(msg)), junk)>>
InSecondLoop(data, msg, shifting) ==
  {k \in DOMAIN msg.signals :
     msg.is_multiplexed => Selected(msg.signals[k], MuxerVal(data, msg, shifting))}

\* One sequence behind another.
LEMMA Joined ==
  ASSUME NEW S, NEW a \in Seq(S), NEW b \in Seq(S), NEW c, c = a \o b
  PROVE  /\ c \in Seq(S) /\ Len(c) = Len(a) + Len(b)
         /\ \A j \in 1..Len(a) : c[j] = a[j]
         /\ \A k \in 1..Len(b) : c[Len(a) + k] = b[k]
<1>1. /\ c \in Seq(S) /\ Len(c) = Len(a) + Len(b) /\ Len(a) \in Nat /\ Len(b) \in Nat
      /\ \A i \in 1..Len(a) + Len(b) : c[i] = IF i <= Len(a) THEN a[i] ELSE b[i - Len(a)]
  BY ConcatProperties
<1>2. ASSUME NEW k \in 1..Len(b) PROVE c[Len(a) + k] = b[k]
  <2>1. Len(a) + k \in 1..Len(a) + Len(b) /\ ~(Len(a) + k <= Len(a)) /\ Len(a) + k - Len(a) = k
    BY <1>1
  <2> QED
    BY <1>1, <2>1
<1> QED
  BY <1>1, <1>2

\* What process() makes of a frame: the report of the multiplexer if there is one, then
\* those of the signals of the second loop, in their order.
Reports(out, first, loop, data, msg, shifting, junk) ==
  /\ out \in Seq(Report)
  /\ first \in Seq(Report) /\ Len(first) \in {0, 1}
  /\ loop \subseteq DOMAIN msg.signals
  /\ Cardinality(loop) \in Nat
  /\ DOMAIN out = 1..Len(first) + Cardinality(loop)
  /\ \A j \in 1..Len(first) : out[j] = first[j]
  /\ \A p \in loop :
       /\ Rank(loop, p) \in 1..Cardinality(loop)
       /\ out[Len(first) + Rank(loop, p)] = Decoded(data, msg.signals[p], shifting, junk)
  /\ \A c \in 1..Cardinality(loop) : \E p \in loop : Rank(loop, p) = c

\* What ProcessCanMessage returns, by the places of the signals in the message.
LEMMA Processed ==
  ASSUME NEW data, NEW msg, msg.signals \in Seq(DbSignal), NEW shifting, NEW junk \in Int,
         NEW out, out = Process(data, msg, shifting, junk),
         NEW first, first = First(data, msg, shifting, junk),
         NEW loop, loop = InSecondLoop(data, msg, shifting)
  PROVE  Reports(out, first, loop, data, msg, shifting, junk)
<1> DEFINE n == Len(msg.signals)  chosen == At(msg.signals, loop)  c == Cardinality(loop)
           rest == [k \in DOMAIN chosen |-> Decoded(data, chosen[k], shifting, junk)]
<1>1. DOMAIN msg.signals = 1..n /\ n \in Nat /\ \A p \in 1..n : msg.signals[p] \in DbSignal
  OBVIOUS
<1>2. out = first \o rest
  BY DEF Process, First, Muxers, Muxer, MuxerVal, InSecondLoop
<1>3. loop \subseteq 1..n
  BY <1>1 DEF InSecondLoop
<1>4. first \in Seq(Report) /\ Len(first) \in {0, 1}
  <2>1. CASE first = <<>>
    BY <2>1
  <2>2. CASE first # <<>>
    <3> DEFINE x == MuxerVal(data, msg, shifting)
               r == Reported(Muxer(msg), ToPhysicalValue(x, Muxer(msg)), junk)
    <3>1. Muxers(msg) # {} /\ first = <<r>>
      BY <2>2 DEF First
    <3>2. Muxers(msg) \subseteq Nat
      BY <1>1 DEF Muxers
    <3>3. Min(Muxers(msg)) \in 1..n
      BY <1>1, <3>1, <3>2, MinIn DEF Muxers
    <3>4. Muxer(msg) \in DbSignal
      BY <1>1, <3>3 DEF Muxer
    <3>5. r \in Report
      BY <3>4, ReportTyped
    <3> HIDE DEF r
    <3> QED
      BY <3>1, <3>5
  <2> QED
    BY <2>1, <2>2
<1>5. /\ c \in Nat /\ DOMAIN chosen = 1..c
      /\ \A p \in loop : Rank(loop, p) \in 1..c /\ chosen[Rank(loop, p)] = msg.signals[p]
      /\ \A k \in 1..c : \E p \in loop : Rank(loop, p) = k
  <2>1. /\ c \in Nat /\ \A p \in loop : Rank(loop, p) \in 1..c
        /\ \A k \in 1..c : \E p \in loop : Rank(loop, p) = k
    BY <1>1, <1>3, Ranked
  <2>2. /\ DOMAIN chosen = 1..c
        /\ \A p \in loop : chosen[Rank(loop, p)] = msg.signals[p]
    BY <1>1, <1>3, Chosen
  <2> QED
    BY <2>1, <2>2
<1> HIDE DEF chosen, c
<1>6. rest \in Seq(Report) /\ Len(rest) = c
  <2>1. ASSUME NEW k \in 1..c PROVE rest[k] \in Report
    <3>1. PICK p \in loop : Rank(loop, p) = k
      BY <1>5
    <3>2. rest[k] = Decoded(data, msg.signals[p], shifting, junk) /\ msg.signals[p] \in DbSignal
      BY <1>1, <1>3, <1>5, <3>1
    <3> QED
      BY <3>2, ReportTyped DEF Decoded, Decode
  <2>2. rest = [k \in 1..c |-> rest[k]]
    BY <1>5
  <2> HIDE DEF rest
  <2>3. rest \in [1..c -> Report]
    BY <2>1, <2>2
  <2> QED
    BY <1>5, <2>3
<1>7. \A p \in loop : rest[Rank(loop, p)] = Decoded(data, msg.signals[p], shifting, junk)
  BY <1>5
<1> HIDE DEF rest
<1>8. /\ out \in Seq(Report) /\ Len(out) = Len(first) + c
      /\ \A j \in 1..Len(first) : out[j] = first[j]
      /\ \A k \in 1..c : out[Len(first) + k] = rest[k]
  <2>1. first \in Seq(Report) /\ rest \in Seq(Report) /\ Len(rest) = c
    BY <1>4, <1>6
  <2>2. Len(out) = Len(first) + Len(rest)
    <3>1. Len(first \o rest) = Len(first) + Len(rest)
      BY <2>1
    <3> QED
      BY <1>2, <3>1, Zenon
  <2>a. out \in Seq(Report)
    BY <1>2, <2>1, Joined
  <2>3. \A j \in 1..Len(first) : out[j] = first[j]
    BY <1>2, <2>1, Joined
  <2>4. \A k \in 1..Len(rest) : out[Len(first) + k] = rest[k]
    BY <1>2, <2>1, Joined
  <2> QED
    BY <2>1, <2>2, <2>a, <2>3, <2>4
<1>9. DOMAIN out = 1..Len(first) + c
  BY <1>8
<1> QED
  BY <1>1, <1>3, <1>4, <1>5, <1>7, <1>8, <1>9 DEF c, Reports

\* The first report, if there is one, is that of a signal that is the multiplexer.
LEMMA FirstReport ==
  ASSUME NEW data, NEW msg, msg.signals \in Seq(DbSignal), NEW shifting, NEW junk \in Int,
         NEW first, first = First(data, msg, shifting, junk), first # <<>>
  PROVE  \E p \in DOMAIN msg.signals :
           /\ msg.signals[p].is_multiplexer = 1 /\ p = Min(Muxers(msg))
           /\ Len(first) = 1 /\ first[1].name = msg.signals[p].name
<1> DEFINE p == Min(Muxers(msg))
<1>1. Muxers(msg) # {} /\ Muxers(msg) \subseteq Nat
  BY DEF First, Muxers
<1>2. p \in DOMAIN msg.signals /\ msg.signals[p].is_multiplexer = 1
  BY <1>1, MinIn DEF Muxers
<1>3. msg.signals[p] \in DbSignal
  BY <1>2
<1> DEFINE r == Reported(msg.signals[p],
                        ToPhysicalValue(MuxerVal(data, msg, shifting), msg.signals[p]), junk)
<1>4. r.name = msg.signals[p].name
  BY <1>3, ReportTyped
<1>5. first = <<r>>
  BY DEF First, Muxer
<1> HIDE DEF r
<1>6. Len(first) = 1 /\ first[1] = r
  BY <1>5
<1> QED
  BY <1>2, <1>4, <1>6

\* Only signals of the message are reported.
LEMMA NamesReported ==
  ASSUME NEW data, NEW msg, msg.signals \in Seq(DbSignal), NEW shifting, NEW junk \in Int,
         NEW out, out = Process(data, msg, shifting, junk), NEW j \in DOMAIN out
  PROVE  \E p \in DOMAIN msg.signals : out[j].name = msg.signals[p].name
<1> DEFINE first == First(data, msg, shifting, junk)  loop == InSecondLoop(data, msg, shifting)
           c == Cardinality(loop)
<1>0. first = First(data, msg, shifting, junk) /\ loop = InSecondLoop(data, msg, shifting)
  OBVIOUS
<1> HIDE DEF first, loop
<1>1. /\ Len(first) \in {0, 1} /\ c \in Nat /\ DOMAIN out = 1..Len(first) + c
      /\ loop \subseteq DOMAIN msg.signals
      /\ \A i \in 1..Len(first) : out[i] = first[i]
      /\ \A p \in loop : out[Len(first) + Rank(loop, p)] =
              Decoded(data, msg.signals[p], shifting, junk)
      /\ \A k \in 1..c : \E p \in loop : Rank(loop, p) = k
  <2>1. Reports(out, first, loop, data, msg, shifting, junk)
    BY <1>0, Processed
  <2> QED
    BY <2>1 DEF Reports
<1>2. CASE j \in 1..Len(first)
  <2>1. first # <<>> /\ j = 1
    BY <1>1, <1>2
  <2>2. \E p \in DOMAIN msg.signals : first[1].name = msg.signals[p].name
    BY <1>0, <2>1, FirstReport
  <2> QED
    BY <1>1, <1>2, <2>1, <2>2
<1>3. CASE j \notin 1..Len(first)
  <2> HIDE DEF c
  <2>1. j - Len(first) \in 1..c /\ Len(first) + (j - Len(first)) = j
    BY <1>1, <1>3
  <2>2. PICK p \in loop : Rank(loop, p) = j - Len(first)
    BY <1>1, <2>1
  <2>3. out[j] = Decoded(data, msg.signals[p], shifting, junk)
    BY <1>1, <2>1, <2>2
  <2>4. p \in DOMAIN msg.signals /\ msg.signals[p] \in DbSignal
    BY <1>1
  <2> QED
    BY <2>3, <2>4 DEF Decoded, Reported
<1> QED
  BY <1>2, <1>3

\* No two signals have one name, and one of them is the multiplexer if any is.
Readable(msg) ==
  /\ msg.signals \in Seq(DbSignal)
  /\ msg.is_multiplexed <=> \E q \in DOMAIN msg.signals : msg.signals[q].is_multiplexer > 0
  /\ \A q, r \in DOMAIN msg.signals : msg.signals[q].name = msg.signals[r].name => q = r
  /\ \A q, r \in DOMAIN msg.signals :
       msg.signals[q].is_multiplexer = 1 /\ msg.signals[r].is_multiplexer = 1 => q = r

\* One report has a name, and it is this one.
OnlyReport(out, name, report) ==
  \E j \in DOMAIN out : {i \in DOMAIN out : out[i].name = name} = {j} /\ out[j] = report

\* A signal that is not multiplexed is reported once, decoded, if the multiplexer fits
\* into an unsigned int.
LEMMA ReportedOnce ==
  ASSUME NEW data, NEW msg, Readable(msg), NEW shifting, NEW junk \in Int,
         NEW out, out = Process(data, msg, shifting, junk),
         NEW p \in DOMAIN msg.signals, msg.signals[p].is_multiplexer # 2,
         msg.signals[p].is_multiplexer = 1 =>
           ExtractSignal(data, msg.signals[p], shifting) \subseteq 0..31
  PROVE  OnlyReport(out, msg.signals[p].name, Decoded(data, msg.signals[p], shifting, junk))
<1>a. /\ msg.signals \in Seq(DbSignal)
      /\ msg.is_multiplexed <=> \E q \in DOMAIN msg.signals : msg.signals[q].is_multiplexer > 0
      /\ \A q, r \in DOMAIN msg.signals : msg.signals[q].name = msg.signals[r].name => q = r
      /\ \A q, r \in DOMAIN msg.signals :
           msg.signals[q].is_multiplexer = 1 /\ msg.signals[r].is_multiplexer = 1 => q = r
  BY DEF Readable
<1> DEFINE first == First(data, msg, shifting, junk)  loop == InSecondLoop(data, msg, shifting)
           c == Cardinality(loop)  report == Decoded(data, msg.signals[p], shifting, junk)
<1>0. first = First(data, msg, shifting, junk) /\ loop = InSecondLoop(data, msg, shifting)
  OBVIOUS
<1> HIDE DEF first, loop
<1>1. /\ Len(first) \in {0, 1} /\ c \in Nat /\ DOMAIN out = 1..Len(first) + c
      /\ loop \subseteq DOMAIN msg.signals
      /\ \A i \in 1..Len(first) : out[i] = first[i]
      /\ \A q \in loop : /\ Rank(loop, q) \in 1..c
                         /\ out[Len(first) + Rank(loop, q)] =
                                  Decoded(data, msg.signals[q], shifting, junk)
      /\ \A k \in 1..c : \E q \in loop : Rank(loop, q) = k
  <2>1. Reports(out, first, loop, data, msg, shifting, junk)
    BY <1>a, <1>0, Processed
  <2> QED
    BY <2>1 DEF Reports
<1>2. ASSUME NEW i \in DOMAIN out, i \notin 1..Len(first), out[i].name = msg.signals[p].name
      PROVE  p \in loop /\ i = Len(first) + Rank(loop, p)
  <2> HIDE DEF c
  <2>1. i - Len(first) \in 1..c /\ Len(first) + (i - Len(first)) = i
    BY <1>1, <1>2
  <2>2. PICK q \in loop : Rank(loop, q) = i - Len(first)
    BY <1>1, <2>1
  <2>3. out[i] = Decoded(data, msg.signals[q], shifting, junk) /\ q \in DOMAIN msg.signals
    BY <1>1, <2>1, <2>2
  <2>4. out[i].name = msg.signals[q].name
    BY <2>3 DEF Decoded, Reported
  <2>5. q = p
    BY <1>a, <1>2, <2>3, <2>4
  <2> QED
    BY <2>1, <2>2, <2>5
<1>3. report.name = msg.signals[p].name
  BY DEF Decoded, Reported
<1>4. p \in loop <=> (msg.is_multiplexed =>
                          Selected(msg.signals[p], MuxerVal(data, msg, shifting)))
  BY <1>0 DEF InSecondLoop
<1>5. CASE msg.signals[p].is_multiplexer = 1
  <2>1. msg.is_multiplexed /\ Muxers(msg) = {p}
    BY <1>a, <1>5 DEF Muxers
  <2>2. Min(Muxers(msg)) = p
    BY <2>1 DEF Min
  <2>3. MuxerVal(data, msg, shifting) = ExtractSignal(data, msg.signals[p], shifting)
    BY <1>5, <2>1, <2>2 DEF MuxerVal, Muxer
  <2>4. first = <<report>>
    BY <1>0, <2>1, <2>2, <2>3 DEF First, Muxer, Decoded, Decode
  <2>5. p \notin loop
    BY <1>4, <1>5, <2>1 DEF Selected
  <2> HIDE DEF c, report
  <2>6. 1 \in DOMAIN out /\ out[1] = report /\ Len(first) = 1
    BY <1>1, <2>4
  <2>7. \A i \in DOMAIN out : out[i].name = msg.signals[p].name <=> i = 1
    BY <1>2, <1>3, <2>5, <2>6
  <2> QED
    BY <2>6, <2>7 DEF report, OnlyReport
<1>6. CASE msg.signals[p].is_multiplexer # 1
  <2>1. msg.signals[p].is_multiplexer = 0
    <3>1. msg.signals[p] \in DbSignal
      BY <1>a
    <3> QED
      BY <1>6, <3>1, DbSignalIsSignal
  <2>2. p \in loop
    BY <1>4, <2>1 DEF Selected
  <2> DEFINE j == Len(first) + Rank(loop, p)
  <2>3. ASSUME NEW i \in 1..Len(first) PROVE out[i].name # msg.signals[p].name
    <3>1. first # <<>> /\ i = 1
      BY <1>1
    <3>2. PICK q \in DOMAIN msg.signals :
            msg.signals[q].is_multiplexer = 1 /\ first[1].name = msg.signals[q].name
      BY <1>a, <1>0, <3>1, FirstReport
    <3> QED
      BY <1>a, <1>1, <1>6, <3>1, <3>2
  <2> HIDE DEF c, report
  <2>4. j \in DOMAIN out /\ out[j] = report
    BY <1>1, <2>2 DEF report
  <2>5. \A i \in DOMAIN out : out[i].name = msg.signals[p].name <=> i = j
    BY <1>2, <1>3, <2>3, <2>4
  <2> HIDE DEF j
  <2> QED
    BY <2>4, <2>5 DEF report, OnlyReport
<1> QED
  BY <1>5, <1>6

-----------------------------------------------------------------------------
(* The frame that is sent.                                                 *)

\* Two signals of a message have two names, and one of them at most is the multiplexer.
LEMMA OthersDiffer ==
  ASSUME NEW f \in Files, NEW id, NEW k \in SignalLines(f, id), NEW l \in SignalLines(f, id),
         k # l
  PROVE  f[k].name # f[l].name /\ ~(f[k].mux = "M" /\ f[l].mux = "M")
<1>1. PICK i \in DOMAIN f : Owns(f, i, k) /\ f[i].id = id
  BY DEF SignalLines
<1>2. PICK j \in DOMAIN f : Owns(f, j, l) /\ f[j].id = id
  BY DEF SignalLines
<1>3. i = j
  BY <1>1, <1>2, FileIsSequence DEF Owns, WellFormed
<1>4. k \in DOMAIN f /\ l \in DOMAIN f /\ f[k].kind = "SG" /\ f[l].kind = "SG"
  BY DEF SignalLines
<1> QED
  BY <1>1, <1>2, <1>3, <1>4, FileIsSequence DEF WellFormed

\* Only one bit of a signal lies in a cell.
LEMMA OneBit ==
  ASSUME NEW f \in Files, NEW id, Sound(f, id), NEW k \in SignalLines(f, id),
         NEW i \in 0..f[k].length - 1, NEW j \in 0..f[k].length - 1,
         DbcCell(f[k], i) = DbcCell(f[k], j)
  PROVE  i = j
<1> DEFINE s == SignalOf(f[k])
<1>1. IsSignal(s) /\ i \in Nat /\ j \in Nat
  BY SoundLine, DbSignalIsSignal
<1>2. Cell(s, i) = DbcCell(f[k], i) /\ Cell(s, j) = DbcCell(f[k], j)
  BY SoundCell
<1>3. Cell(s, i) = <<Cell(s, i)[1], Cell(s, i)[2]>> /\ Cell(s, i)[2] \in Byte
        /\ Cell(s, i)[1] \in Int
  <2>1. s.start \in Int
    BY <1>1 DEF IsSignal
  <2> HIDE DEF s
  <2>2. s.start \div 8 \in Int /\ s.start % 8 \in Int
    BY <2>1
  <2>3. (s.start % 8) + i \in Int
    BY <1>1, <2>2
  <2>4. ((s.start % 8) + i) \div 8 \in Int /\ ((s.start % 8) + i) % 8 \in 0..7
    BY <2>3
  <2> QED
    BY <2>2, <2>4 DEF Cell, Byte
<1> HIDE DEF s
<1>4. i = BitAt(s, Cell(s, i)[1], Cell(s, i)[2])
  BY <1>1, <1>3, CellAt
<1>5. j = BitAt(s, Cell(s, i)[1], Cell(s, i)[2])
  BY <1>1, <1>2, <1>3, CellAt
<1> QED
  BY <1>4, <1>5

\* The frame has 8 bytes, and the bits of a signal that has them for itself are in its
\* cells.
LEMMA DataSent ==
  ASSUME file \in Files, NEW id, Sound(file, id), NEW g, NEW k \in SignalLines(file, id),
         Alone(file, id, k)
  PROVE  Data(id, g) \in Frame
         /\ Read(Data(id, g), SignalOf(file[k])) = g[k] \cap (0..file[k].length - 1)
<1> DEFINE len == file[k].length  s == SignalOf(file[k])  data == Data(id, g)
<1>1. data \in Frame
  BY DEF Data, Frame
<1>2. IsSignal(s) /\ s.length = len /\ s \in DbSignal
  <2>1. IsSignal(s) /\ s \in DbSignal
    BY SoundLine, DbSignalIsSignal
  <2> QED
    BY <2>1 DEF SignalOf
<1>3. ASSUME NEW i \in 0..len - 1
      PROVE  Cell(s, i)[2] \in data[Cell(s, i)[1]] <=> i \in g[k]
  <2> DEFINE b == Cell(s, i)[1]  bit == Cell(s, i)[2]
  <2>1. Cell(s, i) = DbcCell(file[k], i) /\ b \in 0..7
    BY SoundCell
  <2>2. Cell(s, i) = <<b, bit>> /\ bit \in Byte
    <3> HIDE DEF s, data
    <3>1. i \in Int /\ s.start % 8 \in Int
      BY <1>2 DEF IsSignal
    <3>2. (s.start % 8) + i \in Int
      BY <3>1
    <3>3. ((s.start % 8) + i) % 8 \in 0..7
      BY <3>2
    <3> QED
      BY <3>3 DEF Cell, Byte
  <2> HIDE DEF b, bit, s
  <2>3. bit \in data[b] <=> \E l \in SignalLines(file, id) :
                              \E j \in g[l] \cap (0..file[l].length - 1) :
                                  DbcCell(file[l], j) = <<b, bit>>
    BY <2>1, <2>2 DEF Data
  <2> HIDE DEF data
  <2>4. ASSUME NEW l \in SignalLines(file, id), NEW j \in g[l] \cap (0..file[l].length - 1),
               DbcCell(file[l], j) = <<b, bit>>
        PROVE  i \in g[k]
    <3>1. CASE l = k
      <4>1. j \in 0..file[k].length - 1 /\ j \in g[k]
        BY <2>4, <3>1
      <4>2. DbcCell(file[k], i) = DbcCell(file[k], j)
        BY <2>1, <2>2, <2>4, <3>1
      <4>3. i = j
        BY <4>1, <4>2, OneBit
      <4> QED
        BY <4>1, <4>3
    <3>2. CASE l # k
      <4>1. DbcCell(file[k], i) # DbcCell(file[l], j)
        BY <3>2 DEF Alone
      <4> QED
        BY <2>1, <2>2, <2>4, <4>1
    <3> QED
      BY <3>1, <3>2
  <2>5. ASSUME i \in g[k] PROVE bit \in data[b]
    BY <2>1, <2>2, <2>3, <2>5
  <2> QED
    BY <2>3, <2>4, <2>5 DEF b, bit
<1> QED
  BY <1>1, <1>2, <1>3 DEF Read

\* Which signals the decoder takes for multiplexers and for multiplexed.
LEMMA SoundMuxType ==
  ASSUME NEW f \in Files, NEW id, Sound(f, id), NEW k \in SignalLines(f, id)
  PROVE  /\ SignalOf(f[k]).is_multiplexer = 1 => f[k].mux = "M"
         /\ SignalOf(f[k]).is_multiplexer = 2 => f[k].mux = "m"
BY SoundLine DEF SignalOf, MuxType

\* A number, its product and the sum are exact, if those of the largest number are.
LEMMA AllExact ==
  ASSUME NEW m \in Nat, NEW n \in -m..m, NEW factor \in Int, NEW offset \in Int,
         \A x \in {-factor, factor, 1}, y \in {-offset, offset} : m * x + y <= 2^24
  PROVE  IsExact(n) /\ IsExact(n * factor) /\ IsExact(n * factor + offset)
<1> DEFINE most == 2^24
<1>1. /\ m * factor + offset <= most /\ m * factor + (-offset) <= most
      /\ m * (-factor) + offset <= most /\ m * (-factor) + (-offset) <= most
      /\ m * 1 + offset <= most /\ m * 1 + (-offset) <= most
  OBVIOUS
<1>2. most \in Int
  OBVIOUS
<1> HIDE DEF most
<1> DEFINE p == n * factor  q == m * factor
<1>3. m * (-factor) = -q /\ p \in Int /\ q \in Int
  OBVIOUS
<1>4. (-q <= p /\ p <= q) \/ (q <= p /\ p <= -q)
  <2>1. CASE factor >= 0
    BY <2>1
  <2>2. CASE factor < 0
    BY <2>2
  <2> QED
    BY <2>1, <2>2
<1> HIDE DEF p, q
<1>5. n <= most /\ -n <= most
  BY <1>1, <1>2
<1>6. p + offset <= most /\ -(p + offset) <= most /\ p <= most /\ -p <= most
  BY <1>1, <1>2, <1>3, <1>4 DEF q
<1> QED
  BY <1>2, <1>3, <1>5, <1>6 DEF IsExact, most, p

\* The decoder makes the physical value of the number that was sent, of a signal that has
\* its bits for itself.
LEMMA ValueSent ==
  ASSUME file \in Files, NEW id, Sound(file, id), NEW g, NEW k \in SignalLines(file, id),
         NEW shifting
  PROVE  /\ Alone(file, id, k) =>
              Decode(Data(id, g), SignalOf(file[k]), shifting) = Physical(g[k], file[k])
         /\ file[k].mux = "M" => ExtractSignal(Data(id, g), SignalOf(file[k]), shifting)
                \subseteq 0..31
<1> DEFINE len == file[k].length  s == SignalOf(file[k])  data == Data(id, g)
<1>1. s \in DbSignal /\ IsSignal(s) /\ len \in 1..24
  BY SoundLine, DbSignalIsSignal
<1>2. /\ s.length = len /\ s.signed = file[k].signed
      /\ s.factor = file[k].factor /\ s.offset = file[k].offset
  BY DEF SignalOf
<1>3. data \in Frame
  BY DEF Data, Frame
<1>4. Fits(s)
  <2>1. \A i \in 0..s.length - 1 : Cell(s, i)[1] \in 0..7
    BY <1>2, SoundCell
  <2> HIDE DEF s
  <2> QED
    BY <2>1 DEF Fits, Cells
<1> HIDE DEF s, data
<1>5. s.length <= 32
  <2> HIDE DEF len
  <2> QED
    BY <1>1, <1>2
<1>6. ASSUME Alone(file, id, k) PROVE Decode(data, s, shifting) = Physical(g[k], file[k])
  <2> DEFINE n == Value(Read(data, s), s.length, s.signed)  m == Largest(len) + 1
  <2>1. Read(data, s) = g[k] \cap (0..len - 1)
    BY <1>6, DataSent DEF s, data
  <2>2. n = Value(g[k], s.length, s.signed)
    BY <1>1, <1>2, <2>1, LowBits
  <2>3. s.signed \in BOOLEAN /\ s.factor \in Int /\ s.offset \in Int
    BY <1>1, DbSignalIsSignal DEF IsSignal
  <2>4. Largest(len) \in Int /\ n \in -Largest(len) - 1..Largest(len)
    <3>1. s.length \in 0..64
      BY <1>1, <1>2
    <3> QED
      BY <1>2, <2>3, <3>1, ValueRange
  <2>5. \A x \in {-s.factor, s.factor, 1}, y \in {-s.offset, s.offset} : m * x + y <= 2^24
    <3>1. k \in DOMAIN file /\ file[k].kind = "SG"
      BY SoundLine
    <3> QED
      BY <1>2, <3>1, FileIsSequence DEF WellFormed
  <2>6. Decode(data, s, shifting) = Physical(Read(data, s), s)
    <3> HIDE DEF n
    <3>1. m \in Nat /\ n \in -m..m
      BY <2>4
    <3> HIDE DEF m
    <3>2. IsExact(n) /\ IsExact(n * s.factor) /\ IsExact(n * s.factor + s.offset)
      BY <2>3, <2>5, <3>1, AllExact
    <3> QED
      BY <1>1, <1>3, <1>4, <1>5, <2>3, <3>2, DecodedValue DEF n
  <2> QED
    BY <1>2, <2>2, <2>6 DEF Physical
<1>8. ASSUME file[k].mux = "M" PROVE ExtractSignal(data, s, shifting) \subseteq 0..31
  <2>1. ~s.signed
    <3>1. k \in DOMAIN file /\ file[k].kind = "SG"
      BY SoundLine
    <3>2. ~(file[k].mux = "M" /\ file[k].signed)
      BY <3>1, FileIsSequence DEF WellFormed
    <3> QED
      BY <1>2, <1>8, <3>2
  <2>2. ExtractSignal(data, s, shifting) = Extended(Read(data, s), s)
    BY <1>1, <1>3, <1>4, <1>5, Extracted
  <2>3. Extended(Read(data, s), s) \subseteq 0..s.length - 1
    BY <2>1 DEF Extended
  <2> HIDE DEF len
  <2> QED
    BY <1>1, <1>2, <2>2, <2>3
<1> QED
  BY <1>6, <1>8 DEF s, data

\* The reports are those of the signals of a message, with the numbers g in them where
\* signals do not overlap.
AreOf(out, f, id, g) ==
  /\ \A j \in DOMAIN out : \E k \in SignalLines(f, id) : f[k].name = out[j].name
  /\ \A k \in SignalLines(f, id) : f[k].mux # "m" =>
       \E j \in DOMAIN out :
         /\ {i \in DOMAIN out : out[i].name = f[k].name} = {j}
         /\ Alone(f, id, k) => out[j].value = Physical(g[k], f[k])

\* process() reports what was sent in a sound message.
LEMMA AsSent ==
  ASSUME DbInv, read = Len(file), NEW id \in DOMAIN can_db, Sound(file, id), NEW g,
         NEW shifting, NEW junk \in Int,
         NEW out, out = Process(Data(id, g), can_db[id], shifting, junk)
  PROVE  AreOf(out, file, id, g)
<1> DEFINE L == SignalLines(file, id)  msg == can_db[id]  sigs == msg.signals  data == Data(id, g)
<1>1. file \in Files /\ Len(file) \in Nat /\ DOMAIN file = 1..Len(file)
  BY FileIsSequence DEF DbInv
<1>2. MessageOK(file, msg, id, Len(file)) /\ Known(file, id, Len(file)) = L
  <2>2. MessageOK(file, msg, id, Len(file))
    BY DEF DbInv
  <2>3. Known(file, id, Len(file)) = L
    BY <1>1 DEF Known, SignalLines
  <2> QED
    BY <2>2, <2>3
<1>3. /\ sigs \in Seq(DbSignal)
      /\ msg.is_multiplexed <=> \E q \in DOMAIN sigs : sigs[q].is_multiplexer > 0
      /\ Len(sigs) = Cardinality(L) /\ \A k \in L : sigs[Rank(L, k)] = SignalOf(file[k])
  BY <1>2 DEF MessageOK
<1>4. /\ \A k \in L : Rank(L, k) \in 1..Cardinality(L)
      /\ \A p \in 1..Cardinality(L) : \E k \in L : Rank(L, k) = p
  <2>1. L \subseteq 1..Len(file)
    BY <1>1 DEF SignalLines
  <2> HIDE DEF L
  <2> QED
    BY <1>1, <2>1, Ranked
<1> HIDE DEF sigs
<1>5. DOMAIN sigs = 1..Cardinality(L)
  BY <1>3
<1>6. ASSUME NEW k \in L
      PROVE  /\ sigs[Rank(L, k)].name = file[k].name /\ sigs[Rank(L, k)].defined
             /\ sigs[Rank(L, k)].is_multiplexer = 1 => file[k].mux = "M"
             /\ sigs[Rank(L, k)].is_multiplexer = 2 => file[k].mux = "m"
  BY <1>1, <1>3, SoundLine, SoundMuxType
<1>7. \A k, l \in L : k # l => file[k].name # file[l].name
                                 /\ ~(file[k].mux = "M" /\ file[l].mux = "M")
  BY <1>1, OthersDiffer
<1> HIDE DEF L
<1>8. ASSUME NEW q \in DOMAIN sigs, NEW r \in DOMAIN sigs,
             \/ sigs[q].name = sigs[r].name
             \/ sigs[q].is_multiplexer = 1 /\ sigs[r].is_multiplexer = 1
      PROVE  q = r
  <2>1. PICK k \in L : Rank(L, k) = q
    BY <1>4, <1>5
  <2>2. PICK l \in L : Rank(L, l) = r
    BY <1>4, <1>5
  <2>3. /\ sigs[q].name = file[k].name /\ (sigs[q].is_multiplexer = 1 => file[k].mux = "M")
        /\ sigs[r].name = file[l].name /\ (sigs[r].is_multiplexer = 1 => file[l].mux = "M")
    BY <1>6, <2>1, <2>2
  <2>4. k = l
    BY <1>7, <1>8, <2>3
  <2> QED
    BY <2>1, <2>2, <2>4
<1>9. ASSUME NEW j \in DOMAIN out PROVE \E k \in L : file[k].name = out[j].name
  <2>1. PICK p \in DOMAIN sigs : out[j].name = sigs[p].name
    BY <1>3, NamesReported DEF sigs
  <2>2. PICK k \in L : Rank(L, k) = p
    BY <1>4, <1>5
  <2> QED
    BY <1>6, <2>1, <2>2
<1>10. ASSUME NEW k \in L, file[k].mux # "m"
       PROVE  \E j \in DOMAIN out :
                /\ {i \in DOMAIN out : out[i].name = file[k].name} = {j}
                /\ Alone(file, id, k) => out[j].value = Physical(g[k], file[k])
  <2> DEFINE p == Rank(L, k)
  <2>1. p \in DOMAIN sigs /\ sigs[p] = SignalOf(file[k])
    BY <1>3, <1>4, <1>5
  <2>2. /\ Alone(file, id, k) => Decode(data, sigs[p], shifting) = Physical(g[k], file[k])
        /\ sigs[p].is_multiplexer = 1 => ExtractSignal(data, sigs[p], shifting) \subseteq 0..31
    <3>1. /\ Alone(file, id, k) =>
               Decode(data, SignalOf(file[k]), shifting) = Physical(g[k], file[k])
          /\ file[k].mux = "M" =>
               ExtractSignal(data, SignalOf(file[k]), shifting) \subseteq 0..31
      BY <1>1, <1>10, ValueSent DEF L
    <3> QED
      BY <1>6, <2>1, <3>1
  <2>3. sigs[p].is_multiplexer # 2 /\ sigs[p].name = file[k].name /\ sigs[p].defined
    BY <1>6, <1>10, <2>1
  <2> HIDE DEF p, data
  <2>4. Readable(msg)
    <3>1. \A q, r \in DOMAIN sigs : sigs[q].name = sigs[r].name => q = r
      BY <1>8
    <3>2. \A q, r \in DOMAIN sigs :
            sigs[q].is_multiplexer = 1 /\ sigs[r].is_multiplexer = 1 => q = r
      BY <1>8
    <3> HIDE DEF msg
    <3> QED
      BY <1>3, <3>1, <3>2 DEF sigs, Readable
  <2>5. OnlyReport(out, sigs[p].name, Decoded(data, sigs[p], shifting, junk))
    BY <2>1, <2>2, <2>3, <2>4, ReportedOnce DEF sigs, data
  <2>6. PICK j \in DOMAIN out :
           /\ {i \in DOMAIN out : out[i].name = sigs[p].name} = {j}
           /\ out[j] = Decoded(data, sigs[p], shifting, junk)
    BY <2>5 DEF OnlyReport
  <2>7. Alone(file, id, k) => out[j].value = Physical(g[k], file[k])
    BY <2>2, <2>3, <2>6 DEF Decoded, Reported
  <2> QED
    BY <2>3, <2>6, <2>7
<1> QED
  BY <1>9, <1>10 DEF L, AreOf

\* A frame that is received is decoded as it was sent, or of a message that is unknown.
LEMMA FrameReceived ==
  ASSUME DbInv, ReceiveAny
  PROVE  \E id, g, shifting : \E junk \in Int :
           /\ sent'.id = id /\ sent'.numbers = g /\ read = Len(file)
           /\ UNCHANGED <<file, read, frame_id, can_db, aborted>>
           /\ frames' = frames + 1 /\ frames < MaxFrames
           /\ \/ id \in DOMAIN can_db
                 /\ can_msg' = Process(Data(id, g), can_db[id], shifting, junk)
              \/ id \notin DOMAIN can_db /\ id \notin MessageIds /\ can_msg' = <<>>
<1>1. PICK id, n : Receive(id, n)
  BY DEF ReceiveAny
<1>2. PICK g \in Numbers(id, n), shifting \in Shifting, junk \in {-1, 0} :
        /\ sent' = [id |-> id, n |-> n, numbers |-> g]
        /\ can_msg' = IF id \in DOMAIN can_db
                      THEN Process(Data(id, g), can_db[id], shifting, junk)
                      ELSE <<>>
  BY <1>1 DEF Receive
<1>3. /\ read = Len(file) /\ frames < MaxFrames /\ frames' = frames + 1
      /\ UNCHANGED <<file, read, frame_id, can_db, aborted>>
  BY <1>1 DEF Receive
<1>4. MessageIds \subseteq DOMAIN can_db
  BY <1>3, DbIsTheFile DEF DatabaseIsTheFile
<1>5. sent'.id = id /\ sent'.numbers = g /\ junk \in Int
  BY <1>2
<1> QED
  BY <1>2, <1>3, <1>4, <1>5

\* A message that is not in the file has no signals.
LEMMA UnknownHasNone ==
  ASSUME NEW id, id \notin MessageIds
  PROVE  SignalLines(file, id) = {}
<1>1. ASSUME NEW k \in SignalLines(file, id) PROVE FALSE
  <2>1. PICK i \in DOMAIN file : Owns(file, i, k) /\ file[i].id = id
    BY DEF SignalLines
  <2>2. i \in DOMAIN file /\ file[i].kind = "BO"
    BY <2>1 DEF Owns
  <2> QED
    BY <2>1, <2>2 DEF MessageIds
<1> QED
  BY <1>1

\* What is decoded of the frame that is received is what was sent.
LEMMA ReceiveDecodes == ASSUME DbInv, ReceiveAny PROVE DecodesWhatWasSent'
<1>1. PICK id, g, shifting : \E junk \in Int :
           /\ sent'.id = id /\ sent'.numbers = g /\ read = Len(file)
           /\ UNCHANGED <<file, read, frame_id, can_db>>
           /\ \/ id \in DOMAIN can_db
                 /\ can_msg' = Process(Data(id, g), can_db[id], shifting, junk)
              \/ id \notin DOMAIN can_db /\ id \notin MessageIds /\ can_msg' = <<>>
  BY FrameReceived
<1>a. PICK junk \in Int :
           /\ sent'.id = id /\ sent'.numbers = g /\ read = Len(file)
           /\ UNCHANGED <<file, read, frame_id, can_db>>
           /\ \/ id \in DOMAIN can_db
                 /\ can_msg' = Process(Data(id, g), can_db[id], shifting, junk)
              \/ id \notin DOMAIN can_db /\ id \notin MessageIds /\ can_msg' = <<>>
  BY <1>1
<1> DEFINE out == can_msg'
<1>3. ASSUME Sound(file, id)
      PROVE  AreOf(out, file, id, g)
  <2>1. CASE id \in DOMAIN can_db
    <3>1. out = Process(Data(id, g), can_db[id], shifting, junk)
      BY <1>a, <2>1
    <3> HIDE DEF out
    <3> QED
      BY <1>a, <1>3, <2>1, <3>1, AsSent
  <2>2. CASE id \notin DOMAIN can_db
    <3>1. out = <<>> /\ SignalLines(file, id) = {}
      BY <1>a, <2>2, UnknownHasNone
    <3> HIDE DEF out
    <3>2. DOMAIN out = {}
      BY <3>1
    <3> QED
      BY <3>1, <3>2 DEF AreOf
  <2> QED
    BY <2>1, <2>2
<1> HIDE DEF out
<1>4. ASSUME Sound(file, id), NEW k \in SignalLines(file, id), file[k].mux # "m"
      PROVE  /\ Cardinality({j \in DOMAIN out : out[j].name = file[k].name}) = 1
             /\ Alone(file, id, k) =>
                  \A j \in {j \in DOMAIN out : out[j].name = file[k].name} :
                    out[j].value = Physical(g[k], file[k])
  <2>1. PICK j \in DOMAIN out :
           /\ {i \in DOMAIN out : out[i].name = file[k].name} = {j}
           /\ Alone(file, id, k) => out[j].value = Physical(g[k], file[k])
    BY <1>3, <1>4 DEF AreOf
  <2>2. Cardinality({j}) = 1
    BY FS_Singleton
  <2> QED
    BY <2>1, <2>2
<1>5. file' = file /\ sent'.id = id /\ sent'.numbers = g /\ can_msg' = out
  BY <1>a DEF out
<1> QED
  BY <1>3, <1>4, <1>5 DEF DecodesWhatWasSent, AreOf, Alone, SignalLines

\* What is decoded stays so.
LEMMA DecodedKept ==
  ASSUME DecodesWhatWasSent, UNCHANGED <<file, sent, frames, can_msg>>
  PROVE  DecodesWhatWasSent'
BY DEF DecodesWhatWasSent

\* Every step keeps what was reported equal to what was sent.
LEMMA DecodedNext ==
  ASSUME DbInv, DecodesWhatWasSent, [NextMapping]_allVars PROVE DecodesWhatWasSent'
<1>1. CASE Parse
  BY <1>1, DecodedKept DEF Parse
<1>2. CASE LoadVssPathYaml
  BY <1>2, DecodedKept DEF LoadVssPathYaml, vars
<1>3. CASE LoadVssDbcMapper
  BY <1>3, DecodedKept DEF LoadVssDbcMapper, vars
<1>4. CASE ReceiveFrame
  BY <1>4, ReceiveDecodes DEF ReceiveFrame
<1>5. CASE ProcessMessage
  BY <1>5, DecodedKept DEF ProcessMessage, vars
<1>6. CASE UNCHANGED allVars
  BY <1>6, DecodedKept DEF allVars, vars
<1> QED
  BY <1>1, <1>2, <1>3, <1>4, <1>5, <1>6 DEF NextMapping

\* DecodesWhatWasSent is an invariant: for every file and all numbers that are sent.
THEOREM DecodedAsSent == SpecMapping => []DecodesWhatWasSent
<1>1. InitMapping => DbInv /\ DecodesWhatWasSent
  <2>1. InitMapping => DbInv
    BY DbInit DEF InitMapping
  <2>2. InitMapping => DecodesWhatWasSent
    BY DEF InitMapping, Init, DecodesWhatWasSent
  <2> QED
    BY <2>1, <2>2
<1>2. DbInv /\ DecodesWhatWasSent /\ [NextMapping]_allVars => (DbInv /\ DecodesWhatWasSent)'
  BY DbNext, DecodedNext
<1> QED
  BY <1>1, <1>2, PTL DEF SpecMapping

-----------------------------------------------------------------------------
(* What the agent processes.                                               *)

\* A report names a signal of the message, or is that of a comment.
MsgInv ==
  /\ frames \in 0..MaxFrames /\ can_msg \in Seq(Report)
  /\ \A j \in DOMAIN can_msg : \/ can_msg[j].name = "SG_"
                              \/ \E k \in SignalLines(file, sent.id) :
                                   file[k].name = can_msg[j].name

\* The reports of a message of the database.
LEMMA ReportsTyped ==
  ASSUME NEW f \in Files, NEW msg, NEW id, NEW n, MessageOK(f, msg, id, n),
         NEW data, NEW shifting, NEW junk \in Int,
         NEW out, out = Process(data, msg, shifting, junk)
  PROVE  /\ out \in Seq(Report)
         /\ \A j \in DOMAIN out : \/ out[j].name = "SG_"
                                 \/ \E k \in SignalLines(f, id) : f[k].name = out[j].name
<1>1. msg.signals \in Seq(DbSignal)
  BY DEF MessageOK
<1>2. out \in Seq(Report)
  <2>1. Reports(out, First(data, msg, shifting, junk), InSecondLoop(data, msg, shifting),
                data, msg, shifting, junk)
    BY <1>1, Processed
  <2> QED
    BY <2>1 DEF Reports
<1>3. ASSUME NEW j \in DOMAIN out
      PROVE  out[j].name = "SG_" \/ \E k \in SignalLines(f, id) : f[k].name = out[j].name
  <2>1. PICK p \in DOMAIN msg.signals : out[j].name = msg.signals[p].name
    BY <1>1, NamesReported
  <2>2. PICK k \in DOMAIN f : /\ About(f, id, k) /\ f[k].kind \in {"SG", "CM"}
                            /\ msg.signals[p] = SignalOf(f[k])
    BY DEF MessageOK
  <2>3. CASE f[k].kind = "SG"
    <3>1. k \in SignalLines(f, id)
      BY <2>2, <2>3, SignalAbout
    <3>2. SignalOf(f[k]).name = f[k].name
      BY <2>3 DEF SignalOf
    <3> QED
      BY <2>1, <2>2, <3>1, <3>2
  <2>4. CASE f[k].kind = "CM"
    <3>1. SignalOf(f[k]).name = "SG_"
      BY <2>4 DEF SignalOf
    <3> QED
      BY <2>1, <2>2, <3>1
  <2> QED
    BY <2>2, <2>3, <2>4
<1> QED
  BY <1>2, <1>3

\* What a frame is decoded to has the types of a report, and a name of the file.
LEMMA MsgReceive == ASSUME DbInv, MsgInv, ReceiveAny PROVE MsgInv'
<1>1. PICK id, g, shifting : \E junk \in Int :
           /\ sent'.id = id /\ UNCHANGED <<file, read, frame_id, can_db>>
           /\ frames' = frames + 1 /\ frames < MaxFrames
           /\ \/ id \in DOMAIN can_db
                 /\ can_msg' = Process(Data(id, g), can_db[id], shifting, junk)
              \/ can_msg' = <<>>
  BY FrameReceived
<1>3. PICK junk \in Int :
           /\ sent'.id = id /\ UNCHANGED <<file, read, frame_id, can_db>>
           /\ frames' = frames + 1 /\ frames < MaxFrames
           /\ \/ id \in DOMAIN can_db
                 /\ can_msg' = Process(Data(id, g), can_db[id], shifting, junk)
              \/ can_msg' = <<>>
  BY <1>1
<1> DEFINE out == can_msg'
<1>4. /\ out \in Seq(Report)
      /\ \A j \in DOMAIN out : \/ out[j].name = "SG_"
                              \/ \E k \in SignalLines(file, id) : file[k].name = out[j].name
  <2>1. CASE id \in DOMAIN can_db /\ out = Process(Data(id, g), can_db[id], shifting, junk)
    <3> HIDE DEF out
    <3> QED
      BY <2>1, ReportsTyped DEF DbInv
  <2>2. CASE out = <<>>
    <3> HIDE DEF out
    <3> QED
      BY <2>2
  <2> QED
    BY <1>3, <2>1, <2>2
<1>5. frames' \in 0..MaxFrames
  BY <1>3, FilesAssumption DEF MsgInv
<1>6. file' = file /\ sent'.id = id /\ can_msg' = out
  BY <1>3
<1> HIDE DEF out
<1> QED
  BY <1>4, <1>5, <1>6 DEF MsgInv

\* The steps that receive nothing leave the report.
LEMMA MsgKept == ASSUME MsgInv, UNCHANGED <<file, sent, frames, can_msg>> PROVE MsgInv'
BY DEF MsgInv

\* Every step keeps the types of the report.
LEMMA MsgNext == ASSUME DbInv, MsgInv, [NextMapping]_allVars PROVE MsgInv'
<1>1. CASE Parse
  BY <1>1, MsgKept DEF Parse
<1>2. CASE LoadVssPathYaml
  BY <1>2, MsgKept DEF LoadVssPathYaml, vars
<1>3. CASE LoadVssDbcMapper
  BY <1>3, MsgKept DEF LoadVssDbcMapper, vars
<1>4. CASE ReceiveFrame
  BY <1>4, MsgReceive DEF ReceiveFrame
<1>5. CASE ProcessMessage
  BY <1>5, MsgKept DEF ProcessMessage, vars
<1>6. CASE UNCHANGED allVars
  BY <1>6, MsgKept DEF allVars, vars
<1> QED
  BY <1>1, <1>2, <1>3, <1>4, <1>5, <1>6 DEF NextMapping

\* At first nothing is reported.
LEMMA MsgInit == Init => MsgInv
<1> SUFFICES ASSUME Init PROVE MsgInv
  OBVIOUS
<1>1. frames = 0 /\ can_msg = <<>>
  BY DEF Init
<1> QED
  BY <1>1, FilesAssumption DEF MsgInv

\* The path of a signal is that of the last pair with its name that was read.
PathInv ==
  /\ \A i \in 1..vss_read.mapper :
       /\ mapper[i].dbc \in Name
       /\ \A j \in i + 1..vss_read.mapper : mapper[j].dbc # mapper[i].dbc
       => mapper[i].dbc \in DOMAIN m_dbc2vss_map /\ m_dbc2vss_map[mapper[i].dbc] = mapper[i].vss
  /\ \A d \in DOMAIN m_dbc2vss_map :
       d \in Name /\ d # "SG_" /\ m_dbc2vss_map[d] \in Name

\* The names of a pair.
LEMMA PairNames ==
  ASSUME NEW m \in Mappers, NEW i \in DOMAIN m
  PROVE  /\ m[i].vss \in Name /\ m[i].dbc \in STRING /\ m[i].dbc # "SG_"
<1>1. m \in Seq(NamePair)
  BY MappersAssumption
<1>2. m[i] \in NamePair
  BY <1>1
<1> QED
  BY <1>2 DEF NamePair

\* A pair with a name is put into the map, one without is not.
LEMMA PathPut ==
  ASSUME NEW pair, pair.dbc \in STRING
  PROVE  PathOf(pair) = IF pair.dbc \in Name THEN Put(m_dbc2vss_map, pair.dbc, pair.vss)
                        ELSE m_dbc2vss_map
<1>1. pair.dbc \in Name <=> pair.dbc # ""
  BY Zenon DEF Name
<1> QED
  BY <1>1, Zenon DEF PathOf

\* One more pair: the last path of a DBC name is the one its map gives.
LEMMA PathLoad == ASSUME MapInv, PathInv, LoadVssDbcMapper PROVE PathInv'
<1> DEFINE n == vss_read.mapper  pair == mapper[n + 1]  m == m_dbc2vss_map
<1>1. /\ mapper' = mapper /\ mapper \in Mappers /\ n \in Nat /\ n < Len(mapper)
      /\ n' = n + 1 /\ n + 1 \in DOMAIN mapper
  BY MapperIsSequence DEF MapInv, LoadVssDbcMapper
<1>2. pair.vss \in Name /\ pair.dbc \in STRING /\ pair.dbc # "SG_"
  BY <1>1, PairNames
<1>3. m' = PathOf(pair)
  BY DEF LoadVssDbcMapper
<1>4. m' = IF pair.dbc \in Name THEN Put(m, pair.dbc, pair.vss) ELSE m
  BY <1>2, <1>3, PathPut
<1>5. /\ pair.dbc \in Name =>
           /\ DOMAIN m' = DOMAIN m \cup {pair.dbc} /\ m'[pair.dbc] = pair.vss
           /\ \A d \in DOMAIN m : d # pair.dbc => m'[d] = m[d]
      /\ pair.dbc \notin Name => m' = m
  BY <1>4 DEF Put
<1> HIDE DEF m
<1>6. ASSUME NEW i \in 1..n + 1, mapper[i].dbc \in Name,
             \A j \in i + 1..n + 1 : mapper[j].dbc # mapper[i].dbc
      PROVE  mapper[i].dbc \in DOMAIN m' /\ m'[mapper[i].dbc] = mapper[i].vss
  <2>1. CASE i = n + 1
    BY <1>5, <1>6, <2>1
  <2>2. CASE i \in 1..n
    <3>1. mapper[i].dbc # pair.dbc
      BY <1>1, <1>6, <2>2
    <3>2. \A j \in i + 1..n : mapper[j].dbc # mapper[i].dbc
      BY <1>1, <1>6, <2>2
    <3>3. mapper[i].dbc \in DOMAIN m /\ m[mapper[i].dbc] = mapper[i].vss
      BY <1>6, <2>2, <3>2 DEF PathInv, m
    <3> QED
      BY <1>5, <3>1, <3>3
  <2> QED
    BY <1>1, <2>1, <2>2
<1>7. ASSUME NEW d \in DOMAIN m' PROVE d \in Name /\ d # "SG_" /\ m'[d] \in Name
  <2>1. CASE d \in DOMAIN m /\ m'[d] = m[d]
    BY <2>1 DEF PathInv, m
  <2>2. CASE pair.dbc \in Name /\ d = pair.dbc
    BY <1>2, <1>5, <2>2
  <2> QED
    BY <1>5, <2>1, <2>2
<1> QED
  BY <1>1, <1>6, <1>7 DEF PathInv, m

\* Every step keeps that.
LEMMA PathNext == ASSUME MapInv, PathInv, [NextMapping]_allVars PROVE PathInv'
<1>1. ASSUME UNCHANGED <<mapper, m_dbc2vss_map>>, vss_read'.mapper = vss_read.mapper
      PROVE PathInv'
  BY <1>1 DEF PathInv
<1>2. CASE Parse /\ UNCHANGED <<mapVars, agent, store>>
  BY <1>1, <1>2 DEF mapVars
<1>3. CASE LoadVssPathYaml
  <2>1. /\ UNCHANGED <<mapper, m_dbc2vss_map>>
        /\ vss_read' = [vss_read EXCEPT !.yaml = @ + 1]
    BY <1>3 DEF LoadVssPathYaml
  <2>2. vss_read'.mapper = vss_read.mapper
    BY <2>1 DEF MapInv
  <2> QED
    BY <1>1, <2>1, <2>2
<1>4. CASE LoadVssDbcMapper
  BY <1>4, PathLoad
<1>5. CASE ReceiveFrame
  BY <1>1, <1>5 DEF ReceiveFrame, mapVars
<1>6. CASE ProcessMessage
  BY <1>1, <1>6 DEF ProcessMessage, mapVars
<1>7. CASE UNCHANGED allVars
  BY <1>1, <1>7 DEF allVars, mapVars
<1> QED
  BY <1>2, <1>3, <1>4, <1>5, <1>6, <1>7 DEF NextMapping

\* At first both maps are empty.
LEMMA PathInit == InitMapping => PathInv
<1> SUFFICES ASSUME InitMapping PROVE PathInv
  OBVIOUS
<1>1. vss_read = [yaml |-> 0, mapper |-> 0] /\ m_dbc2vss_map = <<>>
  BY DEF InitMapping
<1>2. 1..vss_read.mapper = {} /\ DOMAIN m_dbc2vss_map = {}
  BY <1>1
<1> QED
  BY <1>2 DEF PathInv

-----------------------------------------------------------------------------
(* What the agent writes.                                                  *)

\* The reports that have a path, and those that set one path.
Mapped == {j \in DOMAIN can_msg : can_msg[j].name \in DOMAIN m_dbc2vss_map}
Setting(path) == {j \in Mapped : m_dbc2vss_map[can_msg[j].name] = path}

\* A signal has a path exactly if it is in the map.
LEMMA PathOfName ==
  ASSUME PathInv, NEW d
  PROVE  /\ VssName(d) # "" <=> d \in DOMAIN m_dbc2vss_map
         /\ d \in DOMAIN m_dbc2vss_map => VssName(d) = m_dbc2vss_map[d]
<1>1. CASE d \in DOMAIN m_dbc2vss_map
  <2>1. VssName(d) = m_dbc2vss_map[d]
    BY <1>1, Zenon DEF VssName
  <2>2. m_dbc2vss_map[d] \in Name
    BY <1>1 DEF PathInv
  <2>3. m_dbc2vss_map[d] # ""
    BY <2>2, Zenon DEF Name
  <2> QED
    BY <1>1, <2>1, <2>3, Zenon
<1>2. CASE d \notin DOMAIN m_dbc2vss_map
  BY <1>2, Zenon DEF VssName
<1> QED
  BY <1>1, <1>2, Zenon

\* What processMessage writes.
LEMMA Written ==
  ASSUME PathInv, ProcessMessage
  PROVE  store' = [path \in DOMAIN store \cup {m_dbc2vss_map[can_msg[j].name] : j \in Mapped} |->
                     IF Setting(path) = {} THEN store[path]
                     ELSE can_msg[Max(Setting(path))].value]
<1> DEFINE mapped == {j \in DOMAIN can_msg : VssName(can_msg[j].name) # ""}
           Set(path) == {j \in mapped : Key(can_msg[j]) = path}
<1>1. store' = [path \in DOMAIN store \cup {Key(can_msg[j]) : j \in mapped} |->
                  IF Set(path) = {} THEN store[path] ELSE can_msg[Max(Set(path))].value]
  BY Zenon DEF ProcessMessage
<1>2. mapped = Mapped
  <2>1. ASSUME NEW j \in DOMAIN can_msg
        PROVE  VssName(can_msg[j].name) # "" <=> can_msg[j].name \in DOMAIN m_dbc2vss_map
    BY PathOfName, Zenon
  <2> QED
    BY <2>1, Zenon DEF Mapped
<1> HIDE DEF mapped
<1>3. ASSUME NEW j \in Mapped PROVE Key(can_msg[j]) = m_dbc2vss_map[can_msg[j].name]
  <2>1. can_msg[j].name \in DOMAIN m_dbc2vss_map
    BY DEF Mapped
  <2>2. VssName(can_msg[j].name) = m_dbc2vss_map[can_msg[j].name]
    BY <2>1, PathOfName, Zenon
  <2> QED
    BY <2>2, Zenon DEF Key
<1>4. ASSUME NEW path PROVE Set(path) = Setting(path)
  BY <1>2, <1>3 DEF Setting
<1> HIDE DEF Set
<1>5. {Key(can_msg[j]) : j \in mapped} = {m_dbc2vss_map[can_msg[j].name] : j \in Mapped}
  BY <1>2, <1>3
<1> QED
  BY <1>1, <1>4, <1>5

\* A path holds what it held, or the value of a report of its signal.
LEMMA PathWritten ==
  ASSUME PathInv, MapsAgree, can_msg \in Seq(Report), ProcessMessage, NEW path \in DOMAIN store'
  PROVE  \/ path \in DOMAIN store /\ store'[path] = store[path]
         \/ \E j \in DOMAIN can_msg :
              /\ can_msg[j].name \in DOMAIN m_dbc2vss_map
              /\ DbcName(path) = can_msg[j].name /\ store'[path] = can_msg[j].value
<1>1. /\ DOMAIN store' = DOMAIN store \cup {m_dbc2vss_map[can_msg[j].name] : j \in Mapped}
      /\ store'[path] = IF Setting(path) = {} THEN store[path]
                        ELSE can_msg[Max(Setting(path))].value
  BY Written
<1>2. CASE Setting(path) = {}
  <2>1. path \in DOMAIN store
    BY <1>1, <1>2 DEF Setting
  <2> QED
    BY <1>1, <1>2, <2>1
<1>3. CASE Setting(path) # {}
  <2> DEFINE j == Max(Setting(path))
  <2>1. Setting(path) \subseteq 1..Len(can_msg) /\ Len(can_msg) \in Nat
    BY DEF Setting, Mapped
  <2>2. j \in Setting(path)
    BY <1>3, <2>1, MaxIn
  <2>3. /\ j \in DOMAIN can_msg /\ can_msg[j].name \in DOMAIN m_dbc2vss_map
        /\ m_dbc2vss_map[can_msg[j].name] = path
    BY <2>2 DEF Setting, Mapped
  <2>4. DbcName(path) = can_msg[j].name
    BY <2>3 DEF MapsAgree
  <2> QED
    BY <1>1, <1>3, <2>3, <2>4
<1> QED
  BY <1>2, <1>3

\* The path of a signal with one report holds the value of that report.
LEMMA SignalWritten ==
  ASSUME PathInv, MapsAgree, can_msg \in Seq(Report), ProcessMessage,
         NEW d \in DOMAIN m_dbc2vss_map, NEW j,
         {i \in DOMAIN can_msg : can_msg[i].name = d} = {j}
  PROVE  m_dbc2vss_map[d] \in DOMAIN store' /\ store'[m_dbc2vss_map[d]] = can_msg[j].value
<1> DEFINE path == m_dbc2vss_map[d]
<1>1. j \in Mapped /\ can_msg[j].name = d
  BY DEF Mapped
<1>2. ASSUME NEW i \in Setting(path) PROVE i = j
  <2>1. i \in DOMAIN can_msg /\ can_msg[i].name \in DOMAIN m_dbc2vss_map
        /\ m_dbc2vss_map[can_msg[i].name] = path
    BY DEF Setting, Mapped
  <2>2. DbcName(path) = can_msg[i].name
    BY <2>1 DEF MapsAgree
  <2>3. DbcName(path) = d
    BY DEF MapsAgree
  <2> QED
    BY <2>1, <2>2, <2>3
<1>3. Setting(path) = {j}
  <2>1. j \in Setting(path)
    BY <1>1 DEF Setting
  <2> QED
    BY <1>2, <2>1
<1>4. Max(Setting(path)) = j
  <2>1. Setting(path) \subseteq 0..Len(can_msg) /\ Len(can_msg) \in Nat
    <3>1. DOMAIN can_msg = 1..Len(can_msg) /\ Len(can_msg) \in Nat
      OBVIOUS
    <3>2. 1..Len(can_msg) \subseteq 0..Len(can_msg)
      BY <3>1
    <3> QED
      BY <3>1, <3>2 DEF Setting, Mapped
  <2>2. Setting(path) # {}
    BY <1>3
  <2>3. Max(Setting(path)) \in Setting(path)
    <3> HIDE DEF path
    <3> QED
      BY <2>1, <2>2, MaxIn
  <2> QED
    BY <1>3, <2>3
<1>5. path \in {m_dbc2vss_map[can_msg[i].name] : i \in Mapped}
  BY <1>1
<1> HIDE DEF path
<1>6. path \in DOMAIN store' /\ store'[path] = can_msg[j].value
  BY <1>3, <1>4, <1>5, Written
<1> QED
  BY <1>6 DEF path

\* The agent has a message only after both files were read and a frame was received;
\* the maps and the store hold what they are for.
AgentInv ==
  /\ yaml \in Yamls /\ agent \in {"idle", "todo", "done"}
  /\ agent # "idle" => Loaded /\ frames > 0
  /\ \A k \in DOMAIN m_db_cache_map : m_db_cache_map[k] \in Node
  /\ \A k \in DOMAIN m_vss2dbc_map : m_vss2dbc_map[k] \in STRING
  /\ \A k \in DOMAIN store : store[k] \in Int

\* The types of the maps of the mapper and of the store, at first,
LEMMA AgentInit == InitMapping => AgentInv
BY DEF InitMapping, AgentInv

\* Put() changes one entry.
LEMMA PutTyped ==
  ASSUME NEW f, NEW S, \A k \in DOMAIN f : f[k] \in S, NEW key, NEW value \in S
  PROVE  \A k \in DOMAIN Put(f, key, value) : Put(f, key, value)[k] \in S
BY DEF Put

\* Each action keeps AgentInv.
LEMMA AgentKept ==
  ASSUME AgentInv, UNCHANGED <<mapVars, agent, store, frames>> PROVE AgentInv'
BY DEF AgentInv, mapVars, Loaded

\* after a node of the catalogue was read,
LEMMA AgentYaml == ASSUME AgentInv, MapInv, LoadVssPathYaml PROVE AgentInv'
<1> DEFINE node == yaml[vss_read.yaml + 1]
<1>1. /\ yaml' = yaml /\ UNCHANGED <<m_vss2dbc_map, agent, store>>
      /\ vss_read.yaml < Len(yaml) /\ vss_read.yaml \in Nat
      /\ m_db_cache_map' = IF node.type = "branch" THEN m_db_cache_map
                           ELSE Put(m_db_cache_map, node.key, node)
  BY DEF LoadVssPathYaml, MapInv
<1>2. node \in Node
  <2>1. yaml \in Seq(Node)
    BY MappersAssumption DEF AgentInv
  <2> QED
    BY <1>1, <2>1
<1>3. agent = "idle"
  BY <1>1 DEF AgentInv, Loaded
<1> HIDE DEF node
<1>4. \A k \in DOMAIN m_db_cache_map' : m_db_cache_map'[k] \in Node
  <2>1. \A k \in DOMAIN m_db_cache_map : m_db_cache_map[k] \in Node
    BY DEF AgentInv
  <2>2. m_db_cache_map' \in {m_db_cache_map, Put(m_db_cache_map, node.key, node)}
    BY <1>1
  <2> QED
    BY <1>2, <2>1, <2>2, PutTyped
<1> QED
  BY <1>1, <1>3, <1>4 DEF AgentInv

\* after a pair of the mapping file was read,
LEMMA AgentMapper == ASSUME AgentInv, MapInv, LoadVssDbcMapper PROVE AgentInv'
<1> DEFINE pair == mapper[vss_read.mapper + 1]
<1>1. /\ UNCHANGED <<yaml, mapper, m_db_cache_map, agent, store>>
      /\ vss_read.mapper < Len(mapper) /\ vss_read.mapper \in Nat /\ mapper \in Mappers
      /\ m_vss2dbc_map' = Put(m_vss2dbc_map, pair.vss, pair.dbc)
  BY DEF LoadVssDbcMapper, MapInv
<1>2. pair.dbc \in STRING
  <2>1. vss_read.mapper + 1 \in DOMAIN mapper
    BY <1>1, MapperIsSequence
  <2> QED
    BY <1>1, <2>1, PairNames
<1>3. agent = "idle"
  BY <1>1 DEF AgentInv, Loaded
<1> HIDE DEF pair
<1>4. \A k \in DOMAIN m_vss2dbc_map' : m_vss2dbc_map'[k] \in STRING
  BY <1>1, <1>2, PutTyped DEF AgentInv
<1> QED
  BY <1>1, <1>3, <1>4 DEF AgentInv

\* after a frame was decoded,
LEMMA AgentReceive == ASSUME AgentInv, MsgInv, ReceiveFrame PROVE AgentInv'
<1>1. UNCHANGED <<mapVars, store>> /\ agent' = "todo" /\ Loaded /\ ReceiveAny
  BY DEF ReceiveFrame
<1>2. frames' > 0
  BY <1>1 DEF MsgInv, ReceiveAny, Receive
<1> QED
  BY <1>1, <1>2 DEF AgentInv, mapVars, Loaded

\* after the agent has written what was decoded,
LEMMA AgentProcess ==
  ASSUME AgentInv, MapInv, MsgInv, PathInv, ProcessMessage PROVE AgentInv'
<1>1. UNCHANGED <<vars, mapVars>> /\ agent = "todo" /\ agent' = "done"
  BY DEF ProcessMessage
<1>2. MapsAgree
  BY DEF MapInv, MapsAgree, DbcName
<1>3. ASSUME NEW path \in DOMAIN store' PROVE store'[path] \in Int
  <2>1. CASE path \in DOMAIN store /\ store'[path] = store[path]
    BY <2>1 DEF AgentInv
  <2>2. CASE \E j \in DOMAIN can_msg : store'[path] = can_msg[j].value
    <3>1. \A j \in DOMAIN can_msg : can_msg[j] \in Report
      BY DEF MsgInv
    <3> QED
      BY <2>2, <3>1 DEF Report
  <2> QED
    BY <1>2, <2>1, <2>2, PathWritten DEF MsgInv
<1> QED
  BY <1>1, <1>3 DEF AgentInv, vars, mapVars, Loaded

\* and after every step.
LEMMA AgentNext ==
  ASSUME AgentInv, MapInv, MsgInv, PathInv, [NextMapping]_allVars PROVE AgentInv'
<1>1. CASE Parse /\ UNCHANGED <<mapVars, agent, store>>
  BY <1>1, AgentKept DEF Parse
<1>2. CASE LoadVssPathYaml
  BY <1>2, AgentYaml
<1>3. CASE LoadVssDbcMapper
  BY <1>3, AgentMapper
<1>4. CASE ReceiveFrame
  BY <1>4, AgentReceive
<1>5. CASE ProcessMessage
  BY <1>5, AgentProcess
<1>6. CASE UNCHANGED allVars
  BY <1>6, AgentKept DEF allVars, vars
<1> QED
  BY <1>1, <1>2, <1>3, <1>4, <1>5, <1>6 DEF NextMapping

-----------------------------------------------------------------------------
(* The theorems about the way to the store.                                *)

Inv == DbInv /\ DecodesWhatWasSent /\ MapInv /\ MsgInv /\ PathInv /\ AgentInv

\* They hold together.
LEMMA InvHolds == SpecMapping => []Inv
<1>1. InitMapping => Inv
  <2>1. InitMapping => DbInv /\ MsgInv
    BY DbInit, MsgInit DEF InitMapping
  <2>2. InitMapping => DecodesWhatWasSent
    BY DEF InitMapping, Init, DecodesWhatWasSent
  <2> QED
    BY <2>1, <2>2, MapInit, PathInit, AgentInit DEF Inv
<1>2. Inv /\ [NextMapping]_allVars => Inv'
  <2> SUFFICES ASSUME Inv, [NextMapping]_allVars PROVE Inv'
    OBVIOUS
  <2>1. DbInv' /\ DecodesWhatWasSent' /\ MapInv'
    BY DbNext, DecodedNext, MapNext DEF Inv
  <2>2. MsgInv' /\ PathInv' /\ AgentInv'
    BY MsgNext, PathNext, AgentNext DEF Inv
  <2> QED
    BY <2>1, <2>2 DEF Inv
<1> QED
  BY <1>1, <1>2, PTL DEF SpecMapping

\* MappingTypeOK is an invariant, for every pair of files and all bounds.
THEOREM MappingTyped == SpecMapping => []MappingTypeOK
<1>1. Inv => MappingTypeOK
  <2> SUFFICES ASSUME Inv PROVE MappingTypeOK
    OBVIOUS
  <2>1. TypeOK
    <3>1. \A id \in DOMAIN can_db :
            can_db[id].is_multiplexed \in BOOLEAN /\ can_db[id].signals \in Seq(DbSignal)
      BY DEF Inv, DbInv, MessageOK
    <3> QED
      BY <3>1 DEF Inv, DbInv, EndsAt, MsgInv, Report, TypeOK
  <2>2. ASSUME NEW k \in DOMAIN m_dbc2vss_map
        PROVE  k # "" /\ m_dbc2vss_map[k] \in STRING \ {""}
    <3>1. k \in Name /\ m_dbc2vss_map[k] \in Name
      BY DEF Inv, PathInv
    <3> QED
      BY <3>1, Zenon DEF Name
  <2> QED
    BY <2>1, <2>2, Zenon DEF Inv, AgentInv, MappingTypeOK
<1> QED
  BY <1>1, InvHolds, PTL

\* A command changes no path but those of the signals in the frame (processMessage).
THEOREM WritesItsPaths == SpecMapping => OnlyItsPaths
<1> DEFINE Other == \A path \in DOMAIN store' :
       \/ path \in DOMAIN store /\ store'[path] = store[path]
       \/ \E k \in SignalLines(file, sent.id) : DbcName(path) = file[k].name
<1>1. Inv /\ [NextMapping]_allVars => Other
  <2> SUFFICES ASSUME Inv, [NextMapping]_allVars, NEW path \in DOMAIN store',
                      ~(path \in DOMAIN store /\ store'[path] = store[path])
               PROVE  \E k \in SignalLines(file, sent.id) : DbcName(path) = file[k].name
    OBVIOUS
  <2>1. ProcessMessage
    <3>1. store' # store
      OBVIOUS
    <3> QED
      BY <3>1 DEF NextMapping, LoadVssPathYaml, LoadVssDbcMapper, ReceiveFrame, allVars
  <2>2. MapsAgree /\ PathInv /\ MsgInv
    BY DEF Inv, MapInv, MapsAgree, DbcName
  <2>3. PICK j \in DOMAIN can_msg :
           can_msg[j].name \in DOMAIN m_dbc2vss_map /\ DbcName(path) = can_msg[j].name
    BY <2>1, <2>2, PathWritten DEF MsgInv
  <2>4. can_msg[j].name # "SG_"
    BY <2>2, <2>3 DEF PathInv
  <2>5. PICK k \in SignalLines(file, sent.id) : file[k].name = can_msg[j].name
    BY <2>2, <2>4 DEF MsgInv
  <2> QED
    BY <2>3, <2>5
<1> QED
  BY <1>1, InvHolds, PTL DEF SpecMapping, OnlyItsPaths

\* The store follows the bus: after a sound message was processed, the path that the
\* mapping gives last for a plain signal without overlaps holds what the sender put into
\* the frame.
THEOREM StoreIsWhatWasSent == SpecMapping => []StoreFollowsBus
<1>1. ASSUME Inv, ProcessMessage PROVE StoreFollowsBus'
  <2>1. UNCHANGED <<vars, mapVars>> /\ agent = "todo"
    BY <1>1 DEF ProcessMessage
  <2>2. /\ MapsAgree /\ PathInv /\ can_msg \in Seq(Report) /\ Loaded /\ frames > 0
        /\ mapper \in Mappers /\ DbInv /\ DecodesWhatWasSent
    BY <1>1, <2>1 DEF Inv, MapInv, MapsAgree, DbcName, MsgInv, AgentInv
  <2>3. ASSUME Sound(file, sent.id), NEW k \in SignalLines(file, sent.id),
             NEW i \in DOMAIN mapper,
               file[k].mux # "m", Alone(file, sent.id, k), mapper[i].dbc = file[k].name,
               \A j \in i + 1..Len(mapper) : mapper[j].dbc # mapper[i].dbc
        PROVE  /\ mapper[i].vss \in DOMAIN store'
               /\ store'[mapper[i].vss] = Physical(sent.numbers[k], file[k])
    <3> DEFINE name == file[k].name
    <3>1. i \in 1..vss_read.mapper /\ vss_read.mapper = Len(mapper)
      BY <2>2, MapperIsSequence DEF Loaded
    <3>2. name \in Name
      BY <2>2, <2>3, SoundLine DEF DbInv
    <3>3. name \in DOMAIN m_dbc2vss_map /\ m_dbc2vss_map[name] = mapper[i].vss
      BY <2>2, <2>3, <3>1, <3>2 DEF PathInv
    <3>4. /\ Cardinality({j \in DOMAIN can_msg : can_msg[j].name = name}) = 1
          /\ \A j \in {j \in DOMAIN can_msg : can_msg[j].name = name} :
               can_msg[j].value = Physical(sent.numbers[k], file[k])
      BY <2>2, <2>3 DEF DecodesWhatWasSent
    <3>5. PICK j : {l \in DOMAIN can_msg : can_msg[l].name = name} = {j}
      <4>1. IsFiniteSet(1..Len(can_msg))
        BY <2>2, FS_Interval
      <4>2. {l \in DOMAIN can_msg : can_msg[l].name = name} \in SUBSET (1..Len(can_msg))
        BY <2>2
      <4> HIDE DEF name
      <4> QED
        BY <3>4, <4>1, <4>2, FS_Subset, FS_Singleton
    <3> HIDE DEF name
    <3>6. /\ m_dbc2vss_map[name] \in DOMAIN store'
          /\ store'[m_dbc2vss_map[name]] = can_msg[j].value
      BY <1>1, <2>2, <3>3, <3>5, SignalWritten
    <3> QED
      BY <3>3, <3>4, <3>5, <3>6
  <2>4. file' = file /\ sent' = sent /\ mapper' = mapper
    BY <2>1 DEF vars, mapVars
  <2> QED
    BY <2>3, <2>4 DEF StoreFollowsBus
<1>2. ASSUME StoreFollowsBus, UNCHANGED <<file, sent, mapper, agent, store>>
      PROVE StoreFollowsBus'
  BY <1>2 DEF StoreFollowsBus
<1>3. ASSUME Inv, StoreFollowsBus, [NextMapping]_allVars PROVE StoreFollowsBus'
  <2>1. CASE Parse /\ UNCHANGED <<mapVars, agent, store>>
    BY <1>2, <1>3, <2>1 DEF Parse, mapVars
  <2>2. CASE LoadVssPathYaml
    BY <1>2, <1>3, <2>2 DEF LoadVssPathYaml, vars
  <2>3. CASE LoadVssDbcMapper
    BY <1>2, <1>3, <2>3 DEF LoadVssDbcMapper, vars
  <2>4. CASE ReceiveFrame
    BY <2>4 DEF ReceiveFrame, StoreFollowsBus
  <2>5. CASE ProcessMessage
    BY <1>1, <1>3, <2>5
  <2>6. CASE UNCHANGED allVars
    BY <1>2, <1>3, <2>6 DEF allVars, vars, mapVars
  <2> QED
    BY <1>3, <2>1, <2>2, <2>3, <2>4, <2>5, <2>6 DEF NextMapping
<1>4. InitMapping => StoreFollowsBus
  BY DEF InitMapping, StoreFollowsBus
<1> QED
  BY <1>3, <1>4, InvHolds, PTL DEF SpecMapping

=============================================================================
