# Automotive1722: specifications and proofs

The program `vss-can-1722` receives CAN frames in IEEE 1722 (AVTP) packets from
Ethernet, decodes them with a DBC file, maps the signals to VSS names and stores
them in Redis. This directory holds TLA+ modules translated from its C++ sources,
the TLC configurations that check them, and proofs that TLAPS checks. Paths below
are those of the repository's `src/` directory.

## The system

    CAN bus -> CanReader -> Transmitter ==AVTP/Ethernet==> Receiver -> CanWriter -> CAN bus
                                                             |
      Receiver (one thread per channel, owned by DataRouter/Channel)
         | callback
      Aggregator  queue + thread
         | callback
      DataManager queue + thread   (CanDbc, ProcessCanMessage, can-codec)
         | observer
      CanAgent    queue + thread   (VssMapper)
         | command()
      RedisDatabase / RedisConnection   three threads, queue of commands -> Redis server

| component | state | operations | calls | what is hard |
|---|---|---|---|---|
| `main`, `VssCanExchange` | `g_ready`, the condition variable | start, wait for a signal, stop | start/stop of agent and manager | a signal handler that notifies, shutdown order |
| `DataManager` | queue, observers, `m_is_running` | callback, `run`, `notify`, start, stop, (un)register | `CanAgent::update`, `Aggregator` | front used outside the lock, unlocked flag and drain |
| `Aggregator` | queue, `m_is_running` | callback, `run`, start, stop | the manager's callback, `DataRouter` | the same, with several producers |
| `CanAgent` | queue, `m_is_running` | `update`, `run`, `processMessage`, start, stop | `RedisDatabase::command`, `VssMapper` | blocks in `command()` while Redis is away |
| `DataRouter`, `Channel` | the channels | creation from settings, start, stop, publish | `Receiver`, `Transmitter` | flags never initialised, `uint8_t` loop |
| `Receiver` | `m_running`, expected sequence number, array of 15 frames | `run`, start, stop | callback, `CanWriter` | rejected packets, stale slots |
| `Transmitter` | `m_running`, sequence number | `run`, `sendPacket`, start, stop | `CanReader`, `AvtpUtil` | two talkers on one stream |
| `RedisDatabase`, `RedisConnection` | states, context, command queue, flags | start, stop, command, ping loop, reconnection | hiredis | three threads over one context |
| `CanDbc`, `ProcessCanMessage`, `can-codec` | database of messages (pure) | parse, decode, encode | - | multiplexers, shifts, big endian |
| `VssMapper`, `Settings` | tables (pure after init) | load, look up | yaml-cpp | maps that disagree, sections |
| `comm-if`, `CommonUtils` | the open descriptors of the process | open an Ethernet, loopback or CAN socket | Linux | error paths, who closes what |

Correctness, component by component: every accepted frame reaches the agent once
and in order until the shutdown; the shutdown ends every thread, and in an order
in which nobody is pushed to after it is gone; a frame that enters the bridge
leaves it once, strangers' packets and failed calls for others notwithstanding; a command is
sent to Redis at most once and in order; a connection that is lost comes back; the
pure algorithms agree with their definitions; every descriptor has one owner; start and
stop in turn leave no thread and no CAN socket behind and never end the program. (A start
after a stop is legal but empty: `DataRouter::stop` has dropped the channels.)

## The modules

### `VssCanExchange` and `OrderedDelivery`

The core: receiver threads, the three stages `"agg"`, `"dm"`, `"agent"` and main.
The three stages run the same code up to details, so the actions `Loop`, `Test`,
`Sleep`, `Pop` take the stage as parameter and `m_queue`, `m_is_running` and `pc`
are functions on stages. A location of `pc` is a place of `run()`: `loop` (the
`while`), `test` (about to lock and evaluate the predicate of `wait`), `block`
(predicate false, mutex still held, not yet in the wait set), `wait` (asleep),
`work` and `notify` (outside the lock, with the front or a copy), `pop` and `done`.
A critical section is one action; `block` is the one exception, because `stop()`
does not take the mutex and so can act inside it. `DrainOne` is one `pop` of an
unlocked drain, `Drained` the test that ends it together with what the three
`stop()` functions do next. `HandleSignal` may also end a receiver, whose `poll`
fails with `EINTR`. A frame is its channel and its number there; decoding is
external. Two data races are modelled by the outcome that the build has in practice. Each
pop of a drain is atomic, although a push may run beside it; that the `deque` itself could be
damaged is left out. And the loop over the observers looks at them and copies the
`shared_ptr` in one step (`ProcessReceivedMessage`): if the observer is erased between the
two, the memory still holds the pointer, and main still holds the agent, so that the copy is
the one made just before; that it could be anything else is left out. `m_observers`
starts as `{"agent"}`, as `VssCanExchange::init` leaves it.

`OrderedDelivery` is what the pipeline promises: `accepted` and `delivered`, the
latter always a prefix, and until `closing` everything accepted comes out.

### `AvtpBridge`

CAN bus to CAN bus: `Transmitter::run` with `CanReader::receiveData`, the packing
and the extraction of `AvtpUtil`, `Receiver::run` with its callback and
`CanWriter::sendData`. `Callback` and `SendData` are one turn of their loops each; a call of
`write()` succeeds or fails, and is in `writes` with its result: a failure is logged and the
loop goes on. Whether the receiver has a CAN bus, `m_is_can_enabled`, is chosen at the start;
it is what `CanWriter::init` returned, so that the writer's own `m_is_initialized` is the
same. The test of `m_running`, `poll` and the second test are one
step: there is nothing between them that another thread could see. `can_frames` is
the array of the receiver with what earlier packets left in it (`Decode`: flags are
only ever set; `Store`: a rejected packet leaves what it wrote); it starts with junk,
since nobody initialises it. What arrives on the bus is one of the sequences in
`Traffic`, chosen at the start. Packets come from the transmitter's thread, from
`sendPacket` (sequence number always 0) and from strangers, the latter two bounded by
`MaxOthers`, as failures and losses are by bounds of their own, and all by `MaxTroubles`
together; packets may be lost but not overtake one another. Reading behind the array is
a crash or a return. A packet has at most `Slots` frames, and `Slots` is what the
`uint8_t` that counts them can hold and tell from -1 (2 to 254; 15 in the code). A packet
of a stranger is marked as one (`StrangersAssumption`).

### `RedisStore` and `AtMostOnceStore`

`"db"` is `RedisDatabase::run`, `"ping"` is `RedisConnection::run`, `"cmd"` is
`runCommand`, `"agent"` is `CanAgent::run` with `processMessage`, `"main"` the caller of
`CanAgent::start` and `stop`, which start and stop the Redis component inside them. The
agent has one message at a time (`AgentTakes`), which is as many commands as it has mapped
signals; for each it needs `m_cmd_mutex` (`Command`). How it waits for messages, and can
miss the notification of the stop, is `VssCanExchange`'s matter.

hiredis is external: a context is live or null, its `link` works or does not, replies come
back in order to whoever reads first, and two readers, or a reader whose context is freed,
may crash (`aborted = "fault"`). A thread object that is assigned over a thread not
joined is `aborted = "terminate"`. Sleeps of 500 and 1000 ms are the freedom of the
scheduler; the one made with `m_cmd_mutex` held is a location, `sleep`. When the
constructor gets no context both states are uninitialised: `Init` takes one value of each
kind that the code tells apart (`UninitialisedState`, `UninitialisedDbState`). A server
that is down at construction counts as one of the `MaxOutages`. `connectRedis` is one step,
so that nobody sees the context that it frees again after an error, and so are the flag and
the creation of the ping thread in `startRedis`: no property tells the moments apart.

`AtMostOnceStore` says that commands are settled in the order they were issued.

### `SignalCodec` and `CodecRoundTrip`

`storeSignal`, `clearBits` and `extractSignal` of can-codec. A byte and a 64-bit word
are the sets of the positions of their ones, so that or, and and shifts are union,
intersection and moved positions, and every width is the real one. A shift of a byte is
one of an `int`: it sign-extends into the word, and a count of 32 or more, which the
language leaves undefined, is a choice (`Shifting`). The reference, `Cell`, says where
bit i of a signal lies. A byte is visited once by the loops, so `StoreSignal` gives each
byte at once what the loop leaves there (`StoreByte`), with `current_target_length` and
`bits_to_clear` as they are when it comes to that byte. `CodecRoundTrip` stores into the
signals of one frame in any order, with a history of what was stored; its values are the
words that `fromPhysicalValue` returns. `Decode` is `decode`: the word, taken as a signed or
unsigned number of 64 bits, times the factor plus the offset, each of the three rounded to
a float (`ToPhysicalValue`), against `Physical`, which takes the number from the signal's
own bits and rounds nothing. `ToFloat` keeps 24 bits and takes the even one of two nearest
numbers; factors and offsets are multiples of a power of 2, counted in it, so that floats are
whole numbers, and infinity is out of their range. `Value`, the number that bits make, is a
recursive function from the highest bit down.

### `DbcDatabase`

`CanDbc::parse` line by line, then one action per received frame: `constructMessage`
and `ProcessCanMessage::process`. A line is a record of what the parser tells apart,
the number of its tokens included; a database maps ids to messages, as `can_db` does.
The sender of frames is another device with the same file and is external: `DbcCell`,
`Numbers` and `Data` follow the DBC format and share nothing with the parser. `Owns` and
`SignalLines` say by the numbers of the lines which message a line is about.

The parser takes every line with `BO_` or `SG_` anywhere in it for a message or a signal.
The kinds of lines that this catches are those of `Line`:

- with `BO_` and a word where the id should be (`BA`: `CM_ BO_`, `BA_ ... BO_`,
  `BA_DEF_ BO_`): with five tokens `std::stoul` throws, nobody catches it, and the program
  ends (`aborted = "terminate"`); shorter ones are left out by the parser;
- with `SG_` that are no signals (`CM`: `CM_ SG_`, `BA_ ... SG_`, `BU_SG_REL_`,
  `SG_MUL_VAL_`): with fewer than 7 tokens the parser reads behind the last one, which ends
  the program or goes well (`aborted = "fault"`, or a signal). This is also so for the names
  of sections under `NS_` with `SG_` in them, one token each, in front of all messages,
  where the signal goes to a message 0;
- lists of transmitters (`TX`).

`WellFormed` is what is assumed of a file (`FilesAssumption`): each message begins once, with
its five tokens; a signal has its seven and comes after a message, lies in 8 bytes, and has
at most 24 bits, as have its physical values, since a float keeps no more; the signals of a
message differ in their names, at most one is a multiplexer, and that one is unsigned;
transmitters are listed without blanks (with blanks `BO_TX_BU_` would have the tokens of a
message, and begin it anew). A `SG_MUL_VAL_` line of more than 8 tokens is left out. Signals
may share bits, as they do in `config/dbc.dbc`; what then comes out of a frame is up to its
sender, so the properties about values speak of signals that are `Alone`. A comment on a
signal is parsed as a signal of the name `SG_`: `Sound` messages have none.

### `VssMapping`

Extends `DbcDatabase` by `VssMapper`, whose two files are read entry by entry into
three maps, and by `CanAgent::processMessage`, whose SET commands change a store. Queues
are left out: a frame is processed before the next one comes. `ProcessMessage` sends all
commands of a message in one step, as nobody else changes what it reads; of two commands for
one path the later one stays. The mapping file names signals, so it does not use the keyword
`SG_` (`NamePair`); a value could otherwise come from a comment.

### `CommIf` and `ChannelSetup`

`CommIf` gives the functions of `comm-if` that open sockets. Each is the set of its
outcomes, a return value with the table of open descriptors it leaves: any system call may
fail, `Opened` takes the lowest free descriptor (or none is free), and what follows it
closes the descriptor if it fails (`Err`). `Comm_Can_SetupSocket` does not look at the
result of `ioctl()`, so that for a name that does not exist the socket is bound to whatever
interface the memory names, or to all.

`ChannelSetup` extends it: `Settings` (sections, keys, the three file names),
`DataRouter::init` with the constructors of `Channel`, `Receiver` and `Transmitter`,
`createDataHandlers`, and then `start()` and `stop()` of the data manager, called in any
order up to `MaxCalls` times: each goes through the thread of the manager, that of the
aggregator, and the router with two threads per channel. A thread is only its life here:
`none`, `running`, or `done` and still to be joined; assigning over one that is not
`none`, or `detach()` of one that is, ends the program (`main = "terminated"`). The flags
that `Receiver` and `Transmitter` read before they are written are free choices
(`rx_memory`, `tx_memory`). `ByteModulus` is 256 in the code and 4 in the runs. What
becomes of the sockets' data is in `AvtpBridge`, what a queue's thread does in
`VssCanExchange`. `Spec` is what the proofs are about, `FairSpec` adds the fairness; `Text`
is the set of names in the settings file, the empty one among them. What the parser should
find is said without it: `Configured` is the value on the first line that gives the key in
the section (`SectionOf`, `Giving`), of the first file that has such a line.

### The proof modules

Each extends the module it is named after. `SignalCodec_proofs` has the lemmas on can-codec
that `CodecRoundTrip_proofs` and `VssMapping_proofs` both rest on; the latter covers
`DbcDatabase` too. `ChannelSetup_proofs` has what the functions that open sockets guarantee,
the types, the settings map and the order of the calls; `ChannelSockets_proofs` extends it
by the channels, their sockets and threads.

## The runs

| run | bounds | question |
|---|---|---|
| `pipeline_safety` | 2 channels, 2 frames each, packets of 1-2 frames; channels symmetric | types; no lost wake-up for work; one queue; prefix; pinned fronts; shutdown order |
| `pipeline_live` | 2 channels, 1 frame each | refinement of `OrderedDelivery`, with its liveness; what `stop()` can hang on |
| `stop_returns` | 1 channel, 1 frame | violated: `stop()` returns |
| `redis_store` | 2 commands in 1 or 2 messages, 1 outage, attempts without a context | order, at most once, nothing forgotten, contexts, reconnection, commands settled, what the stop of the database waits for and leaves |
| `avtp_bridge` | 2 frames (FD with BRS, then CC); any 2 of failed read, receive or write, loss, signal, and 1 packet of the application or a stranger; with and without CAN | order and copies, sequence warnings, agreement of the outputs, delivery, termination |
| `avtp_rejected` | 1 stranger's packet | violated: a rejected packet delivers nothing |
| `codec_shared` | 3 layouts of 3-4 signals of 3 to 32 bits, 5 values | round trip, layout, neighbours |
| `codec_wide` | a signed signal of 40 bits | violated: the sign is extended |
| `vss_path` | 6 DBC files with scaled signals, 2 mappings, 3 values, 2 frames | the database is the file; physical values as sent; maps agree; the store follows the bus |
| `dbc_mux` | 1 multiplexer, 1 frame | violated: multiplexed signals are those of the number |
| `channel_setup` | 7 settings with 0 to 2 channels, one with the bound of the counter, one with a misspelt interface; 10 descriptors; 4 calls | channels, sockets and their owners, threads, orders of start and stop, termination |
| `ethernet_open` | 1 channel, 1 start, 1 stop | violated: Ethernet sockets are closed when done |

The bounds are small but reach the cases that matter: two producers on the first
queue, several frames at every stage at once, a stop in every state, two frames in
one slot after each other, signals that end inside bytes, cross them and fill an `int`
exactly, a multiplexer in front of and behind its signals, two paths for one signal, a
setting given twice, a wrap of the sequence numbers (`SeqModulus` is 2 in the
runs, 256 in the code), a command in flight on both sides of an outage. Deadlock
is not checked where the program ends, or hangs in a `join` as the violated runs say.

### Violated properties

- `StopReturns`: `DataManager::stop`, `Aggregator::stop` and `CanAgent::stop` clear
  the flag and notify without the mutex. A thread in `block` misses both, and
  `join` waits for ever. `JoinWaitsOnlyForSleepers` shows that this is the only way.
- `RejectedPacketDeliversNothing`: -1 in a `uint8_t` is 255.
- `SignExtended`: `1 << (length - 1)` and the shifts of the bytes are shifts of an `int`.
- `SignalsWithCorrectMuxVal`: `mux_id` is the code of a character, 48 more than the number.
- `EthernetClosedWhenDone`: `stop()` closes the CAN sockets only, and drops the channels
  that held the descriptors of the Ethernet ones.

More hazards show in the models as conditions of properties:

- `DatabaseIsTheFile` and `DecodesWhatWasSent` speak of messages that are `Sound`: the
  parser tells a multiplexer by the number of tokens, which a blank in a unit changes, and
  takes a comment on a signal for a signal. The properties say that such a line spoils no
  other message, once the file is read. It is not read to its end if it has a line that
  throws; `DatabaseIsTheFile` says which lines end the program, and that no others do.
- `BridgeKeepsOrder` allows one copy of a frame per failed read: `receiveData` retries a
  read of 0 bytes but not one of -1, and the transmitter sends the slot as it was.
- `OutputsAgree` says of the calls of `write()` what it cannot say of the frames on the bus:
  a failed write is not repeated, and its frame is with the callback only.
- `Reconnects` excepts `GivenUp`: `connectRedis` reports nothing if it gets no context; the
  ping thread was joined before, so nobody asks for another connection.
- If the first connection failed, `start()` and the database's thread may both start the
  ping thread, or `start()` may start it behind the join in `stopRedis`: `PingContextLive`
  excepts the runs in which that is possible (`late`). `stop()` frees the context under a
  command in flight (`aborted = "fault"`).
- That `command()` returns, and with it a stop of the agent, is not promised at all: with no
  connection the command thread holds `m_cmd_mutex` through its 500 ms and takes it again at
  once, and `std::mutex` is not fair. `ImplementsOrderedDelivery` and
  `JoinWaitsOnlyForSleepers`, in whose module `ProcessMessage` is one step, hold for as long
  as `command()` does return. `CommandsSettle` is about the commands that were issued.
- `TerminatedOnlyOutOfTurn` is exact: `start()` and `stop()` in turn never end the program,
  any other sequence does.
- `ChannelsAsConfigured` promises the CAN bus of the settings only for names that exist.
- `DescriptorsAreOwned` excepts 255 channels, where the loop overwrites its own channels.
- `ThreadsHaveSockets` excepts a receiver whose uninitialised flag was true by chance.

## Fairness

Threads are scheduled, so each has weak fairness. In `VssCanExchange` a `lock()` that
competes with a thread which holds the mutex only between the predicate and the sleep
succeeds in the end: strong fairness of the steps that push (`Forward`, `NotifyAgent`,
`Callback`). In `RedisStore` there is none: a thread gets a mutex if that stays free, and
`m_cmd_mutex`, which the command thread locks again at once, need not. What `Fairness` has
there instead is that a sleeping thread is not woken for nothing for ever: it would otherwise
take its mutex again and again. `poll` returns within 500 ms, so a receiver's exit needs weak
fairness only. In `ChannelSetup`, main's steps have weak fairness, and so has the exit of a thread whose
`m_running` is false, since `poll` times out; that the signal interrupts a `poll` is not
relied on. The loop over the sections ends unless `NUM_CHANNEL` is the largest number of
its type; `SetupAndStopEnd` says so, and that a stop of the router ends once it has begun;
the threads of the two queues have no fairness there, as they may miss the notification
(`StopReturns`). Packets, frames, commands, signals, outages,
spurious wake-ups and the request to stop have no fairness.

## The proofs

`VssCanExchange_proofs` proves, for every set of channels and all bounds:
`TypeCorrect`, `NoMissedPush`, `StopsInOrder`, `FrontStays`, `NothingLost`,
`PrefixDelivered` and `RefinesOrderedDelivery`. The only assumptions are
`ChannelsAssumption` (there is a channel) and `BoundsAssumption`.

The inductive invariant has these parts. `TypeInv` strengthens the types by what
locations say of the data: a thread at `work`, `notify` or `pop` has a front, `msg` is
a frame exactly where the code has a local one. `StopPhases` says which threads are
gone in which phase of the shutdown; without it the unlocked drains could take the
element a thread holds a reference to (`Pinned`, hence `FrontIsPinned`). `PipeInv` is
`PipelineIsOneQueue` with its hand-overs. It ends when the observer leaves, so
`SentInv` and `DeliveredInv` carry the prefix property through the shutdown: what the
agent has, holds in its hand and has queued is a prefix of `accepted`. The refinement
step maps `ProcessMessage` to `Deliver`, `Callback` to `Accept`, `UnRegister` to
`Close`, and the rest to stutters.

`RedisStore_proofs` proves `Types`, `PingOnLiveContext`, `StopLeavesNothing`, `CommandsKept`
and `ImplementsStore`, for any number of commands, outages and connections. `TypeOK` is not
inductive: `pop()` needs a command, a reply needs a sender. `TypeInv` adds what the location
of a thread says of its data. `LifeInv` follows the ping thread through its lives: who
started it, who waits for it, and that nobody frees the context it reads, if the
constructor got a connection. `CommandInv` numbers the commands: those settled, the one in
hand and those queued are consecutive, so that `issued` is their count until `stop()` drains
the queue. `ImplementsStore` is the step simulation of `AtMostOnceStore`: settling is one
step of it, everything else a stutter.

`AvtpBridge_proofs` proves `Types`, `WarnsOfGaps`, `SameOutputs` and `OrderIsKept`, for any
number of frames, losses, failed calls and other talkers, any modulus and number of slots.
`PacketInv` says what the network may carry: packets of this program are accepted by it, and
the n-th of the transmitter's thread has the number n - 1 modulo `SeqModulus`. With `SeqInv`
(the receiver expects the number after the packet it took last) the warnings follow from
the arithmetic of remainders (`RemainderOfDifference`). `HandInv`, `OutInv` and `CountInv`
follow the packet in hand: the calls of callback and `write()` differ by its frames only. For
the order,
each frame of the bus on its way is an item, a pair of its packet's number and its own, on
the Ethernet, in the receiver's hand, or about to be sent. `QueueInv` orders the items;
`ItemsInv` says that a later one has a later frame or repeats one more; `ReadInv` that there
are no more repetitions than failed reads; `WrittenInv` and `ExcessInv` that what was
written is older than what is on its way and repeats no more than was sent by then. None of
these is inductive without the others.

`ChannelSetup_proofs` proves `NoSocketForgotten`: each function that opens a socket returns
its descriptor, or leaves the table as it was, whatever call fails. It proves `Types` and
`OnlyOutOfTurn`, whose invariant `TurnInv` relates the history of the calls to the threads
of the queues: the first of them that `start()` or `stop()` touches shows whether the call
is in turn. `ChannelSockets_proofs` proves `RunningThreadsHaveSockets`,
`StopLeavesNothing`, `EveryDescriptorHasOneOwner` and `ChannelsFollowTheFiles`, for all
settings files, any number of channels, descriptors and calls. `HeldInv` says that what the
objects hold is open, held once, and all that is open; `SetupInv` how far the loop over the
sections is, with a `uint8_t` that may wrap (`Wraps`); `ThreadInv` how far `start()` and
`stop()` have come with the threads of the channels, and `StoppedInv` what is left behind
them. `ChannelsFollowTheFiles` takes two more: `ReadInv` says that the settings map has, of
every key and section, the value on the first line among those read, and that the parser's
section is that of the file; `AsSetInv` that each channel made so far is as the map says, and
that they are those before `section`. The files are `ConfigsAssumption`: sequences of
sections and keys, with numbers only where `Stoi` has one.

`SignalCodec_proofs` is about every signal, frame and value. `Stored` and `TargetIsRead` say
which bits of a frame `storeSignal` writes and `extractSignal` reads; `SignExtended32` is the
borrow of the subtraction that extends the sign. `DecodedValue` is its theorem: for a signal
of up to 32 bits `decode` gives the number in the signal's bits, times the factor, plus the
offset, each rounded to a float, and if a float holds all three, the physical value. It
rests on `SameValue`: extending a number to 64 bits, with its sign, does not change it.
`Value` being recursive, this needs induction over the bits, which is done by hand:
`Inductive` takes the least number for which a set fails, and `TopsExist` shows with it that
the recursive function exists and keeps its equation.

`CodecRoundTrip_proofs` proves `Types`, `CellsHold` and `OneSignalStored` for all layouts of
signals of 1 to 64 bits that fit into a frame and do not overlap (`LayoutsAssumption`), and
`RoundTrip` for those of up to 32 bits: `Narrow` is a hypothesis of that theorem, and the run
`codec_wide` shows that it is needed. `CodecInv` adds to the layout that what is stored in a
signal is a number of its length.

`VssMapping_proofs` follows a value from the file and the frame to the store, for all files,
mappings, numbers and frames within `FilesAssumption` and `MappersAssumption` (the keys of a
JSON object are distinct; without that `MapsAgree` fails). Its invariant is `Inv`:

- `DbInv`, what the database has of the lines read so far: the messages that began there,
  perhaps a message 0, each `MessageOK`: as long as it is sound, its signals are the signal
  lines so far, in their order, each with the layout of its line; and (`EndsAt`) the parser
  has gone past no line that throws, and stands before one that explains it if the program
  has ended. With all lines read it is `DatabaseIsTheFile` (`ParsedAsWritten`).
- `DecodesWhatWasSent` (`DecodedAsSent`), which `ReceiveAny` establishes anew. The start bit
  that the parser computes puts every bit where the DBC format has it (`LayoutConverted`), so
  the cells of a signal hold the number that the sender put there and no bit of another
  (`DataSent`) if no other shares them; by `DecodedValue` the report has its physical value,
  which `ValueRange` and `WellFormed` bound by what a float holds. `Ranked` and
  `Chosen` say that the reports are the selected signals in their order, so that each is
  reported once.
- `MapInv` (`MappingAgrees`): the keys of `m_vss2dbc_map` and the paths in `m_dbc2vss_map`
  are those of the pairs read so far. A pair still to come therefore has a new path, so it
  cannot turn an entry of the one map against the other.
- `PathInv`: a signal has the path of the last pair, of those read, that names it.
- `MsgInv` and `AgentInv`: the types of the reports, the maps and the store
  (`MappingTyped`), and that every report has the name of a signal of the message received,
  or `SG_`, from which `WritesItsPaths` follows.

`StoreIsWhatWasSent` puts them together: the path has the value of the report, and the
report that of the number sent.

All invariants and action properties of the passing runs are proved. Only model-checked is
everything under fairness, since TLAPS does not prove `ENABLED` and liveness here: the
liveness half of `ImplementsOrderedDelivery`, `JoinWaitsOnlyForSleepers`,
`RouterStopReturns`, `SetupAndStopEnd`, `Reconnects`, `JoinDbWaitsOnlyForSleeper`,
`CommandsSettle`, `BridgeStops`, `EverythingBridged`. The proofs are about the modules as they
are; where a module leaves something out, so does its theorem.

## Not modelled, and the plan

What is left: more than 15 frames in a packet, lists of transmitters with blanks and long
`SG_MUL_VAL_` lines, what the data races on a `deque` and on the list of observers may do
beyond what is modelled, and observers registered while the manager runs, which the program
does not do.

Not planned: the GUI (a client of Redis in another language), docker and test programs,
hiredis, yaml-cpp and Open1722 (third-party), the conversions of numbers to text and of
floats to words, fractions that are no multiple of a signal's unit, the template
that `VssMapper` can generate.
