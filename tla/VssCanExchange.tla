--------------------------- MODULE VssCanExchange ---------------------------
(***************************************************************************)
(* The threads of the vss-can-1722 program between the Ethernet sockets    *)
(* and the VSS mapping: one receiver thread per channel, then three stages *)
(* that each own a queue, a mutex, a condition variable and a thread,      *)
(*                                                                         *)
(*     receivers -> "agg" (Aggregator) -> "dm" (DataManager)               *)
(*               -> "agent" (CanAgent)                                     *)
(*                                                                         *)
(* and the main thread, which starts them, waits for a signal and stops    *)
(* them.  A frame is an identity (its channel and its number there).       *)
(*                                                                         *)
(* A critical section is one action, with one exception: the window of     *)
(* condition_variable::wait between the predicate and the sleep, in which  *)
(* the thread holds the mutex and a notification made without the mutex is *)
(* lost.  A thread in the window has the location "block".                 *)
(***************************************************************************)
EXTENDS Naturals, Sequences

CONSTANTS
  Channels,    \* the channels of the settings file
  MaxFrames,   \* bound: frames one channel hands to the aggregator
  MaxPdu       \* CAN frames in one AVTP packet, at most

ASSUME ChannelsAssumption == Channels # {}
ASSUME BoundsAssumption == MaxFrames \in Nat /\ MaxPdu \in Nat \ {0}

Stage == {"agg", "dm", "agent"}
Frame == [ch : Channels, n : 1..MaxFrames]
NoFrame == [ch |-> "none", n |-> 0]

VARIABLES
  m_queue,       \* stage -> its queue
  m_is_running,  \* stage -> its flag
  pc,            \* stage -> where its thread is
  msg,           \* the message that is a local of the dm or the agent thread
  m_observers,   \* DataManager::m_observers
  m_running,     \* channel -> Receiver::m_running
  rx,            \* channel -> where its receiver thread is
  received,      \* channel -> frames handed to the callback so far
  pending,       \* channel -> frames of the current packet still to hand over
  main,          \* where the main thread is
  turn,          \* the stage main starts or stops
  g_ready,       \* the flag the signal handler sets
  accepted,      \* history: the frames pushed on the aggregator's queue
  delivered      \* history: the frames CanAgent::processMessage is done with

stages    == <<m_queue, m_is_running, pc, msg>>
receivers == <<m_running, rx, received, pending>>
mainVars  == <<main, turn, g_ready>>
history   == <<accepted, delivered>>
vars == <<stages, m_observers, receivers, mainVars, history>>

TypeOK ==
  /\ m_queue \in [Stage -> Seq(Frame)]
  /\ m_is_running \in [Stage -> BOOLEAN]
  /\ pc \in [Stage -> {"off", "loop", "test", "block", "wait",
                       "work", "notify", "pop", "done"}]
  /\ msg \in [{"dm", "agent"} -> Frame \cup {NoFrame}]
  /\ m_observers \in SUBSET {"agent"}
  /\ m_running \in [Channels -> BOOLEAN]
  /\ rx \in [Channels -> {"off", "poll", "callback", "done"}]
  /\ received \in [Channels -> 0..MaxFrames]
  /\ pending \in [Channels -> 0..MaxPdu]
  /\ \A c \in Channels : received[c] + pending[c] <= MaxFrames
  /\ main \in {"start", "startRouter", "ready", "block", "wait", "unregister",
               "flag", "notify", "join", "drain", "stopRouter", "exit"}
  /\ turn \in Stage
  /\ g_ready \in BOOLEAN
  /\ accepted \in Seq(Frame)
  /\ delivered \in Seq(Frame)

Init ==
  /\ m_queue = [w \in Stage |-> <<>>]
  /\ m_is_running = [w \in Stage |-> FALSE]
  /\ pc = [w \in Stage |-> "off"]
  /\ msg = [w \in {"dm", "agent"} |-> NoFrame]
  /\ m_observers = {"agent"}
  /\ m_running = [c \in Channels |-> FALSE]
  /\ rx = [c \in Channels |-> "off"]
  /\ received = [c \in Channels |-> 0]
  /\ pending = [c \in Channels |-> 0]
  /\ main = "start" /\ turn = "agent"
  /\ g_ready = FALSE
  /\ accepted = <<>> /\ delivered = <<>>

-----------------------------------------------------------------------------
(* The stages' threads.                                                    *)

\* Mutated form of Woken: the push forgets notify_one.
NobodyWoken(w) == pc[w]

\* The location of stage w's thread after notify_one on its condition variable.
Woken(w) == IF pc[w] = "wait" THEN "test" ELSE pc[w]

\* Mutated forms of MutexFree: a push made without the lock; and a run() that
\* leaves its loop with the mutex locked.
NoMutex(w) == w \in Stage
MutexKeptAtExit(w) == pc[w] \notin {"block", "done"}

\* A stage's mutex is free for others unless its thread is in the window.
MutexFree(w) == pc[w] # "block"

\* while (m_is_running)
Loop(w) ==
  /\ pc[w] = "loop"
  /\ pc' = [pc EXCEPT ![w] = IF m_is_running[w] THEN "test" ELSE "done"]
  /\ UNCHANGED <<m_queue, m_is_running, msg, m_observers, receivers, mainVars, history>>

\* With the mutex: the predicate of wait, then the check of the flag behind it.
\* The agent takes the message off its queue at once, the others use the front.
Test(w) ==
  /\ pc[w] = "test"
  /\ \/ /\ ~m_is_running[w]
        /\ pc' = [pc EXCEPT ![w] = "done"]
        /\ UNCHANGED <<m_queue, msg>>
     \/ /\ m_is_running[w] /\ m_queue[w] # <<>>
        /\ pc' = [pc EXCEPT ![w] = "work"]
        /\ IF w = "agent"
           THEN /\ msg' = [msg EXCEPT !["agent"] = Head(m_queue["agent"])]
                /\ m_queue' = [m_queue EXCEPT !["agent"] = Tail(@)]
           ELSE UNCHANGED <<m_queue, msg>>
     \/ /\ m_is_running[w] /\ m_queue[w] = <<>>
        /\ pc' = [pc EXCEPT ![w] = "block"]
        /\ UNCHANGED <<m_queue, msg>>
  /\ UNCHANGED <<m_is_running, m_observers, receivers, mainVars, history>>

\* The wait set is entered and the mutex released.
Sleep(w) ==
  /\ pc[w] = "block"
  /\ pc' = [pc EXCEPT ![w] = "wait"]
  /\ UNCHANGED <<m_queue, m_is_running, msg, m_observers, receivers, mainVars, history>>

\* A condition variable may wake a thread nobody notified.
SpuriousWakeup(w) ==
  /\ pc[w] = "wait"
  /\ pc' = [pc EXCEPT ![w] = "test"]
  /\ UNCHANGED <<m_queue, m_is_running, msg, m_observers, receivers, mainVars, history>>

\* m_handler.handleCallback(front): the callback of DataManager::init pushes
\* the frame on the data manager's queue.
Forward ==
  /\ pc["agg"] = "work" /\ MutexFree("dm")
  /\ m_queue' = [m_queue EXCEPT !["dm"] = Append(@, Head(m_queue["agg"]))]
  /\ pc' = [pc EXCEPT !["agg"] = "pop", !["dm"] = Woken("dm")]
  /\ UNCHANGED <<m_is_running, msg, m_observers, receivers, mainVars, history>>

\* Mutated form of ProcessReceivedMessage: an unknown id ends it early.
UnknownIdReturnsEarly ==
  /\ pc["dm"] = "work"
  /\ pc' = [pc EXCEPT !["dm"] = "pop"]
  /\ UNCHANGED <<m_queue, m_is_running, msg, m_observers, receivers, mainVars, history>>

\* processReceivedMessage(front) up to the loop over the observers: the CAN
\* message is built, known to the database or not, and the loop copies the pointer to
\* the observer that there is now.  (Erased between these two, it is still in memory.)
ProcessReceivedMessage ==
  /\ pc["dm"] = "work"
  /\ IF m_observers # {}
     THEN /\ msg' = [msg EXCEPT !["dm"] = Head(m_queue["dm"])]
          /\ pc' = [pc EXCEPT !["dm"] = "notify"]
     ELSE /\ pc' = [pc EXCEPT !["dm"] = "pop"]
          /\ UNCHANGED msg
  /\ UNCHANGED <<m_queue, m_is_running, m_observers, receivers, mainVars, history>>

\* items->update(can_msg), which is CanAgent::update.
NotifyAgent ==
  /\ pc["dm"] = "notify" /\ MutexFree("agent")
  /\ m_queue' = [m_queue EXCEPT !["agent"] = Append(@, msg["dm"])]
  /\ msg' = [msg EXCEPT !["dm"] = NoFrame]
  /\ pc' = [pc EXCEPT !["dm"] = "pop", !["agent"] = Woken("agent")]
  /\ UNCHANGED <<m_is_running, m_observers, receivers, mainVars, history>>

\* Mutated form of Pop: the pop behind the processing is missing.
MissingPop(w) ==
  /\ w # "agent" /\ pc[w] = "pop"
  /\ pc' = [pc EXCEPT ![w] = "loop"]
  /\ UNCHANGED <<m_queue, m_is_running, msg, m_observers, receivers, mainVars, history>>

\* The front is released only after it was processed.
Pop(w) ==
  /\ w # "agent" /\ pc[w] = "pop"
  /\ m_queue' = [m_queue EXCEPT ![w] = Tail(@)]
  /\ pc' = [pc EXCEPT ![w] = "loop"]
  /\ UNCHANGED <<m_is_running, msg, m_observers, receivers, mainVars, history>>

\* CanAgent::processMessage, the work of the last stage.
ProcessMessage ==
  /\ pc["agent"] = "work"
  /\ delivered' = Append(delivered, msg["agent"])
  /\ msg' = [msg EXCEPT !["agent"] = NoFrame]
  /\ pc' = [pc EXCEPT !["agent"] = "loop"]
  /\ UNCHANGED <<m_queue, m_is_running, m_observers, receivers, mainVars, accepted>>

-----------------------------------------------------------------------------
(* The receivers' threads.  A poll that times out and a packet without a   *)
(* CAN frame change nothing.                                               *)

Receive(c) ==
  /\ rx[c] = "poll" /\ m_running[c]
  /\ \E k \in 1..MaxPdu :
       /\ received[c] + k <= MaxFrames
       /\ pending' = [pending EXCEPT ![c] = k]
  /\ rx' = [rx EXCEPT ![c] = "callback"]
  /\ UNCHANGED <<stages, m_observers, m_running, received, mainVars, history>>

\* The loop over the frames of the packet ends with this one; and a mutated
\* form, the loop that runs up to num_can_msgs and not below it.
OffByOneLast(c) == pending[c] = 0
LastOfPacket(c) == pending[c] = 1

\* One frame of the packet: the aggregator's callback pushes it and notifies.
\* The rest of the packet is handed over whether or not m_running still holds.
Callback(c) ==
  /\ rx[c] = "callback" /\ MutexFree("agg")
  /\ LET f == [ch |-> c, n |-> received[c] + 1]
     IN  /\ m_queue' = [m_queue EXCEPT !["agg"] = Append(@, f)]
         /\ accepted' = Append(accepted, f)
  /\ pc' = [pc EXCEPT !["agg"] = Woken("agg")]
  /\ received' = [received EXCEPT ![c] = @ + 1]
  /\ pending' = [pending EXCEPT ![c] = @ - 1]
  /\ rx' = [rx EXCEPT ![c] = IF LastOfPacket(c) THEN "poll" ELSE "callback"]
  /\ UNCHANGED <<m_is_running, msg, m_observers, m_running, mainVars, delivered>>

\* Between two packets, or within 500 ms without one, m_running is seen.
ReceiverExit(c) ==
  /\ rx[c] = "poll" /\ ~m_running[c]
  /\ rx' = [rx EXCEPT ![c] = "done"]
  /\ UNCHANGED <<stages, m_observers, m_running, received, pending, mainVars, history>>

-----------------------------------------------------------------------------
(* The main thread and the signal handler.                                 *)

\* VssCanExchange::start: the agent, the data manager, the aggregator.
StartStage ==
  /\ main = "start"
  /\ m_is_running' = [m_is_running EXCEPT ![turn] = TRUE]
  /\ pc' = [pc EXCEPT ![turn] = "loop"]
  /\ IF turn = "agg" THEN main' = "startRouter" /\ UNCHANGED turn
     ELSE /\ turn' = IF turn = "agent" THEN "dm" ELSE "agg"
          /\ UNCHANGED main
  /\ UNCHANGED <<m_queue, msg, m_observers, receivers, g_ready, history>>

\* DataRouter::start: one channel after the other.
StartReceiver(c) ==
  /\ main = "startRouter" /\ rx[c] = "off"
  /\ m_running' = [m_running EXCEPT ![c] = TRUE]
  /\ rx' = [rx EXCEPT ![c] = "poll"]
  /\ UNCHANGED <<stages, m_observers, received, pending, mainVars, history>>

\* The handlers are installed; before that a signal ends the process.
InstallHandlers ==
  /\ main = "startRouter" /\ \A c \in Channels : rx[c] # "off"
  /\ main' = "ready"
  /\ UNCHANGED <<stages, m_observers, receivers, turn, g_ready, history>>

\* g_cond_var.wait with g_mutex held: the predicate ...
TestReady ==
  /\ main = "ready"
  /\ main' = IF g_ready THEN "unregister" ELSE "block"
  /\ UNCHANGED <<stages, m_observers, receivers, turn, g_ready, history>>

\* ... and the sleep.
MainSleep ==
  /\ main = "block"
  /\ main' = "wait"
  /\ UNCHANGED <<stages, m_observers, receivers, turn, g_ready, history>>

MainSpuriousWakeup ==
  /\ main = "wait"
  /\ main' = "ready"
  /\ UNCHANGED <<stages, m_observers, receivers, turn, g_ready, history>>

\* handleSignal, on whatever thread the kernel picked, without g_mutex.  It
\* interrupts the poll of a receiver thread (poll is never restarted), and
\* run() returns on the error.
HandleSignal ==
  /\ main \notin {"start", "startRouter", "exit"}
  /\ g_ready' = TRUE
  /\ main' = IF main = "wait" THEN "ready" ELSE main
  /\ \/ UNCHANGED rx
     \/ \E c \in Channels : rx[c] = "poll" /\ rx' = [rx EXCEPT ![c] = "done"]
  /\ UNCHANGED <<stages, m_observers, m_running, received, pending, turn, history>>

\* VssCanExchange::stop: the observer leaves without a lock ...
UnRegister ==
  /\ main = "unregister"
  /\ m_observers' = {}
  /\ main' = "flag" /\ turn' = "dm"
  /\ UNCHANGED <<stages, receivers, g_ready, history>>

\* ... and the stop() of the data manager, which calls that of the aggregator
\* at its end, and that of the agent: the flag is cleared, without the mutex ...
ClearRunning ==
  /\ main = "flag"
  /\ m_is_running' = [m_is_running EXCEPT ![turn] = FALSE]
  /\ main' = "notify"
  /\ UNCHANGED <<m_queue, pc, msg, m_observers, receivers, turn, g_ready, history>>

\* ... one notification, which a thread in the window does not see ...
NotifyStage ==
  /\ main = "notify"
  /\ pc' = [pc EXCEPT ![turn] = Woken(turn)]
  /\ main' = "join"
  /\ UNCHANGED <<m_queue, m_is_running, msg, m_observers, receivers, turn, g_ready, history>>

\* Mutated form of Join: the thread is detached.
DetachInstead ==
  /\ main = "join"
  /\ main' = "drain"
  /\ UNCHANGED <<stages, m_observers, receivers, turn, g_ready, history>>

Join ==
  /\ main = "join" /\ pc[turn] = "done"
  /\ main' = "drain"
  /\ UNCHANGED <<stages, m_observers, receivers, turn, g_ready, history>>

\* ... and the queue is emptied, pop by pop and without the mutex.  A push beside it is
\* taken to come before or after the pop.
DrainOne ==
  /\ main = "drain" /\ m_queue[turn] # <<>>
  /\ m_queue' = [m_queue EXCEPT ![turn] = Tail(@)]
  /\ UNCHANGED <<m_is_running, pc, msg, m_observers, receivers, mainVars, history>>

\* The queue was seen empty: what follows in the three stop() functions.
Drained ==
  /\ main = "drain" /\ m_queue[turn] = <<>>
  /\ \/ turn = "dm" /\ turn' = "agg" /\ main' = "flag"
     \/ turn = "agg" /\ main' = "stopRouter" /\ UNCHANGED turn
     \/ turn = "agent" /\ main' = "exit" /\ UNCHANGED turn
  /\ UNCHANGED <<stages, m_observers, receivers, g_ready, history>>

\* DataRouter::stop: Receiver::stop clears the flag and joins, so the next
\* channel is told only when the receiver before it is gone.
StopReceiver(c) ==
  /\ main = "stopRouter" /\ m_running[c]
  /\ \A d \in Channels : m_running[d] \/ rx[d] = "done"
  /\ m_running' = [m_running EXCEPT ![c] = FALSE]
  /\ UNCHANGED <<stages, m_observers, rx, received, pending, mainVars, history>>

\* The last receiver is joined; the data manager's stop() clears the observers
\* and returns, and VssCanExchange::stop goes on to the agent.
RouterStopped ==
  /\ main = "stopRouter"
  /\ \A c \in Channels : ~m_running[c] /\ rx[c] = "done"
  /\ m_observers' = {}
  /\ main' = "flag" /\ turn' = "agent"
  /\ UNCHANGED <<stages, receivers, g_ready, history>>

-----------------------------------------------------------------------------
AggregatorStep == Loop("agg") \/ Test("agg") \/ Sleep("agg") \/ Forward \/ Pop("agg")
DataManagerStep == \/ Loop("dm") \/ Test("dm") \/ Sleep("dm")
                   \/ ProcessReceivedMessage \/ NotifyAgent \/ Pop("dm")
AgentStep == Loop("agent") \/ Test("agent") \/ Sleep("agent") \/ ProcessMessage
MainStep ==
  \/ StartStage \/ InstallHandlers \/ TestReady \/ MainSleep
  \/ UnRegister \/ ClearRunning \/ NotifyStage \/ Join \/ DrainOne \/ Drained
  \/ RouterStopped
  \/ \E c \in Channels : StartReceiver(c) \/ StopReceiver(c)

Next ==
  \/ AggregatorStep \/ DataManagerStep \/ AgentStep \/ MainStep
  \/ \E c \in Channels : Receive(c) \/ Callback(c) \/ ReceiverExit(c)
  \/ \E w \in Stage : SpuriousWakeup(w)
  \/ MainSpuriousWakeup \/ HandleSignal

\* Every thread runs on.  A lock() of a mutex that is free again and again
\* succeeds (strong fairness of the three steps that push).  Packets, signals
\* and spurious wakeups need not come.
Fairness ==
  /\ WF_vars(AggregatorStep) /\ WF_vars(DataManagerStep) /\ WF_vars(AgentStep)
  /\ WF_vars(MainStep)
  /\ SF_vars(Forward) /\ SF_vars(NotifyAgent)
  /\ \A c \in Channels : SF_vars(Callback(c)) /\ WF_vars(ReceiverExit(c))

Spec == Init /\ [][Next]_vars
FairSpec == Spec /\ Fairness

-----------------------------------------------------------------------------
(* Properties.                                                             *)

\* A stage's thread sleeps on its condition variable only while its queue is
\* empty: every push is made with the mutex, so no push is ever missed
\* (Aggregator.cpp:83-85, DataManager.cpp:63-65, CanAgent.cpp:53-55).
SleepersHaveNoWork == \A w \in Stage : pc[w] = "wait" => m_queue[w] = <<>>

\* What a stage has not passed on yet: its queue without the front that it
\* has passed on and not yet released.
Backlog(w) == IF pc[w] = "pop" THEN Tail(m_queue[w]) ELSE m_queue[w]
InHand == IF pc["agent"] = "work" THEN <<msg["agent"]>> ELSE <<>>

\* Until the observer is removed the three queues and the hand-overs between
\* them are one queue: no frame is lost, doubled or overtaken, at any moment
\* of any interleaving of the receivers and the three threads.
PipelineIsOneQueue ==
  m_observers # {} =>
    accepted = delivered \o InHand \o m_queue["agent"] \o Backlog("dm") \o Backlog("agg")

\* Also while the program stops, with queues drained under the threads that
\* fill them: the agent processes a prefix of what was accepted.
DeliveredIsPrefix ==
  /\ Len(delivered) <= Len(accepted)
  /\ \A i \in 1..Len(delivered) : delivered[i] = accepted[i]

\* The reference to the front that run() uses outside the lock
\* (DataManager.cpp:90, Aggregator.cpp:132) is not pulled from under it: while
\* a thread is between taking it and its own pop, no step of anyone changes
\* the element, in spite of the unlocked pops of stop().
FrontIsPinned ==
  [][\A w \in {"agg", "dm"} :
        pc[w] \in {"work", "notify", "pop"} /\ ~Pop(w) =>
           m_queue'[w] # <<>> /\ Head(m_queue'[w]) = Head(m_queue[w])]_vars

\* The agent's flag is cleared only when nobody is left who could push on its
\* queue or take its mutex; so its drain is alone, unlike the two before it.
\* And when main returns no thread is left behind.
ShutdownOrder ==
  /\ main \in {"flag", "notify", "join", "drain", "exit"} /\ turn = "agent" =>
       /\ pc["dm"] = "done" /\ pc["agg"] = "done"
       /\ \A c \in Channels : rx[c] = "done"
  /\ main = "exit" => pc["agent"] = "done" /\ m_queue["agent"] = <<>>

\* stop() hangs in no other way than the lost notification: while main waits
\* for a stage, either the join comes to an end or that stage's thread is
\* asleep.  In particular no two threads wait for each other's mutex.
JoinWaitsOnlyForSleepers == (main = "join") ~> (main = "drain" \/ pc[turn] = "wait")

\* Once the data manager and the aggregator are stopped the stop of the router
\* comes to an end and that of the agent begins, although the receivers go on
\* pushing on a queue that nobody reads any more.
RouterStopReturns == (main = "stopRouter") ~> (main = "flag" /\ turn = "agent")

\* What the tests print around stop(), "Main stop() IN" and "Main stop() OUT"
\* (test_aggregator.cpp:82-84): a stop that has begun returns.
StopReturns == (main = "unregister") ~> (main = "exit")

\* The pipeline implements OrderedDelivery, its fairness included: in order, at
\* most once, and everything accepted while no signal came is processed
\* (Receiver.cpp:191-199 through CanAgent.cpp:111-127).
OD == INSTANCE OrderedDelivery WITH Frames <- Frame, closing <- g_ready
ImplementsOrderedDelivery == OD!Spec
=============================================================================
