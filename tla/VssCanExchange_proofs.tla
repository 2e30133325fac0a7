----------------------- MODULE VssCanExchange_proofs -----------------------
(***************************************************************************)
(* Proofs about VssCanExchange for every set of channels and every bound.  *)
(***************************************************************************)
EXTENDS VssCanExchange, SequenceTheorems, TLAPS

LEMMA AppendFrame ==
  ASSUME NEW q \in Seq(Frame), NEW f \in Frame
  PROVE  Append(q, f) \in Seq(Frame) /\ Append(q, f) # <<>>
  BY AppendProperties

-----------------------------------------------------------------------------
(* Types.  TypeOK is not inductive: the front of a queue is a frame only    *)
(* if the queue has one, and a local message only after it was set.         *)

\* What a thread is in the middle of using is there.
HandsFull ==
  /\ \A w \in {"agg", "dm"} : pc[w] \in {"work", "notify", "pop"} => m_queue[w] # <<>>
  /\ pc["dm"] = "notify" => msg["dm"] \in Frame
  /\ pc["agent"] = "work" => msg["agent"] \in Frame
  /\ \A c \in Channels : rx[c] = "callback" => pending[c] # 0

\* Locations no thread of that stage has.
Locations == pc["agg"] # "notify" /\ pc["agent"] \notin {"notify", "pop"}

\* A queue is drained only after its thread was joined.
DrainAfterJoin == main = "drain" => pc[turn] = "done"

\* A stage that main is about to start, or has yet to come to, has no thread.
StartedOnce ==
  main = "start" => /\ pc[turn] = "off"
                    /\ turn # "agg" => pc["agg"] = "off"
                    /\ turn = "agent" => pc["dm"] = "off"

TypeInv == TypeOK /\ HandsFull /\ Locations /\ DrainAfterJoin /\ StartedOnce

LEMMA InitTypeInv == Init => TypeInv
<1> SUFFICES ASSUME Init PROVE TypeInv
  OBVIOUS
<1>1. TypeOK
  <2>1. <<>> \in Seq(Frame)
    BY EmptySeq
  <2>2. 0 \in 0..MaxFrames /\ 0 \in 0..MaxPdu /\ 0 + 0 <= MaxFrames
    BY BoundsAssumption
  <2>3. /\ received \in [Channels -> 0..MaxFrames] /\ pending \in [Channels -> 0..MaxPdu]
        /\ \A c \in Channels : received[c] + pending[c] <= MaxFrames
    BY <2>2 DEF Init
  <2> QED
    BY <2>1, <2>3 DEF Init, TypeOK, Stage
<1>2. HandsFull /\ Locations /\ DrainAfterJoin /\ StartedOnce
  BY DEF Init, HandsFull, Locations, DrainAfterJoin, StartedOnce, Stage
<1> QED
  BY <1>1, <1>2 DEF TypeInv

\* The frame a callback passes is one, and it is counted within the bounds.
LEMMA CallbackFrame ==
  ASSUME TypeInv, NEW c \in Channels, Callback(c)
  PROVE  /\ pending[c] \in 1..MaxPdu /\ received[c] + 1 \in 1..MaxFrames
         /\ [ch |-> c, n |-> received[c] + 1] \in Frame
<1>1. /\ pending[c] \in 0..MaxPdu /\ pending[c] # 0
      /\ received[c] \in 0..MaxFrames /\ received[c] + pending[c] <= MaxFrames
  BY DEF TypeInv, TypeOK, HandsFull, Callback
<1>2. pending[c] \in 1..MaxPdu /\ received[c] + 1 \in 1..MaxFrames
  BY <1>1, BoundsAssumption
<1> QED
  BY <1>2 DEF Frame

\* What a callback does to the two counters of its channel, and to no other.
LEMMA CallbackCounters ==
  ASSUME TypeInv, NEW c \in Channels, Callback(c)
  PROVE  /\ pending' \in [Channels -> 0..MaxPdu] /\ received' \in [Channels -> 0..MaxFrames]
         /\ \A d \in Channels : received'[d] + pending'[d] <= MaxFrames
         /\ \A d \in Channels : rx'[d] = "callback" => pending'[d] # 0
         /\ received'[c] # received[c]
<1>1. /\ pending \in [Channels -> 0..MaxPdu] /\ received \in [Channels -> 0..MaxFrames]
      /\ \A d \in Channels : received[d] + pending[d] <= MaxFrames
      /\ \A d \in Channels : rx[d] = "callback" => pending[d] # 0
      /\ rx \in [Channels -> {"off", "poll", "callback", "done"}]
  BY DEF TypeInv, TypeOK, HandsFull
<1>2. pending[c] \in 1..MaxPdu /\ received[c] + 1 \in 1..MaxFrames
  BY CallbackFrame
<1>3. /\ pending' = [pending EXCEPT ![c] = @ - 1] /\ received' = [received EXCEPT ![c] = @ + 1]
      /\ rx' = [rx EXCEPT ![c] = IF pending[c] = 1 THEN "poll" ELSE "callback"]
  BY DEF Callback, LastOfPacket
<1>4. pending[c] - 1 \in 0..MaxPdu /\ received[c] + 1 \in 0..MaxFrames
  BY <1>2, BoundsAssumption
<1>5. /\ pending'[c] = pending[c] - 1 /\ received'[c] = received[c] + 1
      /\ rx'[c] = IF pending[c] = 1 THEN "poll" ELSE "callback"
  BY <1>1, <1>3
<1>6. ASSUME NEW d \in Channels, d # c
      PROVE  pending'[d] = pending[d] /\ received'[d] = received[d] /\ rx'[d] = rx[d]
  BY <1>1, <1>3, <1>6
<1>7. pending' \in [Channels -> 0..MaxPdu]
  BY <1>1, <1>3, <1>4
<1>8. received' \in [Channels -> 0..MaxFrames]
  BY <1>1, <1>3, <1>4
<1>9. /\ received'[c] + pending'[c] <= MaxFrames /\ received'[c] # received[c]
      /\ rx'[c] = "callback" => pending'[c] # 0
  <2>1. pending[c] \in Nat /\ received[c] \in Nat /\ received[c] + pending[c] <= MaxFrames
    BY <1>1, BoundsAssumption
  <2> QED
    BY <1>5, <2>1, BoundsAssumption
<1>10. \A d \in Channels : received'[d] + pending'[d] <= MaxFrames
  BY <1>1, <1>6, <1>9
<1>11. \A d \in Channels : rx'[d] = "callback" => pending'[d] # 0
  BY <1>1, <1>6, <1>9
<1> QED
  BY <1>7, <1>8, <1>9, <1>10, <1>11

LEMMA NextTypeInv == TypeInv /\ [Next]_vars => TypeInv'
<1> SUFFICES ASSUME TypeInv, [Next]_vars PROVE TypeInv'
  OBVIOUS
<1> USE BoundsAssumption DEF TypeInv, TypeOK, HandsFull, Locations, DrainAfterJoin, StartedOnce,
        Stage, stages, receivers, mainVars, history
<1>1. CASE UNCHANGED vars
  BY <1>1 DEF vars
<1>2. ASSUME NEW w \in Stage, Loop(w) PROVE TypeInv'
  BY <1>2 DEF Loop
<1>3. ASSUME NEW w \in Stage, Test(w) PROVE TypeInv'
  <2>1. m_queue[w] # <<>> => Head(m_queue[w]) \in Frame /\ Tail(m_queue[w]) \in Seq(Frame)
    OBVIOUS
  <2>2. CASE ~m_is_running[w]
    BY <1>3, <2>2 DEF Test
  <2>3. CASE m_is_running[w] /\ m_queue[w] = <<>>
    BY <1>3, <2>3 DEF Test
  <2>4. CASE m_is_running[w] /\ m_queue[w] # <<>> /\ w # "agent"
    BY <1>3, <2>4 DEF Test
  <2>5. CASE m_is_running[w] /\ m_queue[w] # <<>> /\ w = "agent"
    <3>1. /\ msg' = [msg EXCEPT !["agent"] = Head(m_queue["agent"])]
          /\ m_queue' = [m_queue EXCEPT !["agent"] = Tail(@)]
          /\ pc' = [pc EXCEPT !["agent"] = "work"]
          /\ UNCHANGED <<m_is_running, m_observers, receivers, mainVars, history>>
      BY <1>3, <2>5 DEF Test
    <3>2. m_queue' \in [Stage -> Seq(Frame)]
      BY <2>1, <2>5, <3>1
    <3>3. msg' \in [{"dm", "agent"} -> Frame \cup {NoFrame}] /\ msg'["agent"] \in Frame
      BY <2>1, <2>5, <3>1
    <3>4. m_queue'["agg"] = m_queue["agg"] /\ m_queue'["dm"] = m_queue["dm"]
      BY <3>1
    <3>5. pc["agent"] = "test" /\ msg'["dm"] = msg["dm"]
      BY <1>3, <2>5, <3>1 DEF Test
    <3> QED
      BY <3>1, <3>2, <3>3, <3>4, <3>5
  <2> QED
    BY <2>2, <2>3, <2>4, <2>5
<1>4. ASSUME NEW w \in Stage, Sleep(w) PROVE TypeInv'
  BY <1>4 DEF Sleep
<1>5. ASSUME NEW w \in Stage, SpuriousWakeup(w) PROVE TypeInv'
  BY <1>5 DEF SpuriousWakeup
<1>6. CASE Forward
  <2>1. Head(m_queue["agg"]) \in Frame
    BY <1>6 DEF Forward
  <2>2. m_queue' \in [Stage -> Seq(Frame)] /\ m_queue'["dm"] # <<>>
    BY <1>6, <2>1, AppendFrame DEF Forward
  <2>3. m_queue'["agg"] = m_queue["agg"] /\ m_queue["agg"] # <<>>
    BY <1>6 DEF Forward
  <2> QED
    BY <1>6, <2>2, <2>3 DEF Forward, Woken
<1>7. CASE ProcessReceivedMessage
  BY <1>7 DEF ProcessReceivedMessage
<1>8. CASE NotifyAgent
  BY <1>8 DEF NotifyAgent, Woken
<1>9. ASSUME NEW w \in Stage, Pop(w) PROVE TypeInv'
  BY <1>9 DEF Pop
<1>10. CASE ProcessMessage
  BY <1>10 DEF ProcessMessage
<1>11. ASSUME NEW c \in Channels, Receive(c) PROVE TypeInv'
  BY <1>11 DEF Receive
<1>12. ASSUME NEW c \in Channels, Callback(c) PROVE TypeInv'
  <2> DEFINE f == [ch |-> c, n |-> received[c] + 1]
  <2>1. pending[c] \in 1..MaxPdu /\ received[c] + 1 \in 1..MaxFrames
    BY <1>12, CallbackFrame
  <2>2. f \in Frame
    BY <1>12, CallbackFrame
  <2> HIDE DEF f
  <2>3. /\ m_queue' = [m_queue EXCEPT !["agg"] = Append(@, f)]
        /\ accepted' = Append(accepted, f)
    BY <1>12 DEF Callback, f
  <2>4. m_queue' \in [Stage -> Seq(Frame)] /\ accepted' \in Seq(Frame)
    BY <2>2, <2>3
  <2>5. m_queue'["agg"] # <<>> /\ m_queue'["dm"] = m_queue["dm"]
    BY <2>2, <2>3, AppendFrame
  <2>6. /\ pending' \in [Channels -> 0..MaxPdu] /\ received' \in [Channels -> 0..MaxFrames]
        /\ \A d \in Channels : received'[d] + pending'[d] <= MaxFrames
    BY <1>12, CallbackCounters
  <2>7. HandsFull'
    <3>1. /\ pc["dm"] = pc'["dm"] /\ pc["agent"] = pc'["agent"] /\ msg' = msg
      BY <1>12 DEF Callback
    <3>2. ASSUME NEW d \in Channels, rx'[d] = "callback" PROVE pending'[d] # 0
      BY <1>12, <3>2, CallbackCounters
    <3> QED
      BY <2>5, <3>1, <3>2
  <2> QED
    BY <1>12, <2>4, <2>6, <2>7 DEF Callback, Woken, LastOfPacket
<1>13. ASSUME NEW c \in Channels, ReceiverExit(c) PROVE TypeInv'
  BY <1>13 DEF ReceiverExit
<1>14. CASE StartStage
  BY <1>14 DEF StartStage
<1>15. ASSUME NEW c \in Channels, StartReceiver(c) PROVE TypeInv'
  BY <1>15 DEF StartReceiver
<1>16. CASE InstallHandlers \/ TestReady \/ MainSleep \/ MainSpuriousWakeup
  BY <1>16 DEF InstallHandlers, TestReady, MainSleep, MainSpuriousWakeup
<1>17. CASE HandleSignal
  <2>1. /\ UNCHANGED <<stages, m_observers, m_running, received, pending, turn, history>>
        /\ main \notin {"start", "startRouter", "exit"} /\ g_ready' = TRUE
        /\ main' = IF main = "wait" THEN "ready" ELSE main
    BY <1>17 DEF HandleSignal
  <2>2. rx' = rx \/ \E c \in Channels : rx[c] = "poll" /\ rx' = [rx EXCEPT ![c] = "done"]
    BY <1>17 DEF HandleSignal
  <2>3. /\ rx' \in [Channels -> {"off", "poll", "callback", "done"}]
        /\ \A d \in Channels : rx'[d] = "callback" => rx[d] = "callback"
    BY <2>2
  <2>4. TypeOK'
    BY <2>1, <2>3
  <2>5. HandsFull'
    BY <2>1, <2>3
  <2> QED
    BY <2>1, <2>4, <2>5
<1>18. CASE UnRegister
  BY <1>18 DEF UnRegister
<1>19. CASE ClearRunning
  BY <1>19 DEF ClearRunning
<1>20. CASE NotifyStage
  BY <1>20 DEF NotifyStage, Woken
<1>21. CASE Join
  BY <1>21 DEF Join
<1>22. CASE DrainOne
  BY <1>22 DEF DrainOne
<1>23. CASE Drained
  BY <1>23 DEF Drained
<1>24. ASSUME NEW c \in Channels, StopReceiver(c) PROVE TypeInv'
  BY <1>24 DEF StopReceiver
<1>25. CASE RouterStopped
  BY <1>25 DEF RouterStopped
<1> QED
  BY <1>1, <1>2, <1>3, <1>4, <1>5, <1>6, <1>7, <1>8, <1>9, <1>10, <1>11, <1>12, <1>13,
     <1>14, <1>15, <1>16, <1>17, <1>18, <1>19, <1>20, <1>21, <1>22, <1>23, <1>24, <1>25
  DEF Next, AggregatorStep, DataManagerStep, AgentStep, MainStep

\* Every reachable state is well typed, and no thread uses a front, a message
\* or a packet that is not there (the loops of Aggregator.cpp:118-141,
\* DataManager.cpp:80-101, CanAgent.cpp:91-109, Receiver.cpp:191-199).
THEOREM TypeCorrect == Spec => []TypeOK
<1>1. Spec => []TypeInv
  BY InitTypeInv, NextTypeInv, PTL DEF Spec
<1> QED
  BY <1>1, PTL DEF TypeInv
-----------------------------------------------------------------------------
(* No missed push.                                                         *)

\* What is inductive: from the moment the predicate was found false, with the
\* mutex still held, the queue stays empty while the thread does.
IdleHasNoWork == \A w \in Stage : pc[w] \in {"block", "wait"} => m_queue[w] = <<>>

LEMMA NextIdle ==
  TypeInv /\ IdleHasNoWork /\ [Next]_vars => IdleHasNoWork'
<1> SUFFICES ASSUME TypeInv, IdleHasNoWork, [Next]_vars PROVE IdleHasNoWork'
  OBVIOUS
<1> USE DEF IdleHasNoWork, TypeInv, TypeOK, Stage, stages, receivers, mainVars, history
<1>1. CASE UNCHANGED vars
  BY <1>1 DEF vars
<1>2. ASSUME NEW w \in Stage, Loop(w) PROVE IdleHasNoWork'
  BY <1>2 DEF Loop
<1>3. ASSUME NEW w \in Stage, Test(w) PROVE IdleHasNoWork'
  BY <1>3 DEF Test
<1>4. ASSUME NEW w \in Stage, Sleep(w) PROVE IdleHasNoWork'
  BY <1>4 DEF Sleep
<1>5. ASSUME NEW w \in Stage, SpuriousWakeup(w) PROVE IdleHasNoWork'
  BY <1>5 DEF SpuriousWakeup
<1>6. CASE Forward
  BY <1>6 DEF Forward, Woken, MutexFree
<1>7. CASE ProcessReceivedMessage
  BY <1>7 DEF ProcessReceivedMessage
<1>8. CASE NotifyAgent
  BY <1>8 DEF NotifyAgent, Woken, MutexFree
<1>9. ASSUME NEW w \in Stage, Pop(w) PROVE IdleHasNoWork'
  BY <1>9 DEF Pop
<1>10. CASE ProcessMessage
  BY <1>10 DEF ProcessMessage
<1>11. ASSUME NEW c \in Channels, Receive(c) PROVE IdleHasNoWork'
  BY <1>11 DEF Receive
<1>12. ASSUME NEW c \in Channels, Callback(c) PROVE IdleHasNoWork'
  BY <1>12 DEF Callback, Woken, MutexFree
<1>13. ASSUME NEW c \in Channels, ReceiverExit(c) PROVE IdleHasNoWork'
  BY <1>13 DEF ReceiverExit
<1>14. CASE StartStage
  BY <1>14 DEF StartStage
<1>15. ASSUME NEW c \in Channels, StartReceiver(c) PROVE IdleHasNoWork'
  BY <1>15 DEF StartReceiver
<1>16. CASE InstallHandlers \/ TestReady \/ MainSleep \/ MainSpuriousWakeup
  BY <1>16 DEF InstallHandlers, TestReady, MainSleep, MainSpuriousWakeup
<1>17. CASE HandleSignal
  BY <1>17 DEF HandleSignal
<1>18. CASE UnRegister
  BY <1>18 DEF UnRegister
<1>19. CASE ClearRunning
  BY <1>19 DEF ClearRunning
<1>20. CASE NotifyStage
  BY <1>20 DEF NotifyStage, Woken
<1>21. CASE Join
  BY <1>21 DEF Join
<1>22. CASE DrainOne
  BY <1>22 DEF DrainOne
<1>23. CASE Drained
  BY <1>23 DEF Drained
<1>24. ASSUME NEW c \in Channels, StopReceiver(c) PROVE IdleHasNoWork'
  BY <1>24 DEF StopReceiver
<1>25. CASE RouterStopped
  BY <1>25 DEF RouterStopped
<1> QED
  BY <1>1, <1>2, <1>3, <1>4, <1>5, <1>6, <1>7, <1>8, <1>9, <1>10, <1>11, <1>12, <1>13,
     <1>14, <1>15, <1>16, <1>17, <1>18, <1>19, <1>20, <1>21, <1>22, <1>23, <1>24, <1>25
  DEF Next, AggregatorStep, DataManagerStep, AgentStep, MainStep

\* A thread asleep on its condition variable has an empty queue: the push and
\* its notification are one critical section (Aggregator.cpp:83-85,
\* DataManager.cpp:63-65, CanAgent.cpp:53-55), so no wakeup for a frame is lost.
THEOREM NoMissedPush == Spec => []SleepersHaveNoWork
<1>1. Init => IdleHasNoWork
  BY DEF Init, IdleHasNoWork, Stage
<1>2. IdleHasNoWork => SleepersHaveNoWork
  BY DEF IdleHasNoWork, SleepersHaveNoWork
<1> QED
  BY <1>1, <1>2, InitTypeInv, NextTypeInv, NextIdle, PTL DEF Spec

-----------------------------------------------------------------------------
(* The order of the shutdown.                                              *)

Stopping == main \in {"flag", "notify", "join", "drain"}
UpstreamDone == /\ pc["dm"] = "done" /\ pc["agg"] = "done"
                /\ \A c \in Channels : rx[c] = "done"

\* How far the threads are when main is where it is.
StopPhases ==
  /\ Stopping /\ turn = "agg" => pc["dm"] = "done"
  /\ main = "stopRouter" => turn = "agg" /\ pc["dm"] = "done" /\ pc["agg"] = "done"
  /\ Stopping /\ turn = "agent" => UpstreamDone
  /\ main = "exit" => /\ turn = "agent" /\ UpstreamDone
                      /\ pc["agent"] = "done" /\ m_queue["agent"] = <<>>

LEMMA NextStopPhases == TypeInv /\ StopPhases /\ [Next]_vars => StopPhases'
<1> SUFFICES ASSUME TypeInv, StopPhases, [Next]_vars PROVE StopPhases'
  OBVIOUS
<1> USE DEF StopPhases, Stopping, UpstreamDone, TypeInv, TypeOK, DrainAfterJoin, Stage,
        stages, receivers, mainVars, history
<1>1. CASE UNCHANGED vars
  BY <1>1 DEF vars
<1>2. ASSUME NEW w \in Stage, Loop(w) PROVE StopPhases'
  BY <1>2 DEF Loop
<1>3. ASSUME NEW w \in Stage, Test(w) PROVE StopPhases'
  BY <1>3 DEF Test
<1>4. ASSUME NEW w \in Stage, Sleep(w) PROVE StopPhases'
  BY <1>4 DEF Sleep
<1>5. ASSUME NEW w \in Stage, SpuriousWakeup(w) PROVE StopPhases'
  BY <1>5 DEF SpuriousWakeup
<1>6. CASE Forward
  BY <1>6 DEF Forward, Woken, MutexFree
<1>7. CASE ProcessReceivedMessage
  BY <1>7 DEF ProcessReceivedMessage
<1>8. CASE NotifyAgent
  BY <1>8 DEF NotifyAgent, Woken, MutexFree
<1>9. ASSUME NEW w \in Stage, Pop(w) PROVE StopPhases'
  BY <1>9 DEF Pop
<1>10. CASE ProcessMessage
  BY <1>10 DEF ProcessMessage
<1>11. ASSUME NEW c \in Channels, Receive(c) PROVE StopPhases'
  BY <1>11 DEF Receive
<1>12. ASSUME NEW c \in Channels, Callback(c) PROVE StopPhases'
  BY <1>12 DEF Callback, Woken, MutexFree
<1>13. ASSUME NEW c \in Channels, ReceiverExit(c) PROVE StopPhases'
  BY <1>13 DEF ReceiverExit
<1>14. CASE StartStage
  BY <1>14 DEF StartStage
<1>15. ASSUME NEW c \in Channels, StartReceiver(c) PROVE StopPhases'
  BY <1>15 DEF StartReceiver
<1>16. CASE InstallHandlers \/ TestReady \/ MainSleep \/ MainSpuriousWakeup
  BY <1>16 DEF InstallHandlers, TestReady, MainSleep, MainSpuriousWakeup
<1>17. CASE HandleSignal
  BY <1>17 DEF HandleSignal
<1>18. CASE UnRegister
  BY <1>18 DEF UnRegister
<1>19. CASE ClearRunning
  BY <1>19 DEF ClearRunning
<1>20. CASE NotifyStage
  BY <1>20 DEF NotifyStage, Woken
<1>21. CASE Join
  BY <1>21 DEF Join
<1>22. CASE DrainOne
  BY <1>22 DEF DrainOne
<1>23. CASE Drained
  BY <1>23 DEF Drained
<1>24. ASSUME NEW c \in Channels, StopReceiver(c) PROVE StopPhases'
  BY <1>24 DEF StopReceiver
<1>25. CASE RouterStopped
  BY <1>25 DEF RouterStopped
<1> QED
  BY <1>1, <1>2, <1>3, <1>4, <1>5, <1>6, <1>7, <1>8, <1>9, <1>10, <1>11, <1>12, <1>13,
     <1>14, <1>15, <1>16, <1>17, <1>18, <1>19, <1>20, <1>21, <1>22, <1>23, <1>24, <1>25
  DEF Next, AggregatorStep, DataManagerStep, AgentStep, MainStep

\* When the agent is told to stop every thread that could push on its queue has
\* ended, and when main returns no thread of the program is left
\* (VssCanExchange.cpp:56-61 with DataManager.cpp:146-167, Aggregator.cpp:96-116).
THEOREM StopsInOrder == Spec => []ShutdownOrder
<1>1. Init => StopPhases
  BY DEF Init, StopPhases, Stopping
<1>2. StopPhases => ShutdownOrder
  BY DEF StopPhases, Stopping, UpstreamDone, ShutdownOrder
<1> QED
  BY <1>1, <1>2, InitTypeInv, NextTypeInv, NextStopPhases, PTL DEF Spec

-----------------------------------------------------------------------------
(* The front that is used without the lock.                                *)

Pinned(w) == pc[w] \in {"work", "notify", "pop"} /\ ~Pop(w) =>
               m_queue'[w] # <<>> /\ Head(m_queue'[w]) = Head(m_queue[w])

LEMMA HeadAppend ==
  ASSUME NEW q \in Seq(Frame), NEW f \in Frame, q # <<>>
  PROVE  Append(q, f) # <<>> /\ Head(Append(q, f)) = Head(q)
  BY AppendProperties, HeadTailAppend

LEMMA StepPinned == TypeInv /\ [Next]_vars => \A v \in {"agg", "dm"} : Pinned(v)
<1> SUFFICES ASSUME TypeInv, [Next]_vars, NEW v \in {"agg", "dm"},
                    pc[v] \in {"work", "notify", "pop"}, ~Pop(v)
             PROVE  m_queue'[v] # <<>> /\ Head(m_queue'[v]) = Head(m_queue[v])
  BY DEF Pinned
<1> DEFINE Goal == m_queue'[v] # <<>> /\ Head(m_queue'[v]) = Head(m_queue[v])
<1> USE DEF TypeInv, TypeOK, HandsFull, DrainAfterJoin, Stage, stages, receivers, mainVars, history
<1>1. CASE UNCHANGED vars
  BY <1>1 DEF vars
<1>2. ASSUME NEW w \in Stage, Loop(w) PROVE Goal
  BY <1>2 DEF Loop
<1>3. ASSUME NEW w \in Stage, Test(w) PROVE Goal
  BY <1>3 DEF Test
<1>4. ASSUME NEW w \in Stage, Sleep(w) PROVE Goal
  BY <1>4 DEF Sleep
<1>5. ASSUME NEW w \in Stage, SpuriousWakeup(w) PROVE Goal
  BY <1>5 DEF SpuriousWakeup
<1>6. CASE Forward
  <2>1. m_queue["agg"] # <<>> /\ Head(m_queue["agg"]) \in Frame
    BY <1>6 DEF Forward
  <2>2. m_queue' = [m_queue EXCEPT !["dm"] = Append(@, Head(m_queue["agg"]))]
    BY <1>6 DEF Forward
  <2>3. CASE v = "dm"
    BY <2>1, <2>2, <2>3, HeadAppend
  <2>4. CASE v = "agg"
    BY <2>1, <2>2, <2>4
  <2> QED
    BY <2>3, <2>4
<1>7. CASE ProcessReceivedMessage
  BY <1>7 DEF ProcessReceivedMessage
<1>8. CASE NotifyAgent
  BY <1>8 DEF NotifyAgent, Woken, MutexFree
<1>9. ASSUME NEW w \in Stage, Pop(w) PROVE Goal
  BY <1>9 DEF Pop
<1>10. CASE ProcessMessage
  BY <1>10 DEF ProcessMessage
<1>11. ASSUME NEW c \in Channels, Receive(c) PROVE Goal
  BY <1>11 DEF Receive
<1>12. ASSUME NEW c \in Channels, Callback(c) PROVE Goal
  <2> DEFINE f == [ch |-> c, n |-> received[c] + 1]
  <2>1. m_queue' = [m_queue EXCEPT !["agg"] = Append(@, f)]
    BY <1>12 DEF Callback
  <2>3. f \in Frame
    BY <1>12, CallbackFrame
  <2> HIDE DEF f
  <2>4. CASE v = "agg"
    BY <2>1, <2>3, <2>4, HeadAppend
  <2>5. CASE v = "dm"
    BY <2>1, <2>5
  <2> QED
    BY <2>4, <2>5
<1>13. ASSUME NEW c \in Channels, ReceiverExit(c) PROVE Goal
  BY <1>13 DEF ReceiverExit
<1>14. CASE StartStage
  BY <1>14 DEF StartStage
<1>15. ASSUME NEW c \in Channels, StartReceiver(c) PROVE Goal
  BY <1>15 DEF StartReceiver
<1>16. CASE InstallHandlers \/ TestReady \/ MainSleep \/ MainSpuriousWakeup
  BY <1>16 DEF InstallHandlers, TestReady, MainSleep, MainSpuriousWakeup
<1>17. CASE HandleSignal
  BY <1>17 DEF HandleSignal
<1>18. CASE UnRegister
  BY <1>18 DEF UnRegister
<1>19. CASE ClearRunning
  BY <1>19 DEF ClearRunning
<1>20. CASE NotifyStage
  BY <1>20 DEF NotifyStage, Woken
<1>21. CASE Join
  BY <1>21 DEF Join
<1>22. CASE DrainOne
  BY <1>22 DEF DrainOne
<1>23. CASE Drained
  BY <1>23 DEF Drained
<1>24. ASSUME NEW c \in Channels, StopReceiver(c) PROVE Goal
  BY <1>24 DEF StopReceiver
<1>25. CASE RouterStopped
  BY <1>25 DEF RouterStopped
<1> QED
  BY <1>1, <1>2, <1>3, <1>4, <1>5, <1>6, <1>7, <1>8, <1>9, <1>10, <1>11, <1>12, <1>13,
     <1>14, <1>15, <1>16, <1>17, <1>18, <1>19, <1>20, <1>21, <1>22, <1>23, <1>24, <1>25
  DEF Next, AggregatorStep, DataManagerStep, AgentStep, MainStep

\* The reference to the front that a thread holds outside the lock stays good
\* until its own pop (DataManager.cpp:90-97, Aggregator.cpp:132-138), also
\* against the unlocked pops of stop() (DataManager.cpp:158, Aggregator.cpp:111).
THEOREM FrontStays == Spec => FrontIsPinned
<1>1. TypeInv /\ [Next]_vars => [\A w \in {"agg", "dm"} : Pinned(w)]_vars
  BY StepPinned
<1> QED
  BY <1>1, InitTypeInv, NextTypeInv, PTL DEF Spec, FrontIsPinned, Pinned
-----------------------------------------------------------------------------
(* Three queues that are one.                                              *)

LEMMA AppendConcat ==
  ASSUME NEW x \in Seq(Frame), NEW y \in Seq(Frame), NEW e \in Frame
  PROVE  x \o Append(y, e) = Append(x \o y, e)
<1>1. <<e>> \in Seq(Frame) /\ x \o y \in Seq(Frame)
  BY ConcatProperties
<1>2. x \o (y \o <<e>>) = (x \o y) \o <<e>>
  BY <1>1, ConcatAssociative
<1>3. Append(y, e) = y \o <<e>>
  BY AppendIsConcat
<1>4. Append(x \o y, e) = (x \o y) \o <<e>>
  BY <1>1, AppendIsConcat
<1> QED
  BY <1>2, <1>3, <1>4

LEMMA Assoc ==
  ASSUME NEW s \in Seq(Frame), NEW t \in Seq(Frame), NEW u \in Seq(Frame)
  PROVE  (s \o t) \o u = s \o (t \o u)
  BY ConcatAssociative

LEMMA Closed ==
  ASSUME NEW s \in Seq(Frame), NEW t \in Seq(Frame)
  PROVE  s \o t \in Seq(Frame)
  BY ConcatProperties

Starts(s, y) == \E r \in Seq(Frame) : s = y \o r

LEMMA StartsShorter ==
  ASSUME NEW s, NEW y \in Seq(Frame), NEW d \in Seq(Frame), Starts(s, y \o d)
  PROVE  Starts(s, y)
<1>1. PICK r \in Seq(Frame) : s = (y \o d) \o r
  BY DEF Starts
<1>2. (y \o d) \o r = y \o (d \o r)
  BY Assoc
<1>3. d \o r \in Seq(Frame)
  BY Closed
<1> QED
  BY <1>1, <1>2, <1>3 DEF Starts

\* Moving the head of a queue to the end of what precedes it changes nothing.
LEMMA MoveHead ==
  ASSUME NEW x \in Seq(Frame), NEW q \in Seq(Frame), q # <<>>
  PROVE  /\ Head(q) \in Frame /\ Tail(q) \in Seq(Frame)
         /\ Append(x, Head(q)) \o Tail(q) = x \o q
<1>1. /\ Head(q) \in Frame /\ Tail(q) \in Seq(Frame) /\ Len(Tail(q)) = Len(q) - 1
      /\ \A i \in 1..Len(Tail(q)) : Tail(q)[i] = q[i + 1]
  BY HeadTailProperties
<1>2. Len(x) \in Nat /\ Len(q) \in Nat \ {0} /\ Head(q) = q[1]
  BY EmptySeq, LenProperties
<1> DEFINE s == Append(x, Head(q))
           l == s \o Tail(q)
           r == x \o q
<1>3. /\ s \in Seq(Frame) /\ Len(s) = Len(x) + 1
      /\ \A i \in 1..Len(x) : s[i] = x[i]
      /\ s[Len(x) + 1] = q[1]
  BY <1>1, <1>2, AppendProperties
<1> HIDE DEF s
<1>4. /\ l \in Seq(Frame) /\ Len(l) = Len(s) + Len(Tail(q))
      /\ \A i \in 1..Len(s) + Len(Tail(q)) :
            l[i] = IF i <= Len(s) THEN s[i] ELSE Tail(q)[i - Len(s)]
  BY <1>1, <1>3, ConcatProperties
<1>5. /\ r \in Seq(Frame) /\ Len(r) = Len(x) + Len(q)
      /\ \A i \in 1..Len(x) + Len(q) : r[i] = IF i <= Len(x) THEN x[i] ELSE q[i - Len(x)]
  BY ConcatProperties
<1> HIDE DEF l, r
<1>6. Len(l) = Len(r)
  BY <1>1, <1>2, <1>3, <1>4, <1>5
<1>7. ASSUME NEW i \in 1..Len(l) PROVE l[i] = r[i]
  <2>0. i \in 1..Len(x) + Len(q) /\ i \in 1..Len(s) + Len(Tail(q))
    BY <1>1, <1>2, <1>3, <1>4
  <2>1. CASE i <= Len(x)
    <3>1. i \in 1..Len(x) /\ i <= Len(s)
      BY <1>2, <1>3, <2>0, <2>1
    <3>2. l[i] = s[i] /\ r[i] = x[i]
      BY <1>4, <1>5, <2>0, <2>1, <3>1
    <3> QED
      BY <1>3, <3>1, <3>2
  <2>2. CASE i = Len(x) + 1
    <3>1. i <= Len(s) /\ ~(i <= Len(x)) /\ i - Len(x) = 1
      BY <1>2, <1>3, <2>0, <2>2
    <3>2. l[i] = s[i] /\ r[i] = q[1]
      BY <1>4, <1>5, <2>0, <3>1
    <3> QED
      BY <1>3, <2>2, <3>2
  <2>3. CASE i > Len(x) + 1
    <3>1. l[i] = Tail(q)[i - Len(s)] /\ r[i] = q[i - Len(x)]
      BY <1>1, <1>2, <1>3, <1>4, <1>5, <2>3
    <3>2. i - Len(s) \in 1..Len(Tail(q)) /\ i - Len(s) + 1 = i - Len(x)
      BY <1>1, <1>2, <1>3, <1>4, <2>3
    <3> QED
      BY <1>1, <3>1, <3>2
  <2> QED
    BY <1>2, <2>1, <2>2, <2>3
<1>8. l = r
  BY <1>4, <1>5, <1>6, <1>7, SeqEqual
<1> QED
  BY <1>1, <1>8 DEF l, r, s

\* One stage passes the head of the queue g on to the queue q before it.
LEMMA PassOn ==
  ASSUME NEW x \in Seq(Frame), NEW q \in Seq(Frame), NEW g \in Seq(Frame), g # <<>>
  PROVE  (x \o Append(q, Head(g))) \o Tail(g) = (x \o q) \o g
<1>1. x \o q \in Seq(Frame) /\ Head(g) \in Frame
  BY ConcatProperties, HeadTailProperties
<1>2. x \o Append(q, Head(g)) = Append(x \o q, Head(g))
  BY <1>1, AppendConcat
<1>3. Append(x \o q, Head(g)) \o Tail(g) = (x \o q) \o g
  BY <1>1, MoveHead
<1> QED
  BY <1>2, <1>3

Taken == delivered \o InHand

LEMMA PartsAreSequences ==
  TypeInv => /\ InHand \in Seq(Frame) /\ Taken \in Seq(Frame)
             /\ m_queue["agent"] \in Seq(Frame) /\ Backlog("dm") \in Seq(Frame)
             /\ Backlog("agg") \in Seq(Frame)
<1> SUFFICES ASSUME TypeInv
             PROVE  /\ InHand \in Seq(Frame) /\ Taken \in Seq(Frame)
                    /\ m_queue["agent"] \in Seq(Frame) /\ Backlog("dm") \in Seq(Frame)
                    /\ Backlog("agg") \in Seq(Frame)
  OBVIOUS
<1>1. /\ m_queue \in [Stage -> Seq(Frame)] /\ delivered \in Seq(Frame)
      /\ \A w \in {"agg", "dm"} : pc[w] = "pop" => m_queue[w] # <<>>
      /\ pc["agent"] = "work" => msg["agent"] \in Frame
  BY DEF TypeInv, TypeOK, HandsFull
<1>2. InHand \in Seq(Frame)
  BY <1>1 DEF InHand
<1>3. Taken \in Seq(Frame)
  BY <1>1, <1>2, ConcatProperties DEF Taken
<1>4. \A w \in {"agg", "dm"} : Backlog(w) \in Seq(Frame)
  BY <1>1, HeadTailProperties DEF Backlog, Stage
<1> QED
  BY <1>1, <1>2, <1>3, <1>4 DEF Stage

\* What has been taken, by the location of the agent's thread.
LEMMA TakenByLocation ==
  TypeInv => Taken = IF pc["agent"] = "work" THEN Append(delivered, msg["agent"])
                                             ELSE delivered
<1> SUFFICES ASSUME TypeInv
             PROVE  Taken = IF pc["agent"] = "work" THEN Append(delivered, msg["agent"])
                                                    ELSE delivered
  OBVIOUS
<1>1. delivered \in Seq(Frame) /\ (pc["agent"] = "work" => msg["agent"] \in Frame)
  BY DEF TypeInv, TypeOK, HandsFull
<1> QED
  BY <1>1, AppendIsConcat, ConcatEmptySeq DEF Taken, InHand

BeforeStop == {"start", "startRouter", "ready", "block", "wait", "unregister"}

PipeInv ==
  /\ m_observers # {} => main \in BeforeStop
  /\ m_observers # {} /\ pc["dm"] = "notify" => msg["dm"] = Head(m_queue["dm"])
  /\ PipelineIsOneQueue

\* All steps but those that pass a frame on leave the parts alone.  (While there
\* is no observer the data manager drops what it pops.)
LEMMA QuietSteps ==
  ASSUME TypeInv, TypeInv', [Next]_vars,
         ~Forward, ~NotifyAgent, ~ProcessMessage, ~Test("agent"),
         \A c \in Channels : ~Callback(c)
  PROVE  /\ UNCHANGED <<Taken, delivered, accepted>>
         /\ ~(main = "drain" /\ turn = "agent") => UNCHANGED m_queue["agent"]
         /\ main # "drain" /\ m_observers # {} => UNCHANGED <<Backlog("dm"), Backlog("agg")>>
<1> DEFINE Goal == /\ pc'["agent"] = "work" <=> pc["agent"] = "work"
                   /\ UNCHANGED <<delivered, accepted>>
                   /\ pc["agent"] = "work" => msg'["agent"] = msg["agent"]
                   /\ ~(main = "drain" /\ turn = "agent") =>
                        m_queue'["agent"] = m_queue["agent"]
                   /\ main # "drain" /\ m_observers # {} =>
                        \A v \in {"agg", "dm"} : Backlog(v)' = Backlog(v)
<1>0. Goal
  <2> USE DEF TypeInv, TypeOK, HandsFull, Locations, StartedOnce, Stage, stages, receivers, mainVars,
              history, Backlog
  <2>1. CASE UNCHANGED vars
    BY <2>1 DEF vars
  <2>2. ASSUME NEW w \in Stage, Loop(w) PROVE Goal
    BY <2>2 DEF Loop
  <2>3. ASSUME NEW w \in Stage, Test(w) PROVE Goal
    BY <2>3 DEF Test
  <2>4. ASSUME NEW w \in Stage, Sleep(w) PROVE Goal
    BY <2>4 DEF Sleep
  <2>5. ASSUME NEW w \in Stage, SpuriousWakeup(w) PROVE Goal
    BY <2>5 DEF SpuriousWakeup
  <2>6. CASE ProcessReceivedMessage
    BY <2>6 DEF ProcessReceivedMessage
  <2>7. ASSUME NEW w \in Stage, Pop(w) PROVE Goal
    BY <2>7 DEF Pop
  <2>8. ASSUME NEW c \in Channels, Receive(c) PROVE Goal
    BY <2>8 DEF Receive
  <2>9. ASSUME NEW c \in Channels, ReceiverExit(c) PROVE Goal
    BY <2>9 DEF ReceiverExit
  <2>10. CASE StartStage
    BY <2>10 DEF StartStage
  <2>11. ASSUME NEW c \in Channels, StartReceiver(c) PROVE Goal
    BY <2>11 DEF StartReceiver
  <2>12. CASE InstallHandlers \/ TestReady \/ MainSleep \/ MainSpuriousWakeup \/ HandleSignal
    BY <2>12 DEF InstallHandlers, TestReady, MainSleep, MainSpuriousWakeup, HandleSignal
  <2>13. CASE UnRegister \/ ClearRunning \/ Join \/ RouterStopped
    BY <2>13 DEF UnRegister, ClearRunning, Join, RouterStopped
  <2>14. CASE NotifyStage
    BY <2>14 DEF NotifyStage, Woken
  <2>15. CASE DrainOne \/ Drained
    BY <2>15 DEF DrainOne, Drained
  <2>16. ASSUME NEW c \in Channels, StopReceiver(c) PROVE Goal
    BY <2>16 DEF StopReceiver
  <2> QED
    BY <2>1, <2>2, <2>3, <2>4, <2>5, <2>6, <2>7, <2>8, <2>9, <2>10, <2>11, <2>12, <2>13,
       <2>14, <2>15, <2>16
    DEF Next, AggregatorStep, DataManagerStep, AgentStep, MainStep
<1> QED
  <2>1. (TypeInv => Taken = IF pc["agent"] = "work" THEN Append(delivered, msg["agent"])
                                                    ELSE delivered)'
    BY TakenByLocation, PTL
  <2>2. Taken' = Taken
    BY <1>0, <2>1, TakenByLocation
  <2> QED
    BY <1>0, <2>2

\* Which steps end in the hand-over to the observer, and where main is while
\* there is one.
LEMMA ObserverSteps ==
  ASSUME TypeInv, [Next]_vars
  PROVE  /\ m_observers' # {} => /\ m_observers # {}
                                 /\ main \in BeforeStop => main' \in BeforeStop
         /\ pc'["dm"] = "notify" =>
              \/ ProcessReceivedMessage
              \/ pc["dm"] = "notify" /\ msg'["dm"] = msg["dm"] /\ ~Pop("dm")
<1> DEFINE Goal ==
      /\ m_observers' # {} => m_observers # {} /\ (main \in BeforeStop => main' \in BeforeStop)
      /\ pc'["dm"] = "notify" =>
           \/ ProcessReceivedMessage
           \/ pc["dm"] = "notify" /\ msg'["dm"] = msg["dm"] /\ ~Pop("dm")
<1> USE DEF BeforeStop, Pop, TypeInv, TypeOK, Stage, stages, receivers, mainVars, history
<1> SUFFICES Goal
  OBVIOUS
<1>1. CASE UNCHANGED vars
  BY <1>1 DEF vars
<1>2. ASSUME NEW w \in Stage, Loop(w) PROVE Goal
  BY <1>2 DEF Loop
<1>3. ASSUME NEW w \in Stage, Test(w) PROVE Goal
  BY <1>3 DEF Test
<1>4. ASSUME NEW w \in Stage, Sleep(w) PROVE Goal
  BY <1>4 DEF Sleep
<1>5. ASSUME NEW w \in Stage, SpuriousWakeup(w) PROVE Goal
  BY <1>5 DEF SpuriousWakeup
<1>6. CASE Forward
  BY <1>6 DEF Forward, Woken, MutexFree
<1>7. CASE ProcessReceivedMessage
  BY <1>7 DEF ProcessReceivedMessage
<1>8. CASE NotifyAgent
  BY <1>8 DEF NotifyAgent, Woken, MutexFree
<1>9. ASSUME NEW w \in Stage, Pop(w) PROVE Goal
  BY <1>9 DEF Pop
<1>10. CASE ProcessMessage
  BY <1>10 DEF ProcessMessage
<1>11. ASSUME NEW c \in Channels, Receive(c) PROVE Goal
  BY <1>11 DEF Receive
<1>12. ASSUME NEW c \in Channels, Callback(c) PROVE Goal
  BY <1>12 DEF Callback, Woken, MutexFree
<1>13. ASSUME NEW c \in Channels, ReceiverExit(c) PROVE Goal
  BY <1>13 DEF ReceiverExit
<1>14. CASE StartStage
  BY <1>14 DEF StartStage
<1>15. ASSUME NEW c \in Channels, StartReceiver(c) PROVE Goal
  BY <1>15 DEF StartReceiver
<1>16. CASE InstallHandlers \/ TestReady \/ MainSleep \/ MainSpuriousWakeup
  BY <1>16 DEF InstallHandlers, TestReady, MainSleep, MainSpuriousWakeup
<1>17. CASE HandleSignal
  BY <1>17 DEF HandleSignal
<1>18. CASE UnRegister
  BY <1>18 DEF UnRegister
<1>19. CASE ClearRunning
  BY <1>19 DEF ClearRunning
<1>20. CASE NotifyStage
  BY <1>20 DEF NotifyStage, Woken
<1>21. CASE Join
  BY <1>21 DEF Join
<1>22. CASE DrainOne
  BY <1>22 DEF DrainOne
<1>23. CASE Drained
  BY <1>23 DEF Drained
<1>24. ASSUME NEW c \in Channels, StopReceiver(c) PROVE Goal
  BY <1>24 DEF StopReceiver
<1>25. CASE RouterStopped
  BY <1>25 DEF RouterStopped
<1> QED
  BY <1>1, <1>2, <1>3, <1>4, <1>5, <1>6, <1>7, <1>8, <1>9, <1>10, <1>11, <1>12, <1>13,
     <1>14, <1>15, <1>16, <1>17, <1>18, <1>19, <1>20, <1>21, <1>22, <1>23, <1>24, <1>25
  DEF Next, AggregatorStep, DataManagerStep, AgentStep, MainStep

LEMMA NextPipe == TypeInv /\ TypeInv' /\ PipeInv /\ [Next]_vars => PipeInv'
<1> SUFFICES ASSUME TypeInv, TypeInv', PipeInv, [Next]_vars, m_observers' # {}
             PROVE  /\ main' \in BeforeStop
                    /\ pc'["dm"] = "notify" => msg'["dm"] = Head(m_queue'["dm"])
                    /\ accepted' = ((Taken' \o m_queue'["agent"]) \o Backlog("dm")')
                                      \o Backlog("agg")'
  BY DEF PipeInv, PipelineIsOneQueue, Taken
<1>1. /\ m_observers # {} /\ main \in BeforeStop /\ main' \in BeforeStop /\ main # "drain"
      /\ pc["dm"] = "notify" => msg["dm"] = Head(m_queue["dm"])
      /\ accepted = ((Taken \o m_queue["agent"]) \o Backlog("dm")) \o Backlog("agg")
  BY ObserverSteps DEF PipeInv, PipelineIsOneQueue, Taken, BeforeStop
<1>2. ASSUME pc'["dm"] = "notify" PROVE msg'["dm"] = Head(m_queue'["dm"])
  <2>1. CASE ProcessReceivedMessage
    BY <1>1, <2>1 DEF ProcessReceivedMessage, TypeInv, TypeOK, Stage
  <2>2. CASE pc["dm"] = "notify" /\ msg'["dm"] = msg["dm"] /\ ~Pop("dm")
    BY <1>1, <2>2, StepPinned DEF Pinned
  <2> QED
    BY <1>2, <2>1, <2>2, ObserverSteps
<1>3. /\ Taken \in Seq(Frame) /\ m_queue["agent"] \in Seq(Frame)
      /\ Backlog("dm") \in Seq(Frame) /\ Backlog("agg") \in Seq(Frame)
      /\ Taken \o m_queue["agent"] \in Seq(Frame)
      /\ (Taken \o m_queue["agent"]) \o Backlog("dm") \in Seq(Frame)
  BY PartsAreSequences, ConcatProperties
<1>12. /\ m_queue["agent"] \in Seq(Frame) /\ m_queue["dm"] \in Seq(Frame)
       /\ m_queue["agg"] \in Seq(Frame)
  BY DEF TypeInv, TypeOK, Stage
<1>4. Taken = IF pc["agent"] = "work" THEN Append(delivered, msg["agent"]) ELSE delivered
  BY TakenByLocation
<1>5. Taken' = IF pc'["agent"] = "work" THEN Append(delivered', msg'["agent"]) ELSE delivered'
  <2>1. (TypeInv => Taken = IF pc["agent"] = "work" THEN Append(delivered, msg["agent"])
                                                    ELSE delivered)'
    BY TakenByLocation, PTL
  <2> QED
    BY <2>1
<1> DEFINE Goal == accepted' = ((Taken' \o m_queue'["agent"]) \o Backlog("dm")')
                                  \o Backlog("agg")'
<1>6. ASSUME Test("agent") PROVE Goal
  <2>1. /\ pc["agent"] = "test" /\ UNCHANGED <<delivered, accepted>>
        /\ Backlog("dm")' = Backlog("dm") /\ Backlog("agg")' = Backlog("agg")
    BY <1>6
    DEF Test, Backlog, TypeInv, TypeOK, HandsFull, Locations, Stage, stages, receivers, mainVars, history
  <2>2. CASE pc'["agent"] = "work"
    <3>1. /\ m_queue["agent"] # <<>> /\ m_queue'["agent"] = Tail(m_queue["agent"])
          /\ msg'["agent"] = Head(m_queue["agent"])
      BY <1>6, <2>2
      DEF Test, TypeInv, TypeOK, HandsFull, Locations, Stage, stages, receivers, mainVars, history
    <3>2. Taken' \o m_queue'["agent"] = Taken \o m_queue["agent"]
      <4>1. delivered \in Seq(Frame) /\ Taken = delivered
        BY <1>4, <2>1 DEF TypeInv, TypeOK
      <4>2. Taken' = Append(delivered, Head(m_queue["agent"]))
        BY <1>5, <2>1, <2>2, <3>1
      <4>3. Append(delivered, Head(m_queue["agent"])) \o Tail(m_queue["agent"])
              = delivered \o m_queue["agent"]
        BY <1>12, <3>1, <4>1, MoveHead
      <4> QED
        BY <3>1, <4>1, <4>2, <4>3
    <3> QED
      BY <1>1, <2>1, <3>2
  <2>3. CASE pc'["agent"] # "work"
    <3>1. m_queue'["agent"] = m_queue["agent"]
      BY <1>6, <2>3
      DEF Test, TypeInv, TypeOK, HandsFull, Locations, Stage, stages, receivers, mainVars, history
    <3> QED
      BY <1>1, <1>4, <1>5, <2>1, <2>3, <3>1
  <2> QED
    BY <2>2, <2>3
<1>7. ASSUME ProcessMessage PROVE Goal
  <2>1. /\ pc["agent"] = "work" /\ pc'["agent"] = "loop" /\ UNCHANGED <<m_queue, accepted>>
        /\ delivered' = Append(delivered, msg["agent"])
        /\ Backlog("dm")' = Backlog("dm") /\ Backlog("agg")' = Backlog("agg")
    BY <1>7
    DEF ProcessMessage, Backlog, TypeInv, TypeOK, HandsFull, Locations, Stage, stages, receivers, mainVars, history
  <2> QED
    BY <1>1, <1>4, <1>5, <2>1
<1>8. ASSUME NotifyAgent PROVE Goal
  <2>1. /\ pc["dm"] = "notify" /\ m_queue["dm"] # <<>> /\ msg["dm"] = Head(m_queue["dm"])
        /\ Backlog("dm") = m_queue["dm"] /\ Backlog("dm")' = Tail(m_queue["dm"])
        /\ m_queue'["agent"] = Append(m_queue["agent"], Head(m_queue["dm"]))
        /\ Backlog("agg")' = Backlog("agg") /\ UNCHANGED <<accepted, delivered>>
    BY <1>1, <1>8
    DEF NotifyAgent, Backlog, Woken, TypeInv, TypeOK, HandsFull, Locations, Stage, stages, receivers, mainVars, history
  <2>2. Taken' = Taken
    BY <1>4, <1>5, <1>8
    DEF NotifyAgent, Woken, TypeInv, TypeOK, HandsFull, Locations, Stage, stages, receivers, mainVars, history
  <2>3. (Taken \o Append(m_queue["agent"], Head(m_queue["dm"]))) \o Tail(m_queue["dm"])
          = (Taken \o m_queue["agent"]) \o m_queue["dm"]
    <3> DEFINE x == Taken
               q == m_queue["agent"]
               g == m_queue["dm"]
    <3>1. x \in Seq(Frame) /\ q \in Seq(Frame) /\ g \in Seq(Frame) /\ g # <<>>
      BY <1>3, <1>12, <2>1
    <3> HIDE DEF x, q, g
    <3>2. (x \o Append(q, Head(g))) \o Tail(g) = (x \o q) \o g
      BY <3>1, PassOn
    <3> QED
      BY <3>2 DEF x, q, g
  <2> QED
    BY <1>1, <2>1, <2>2, <2>3
<1>9. ASSUME Forward PROVE Goal
  <2>1. /\ pc["agg"] = "work" /\ m_queue["agg"] # <<>> /\ Head(m_queue["agg"]) \in Frame
        /\ Backlog("agg") = m_queue["agg"] /\ Backlog("agg")' = Tail(m_queue["agg"])
        /\ m_queue'["agent"] = m_queue["agent"] /\ UNCHANGED <<accepted, delivered>>
        /\ m_queue' = [m_queue EXCEPT !["dm"] = Append(@, Head(m_queue["agg"]))]
    BY <1>9
    DEF Forward, Backlog, TypeInv, TypeOK, HandsFull, Locations, Stage, stages, receivers, mainVars, history
  <2>2. Taken' = Taken
    BY <1>4, <1>5, <1>9
    DEF Forward, Woken, TypeInv, TypeOK, HandsFull, Locations, Stage, stages, receivers, mainVars, history
  <2>3. Backlog("dm")' = Append(Backlog("dm"), Head(m_queue["agg"]))
    <3>1. CASE pc["dm"] = "pop"
      <4>1. pc'["dm"] = "pop" /\ m_queue["dm"] # <<>> /\ m_queue["dm"] \in Seq(Frame)
        BY <1>9, <3>1
        DEF Forward, Woken, TypeInv, TypeOK, HandsFull, Locations, Stage, stages, receivers, mainVars, history
      <4>2. Tail(Append(m_queue["dm"], Head(m_queue["agg"])))
              = Append(Tail(m_queue["dm"]), Head(m_queue["agg"]))
        BY <2>1, <4>1, HeadTailAppend
      <4> QED
        BY <2>1, <3>1, <4>1, <4>2 DEF Backlog, TypeInv, TypeOK, Stage
    <3>2. CASE pc["dm"] # "pop"
      <4>1. pc'["dm"] # "pop"
        BY <1>9, <3>2
        DEF Forward, Woken, TypeInv, TypeOK, HandsFull, Locations, Stage, stages, receivers, mainVars, history
      <4> QED
        BY <2>1, <3>2, <4>1 DEF Backlog, TypeInv, TypeOK, Stage
    <3> QED
      BY <3>1, <3>2
  <2>4. ((Taken \o m_queue["agent"]) \o Append(Backlog("dm"), Head(m_queue["agg"])))
            \o Tail(m_queue["agg"])
          = ((Taken \o m_queue["agent"]) \o Backlog("dm")) \o m_queue["agg"]
    <3> DEFINE x == Taken \o m_queue["agent"]
               q == Backlog("dm")
               g == m_queue["agg"]
    <3>1. x \in Seq(Frame) /\ q \in Seq(Frame) /\ g \in Seq(Frame) /\ g # <<>>
      BY <1>3, <1>12, <2>1
    <3> HIDE DEF x, q, g
    <3>2. (x \o Append(q, Head(g))) \o Tail(g) = (x \o q) \o g
      BY <3>1, PassOn
    <3> QED
      BY <3>2 DEF x, q, g
  <2> QED
    BY <1>1, <2>1, <2>2, <2>3, <2>4
<1>10. ASSUME NEW c \in Channels, Callback(c) PROVE Goal
  <2> DEFINE f == [ch |-> c, n |-> received[c] + 1]
  <2>1. f \in Frame
    BY <1>10, CallbackFrame
  <2>2. /\ m_queue' = [m_queue EXCEPT !["agg"] = Append(@, f)]
        /\ accepted' = Append(accepted, f)
    BY <1>10
    DEF Callback, TypeInv, TypeOK, HandsFull, Locations, Stage, stages, receivers, mainVars, history
  <2> HIDE DEF f
  <2>3. Taken' = Taken /\ Backlog("dm")' = Backlog("dm")
        /\ m_queue'["agent"] = m_queue["agent"]
    BY <1>4, <1>5, <1>10, <2>2
    DEF Callback, Woken, Backlog, TypeInv, TypeOK, HandsFull, Locations, Stage, stages, receivers, mainVars, history
  <2>4. Backlog("agg")' = Append(Backlog("agg"), f)
    <3>1. CASE pc["agg"] = "pop"
      <4>1. pc'["agg"] = "pop" /\ m_queue["agg"] # <<>> /\ m_queue["agg"] \in Seq(Frame)
        BY <1>10, <3>1
        DEF Callback, Woken, TypeInv, TypeOK, HandsFull, Locations, Stage, stages, receivers, mainVars, history
      <4>2. Tail(Append(m_queue["agg"], f)) = Append(Tail(m_queue["agg"]), f)
        BY <2>1, <4>1, HeadTailAppend
      <4> QED
        BY <2>2, <3>1, <4>1, <4>2 DEF Backlog, TypeInv, TypeOK, Stage
    <3>2. CASE pc["agg"] # "pop"
      <4>1. pc'["agg"] # "pop"
        BY <1>10, <3>2
        DEF Callback, Woken, TypeInv, TypeOK, HandsFull, Locations, Stage, stages, receivers, mainVars, history
      <4> QED
        BY <2>2, <3>2, <4>1 DEF Backlog, TypeInv, TypeOK, Stage
    <3> QED
      BY <3>1, <3>2
  <2> QED
    <3>1. ((Taken \o m_queue["agent"]) \o Backlog("dm")) \o Append(Backlog("agg"), f)
            = Append(((Taken \o m_queue["agent"]) \o Backlog("dm")) \o Backlog("agg"), f)
      BY <1>3, <2>1, AppendConcat
    <3> QED
      BY <1>1, <2>2, <2>3, <2>4, <3>1
<1>11. ASSUME ~Forward, ~NotifyAgent, ~ProcessMessage, ~Test("agent"),
              \A c \in Channels : ~Callback(c)
       PROVE  Goal
  <2>1. UNCHANGED <<Taken, accepted, m_queue["agent"], Backlog("dm"), Backlog("agg")>>
    BY <1>1, <1>11, QuietSteps
  <2> QED
    BY <1>1, <2>1
<1> QED
  BY <1>1, <1>2, <1>6, <1>7, <1>8, <1>9, <1>10, <1>11

\* Until the observer leaves, nothing that the aggregator accepted is lost,
\* doubled or overtaken on its way through the three queues
\* (Receiver.cpp:191-199, Aggregator.cpp:80-87 and 118-141, DataManager.cpp:57-67
\* and 80-111, CanAgent.cpp:51-56 and 91-109).
THEOREM NothingLost == Spec => []PipelineIsOneQueue
<1>1. Init => PipeInv
  <2> SUFFICES ASSUME Init PROVE PipeInv
    OBVIOUS
  <2>1. /\ InHand = <<>> /\ Backlog("dm") = <<>> /\ Backlog("agg") = <<>>
        /\ m_queue["agent"] = <<>> /\ delivered = <<>> /\ accepted = <<>>
    BY DEF Init, InHand, Backlog, Stage
  <2>2. <<>> \o <<>> = <<>>
    BY EmptySeq, ConcatEmptySeq
  <2>3. PipelineIsOneQueue
    BY <2>1, <2>2 DEF PipelineIsOneQueue
  <2> QED
    BY <2>3 DEF Init, PipeInv, BeforeStop, Stage
<1>2. PipeInv => PipelineIsOneQueue
  BY DEF PipeInv
<1> QED
  BY <1>1, <1>2, InitTypeInv, NextTypeInv, NextPipe, PTL DEF Spec

-----------------------------------------------------------------------------
(* A prefix, to the end.                                                   *)

AgentDraining == main \in {"drain", "exit"} /\ turn = "agent"

\* The message an observer is about to get, also one that was unregistered
\* after the loop over the observers had begun.
DmHand == IF pc["dm"] = "notify" THEN <<msg["dm"]>> ELSE <<>>

\* What the agent has processed or will process unless it is stopped first.
Sent == (Taken \o m_queue["agent"]) \o DmHand

SentInv == ~AgentDraining => Starts(accepted, Sent)
DeliveredInv == Starts(accepted, delivered)

LEMMA SentIsSequence ==
  TypeInv => DmHand \in Seq(Frame) /\ Sent \in Seq(Frame)
<1> SUFFICES ASSUME TypeInv PROVE DmHand \in Seq(Frame) /\ Sent \in Seq(Frame)
  OBVIOUS
<1>1. DmHand \in Seq(Frame)
  BY DEF DmHand, TypeInv, HandsFull
<1> QED
  BY <1>1, PartsAreSequences, ConcatProperties DEF Sent

LEMMA PipeSent ==
  TypeInv /\ PipeInv /\ m_observers # {} => Starts(accepted, Sent)
<1> SUFFICES ASSUME TypeInv, PipeInv, m_observers # {} PROVE Starts(accepted, Sent)
  OBVIOUS
<1> DEFINE x == Taken \o m_queue["agent"]
<1>1. /\ x \in Seq(Frame) /\ Backlog("dm") \in Seq(Frame) /\ Backlog("agg") \in Seq(Frame)
      /\ DmHand \in Seq(Frame)
  BY PartsAreSequences, SentIsSequence, ConcatProperties
<1>2. accepted = (x \o Backlog("dm")) \o Backlog("agg")
  BY DEF PipeInv, PipelineIsOneQueue, Taken
<1>3. \E m \in Seq(Frame) : x \o Backlog("dm") = (x \o DmHand) \o m
  <2>1. CASE pc["dm"] = "notify"
    <3>1. /\ m_queue["dm"] # <<>> /\ m_queue["dm"] \in Seq(Frame)
          /\ Backlog("dm") = m_queue["dm"] /\ DmHand = <<Head(m_queue["dm"])>>
      BY <2>1 DEF TypeInv, TypeOK, HandsFull, Stage, PipeInv, Backlog, DmHand
    <3>2. /\ Head(m_queue["dm"]) \in Frame /\ Tail(m_queue["dm"]) \in Seq(Frame)
          /\ Append(x, Head(m_queue["dm"])) \o Tail(m_queue["dm"]) = x \o m_queue["dm"]
      BY <1>1, <3>1, MoveHead
    <3>3. Append(x, Head(m_queue["dm"])) = x \o <<Head(m_queue["dm"])>>
      BY <1>1, <3>2, AppendIsConcat
    <3> HIDE DEF x
    <3> QED
      BY <3>1, <3>2, <3>3
  <2>2. CASE pc["dm"] # "notify"
    <3>1. DmHand = <<>> /\ x \o <<>> = x
      BY <1>1, <2>2, ConcatEmptySeq DEF DmHand
    <3> HIDE DEF x
    <3> QED
      BY <1>1, <3>1
  <2> QED
    BY <2>1, <2>2
<1>4. PICK m \in Seq(Frame) : x \o Backlog("dm") = (x \o DmHand) \o m
  BY <1>3
<1> DEFINE y == x \o DmHand
           g == Backlog("agg")
<1>5. y \in Seq(Frame) /\ g \in Seq(Frame) /\ m \o g \in Seq(Frame)
  BY <1>1, <1>4, ConcatProperties
<1>6. accepted = (y \o m) \o g
  BY <1>2, <1>4
<1>7. Sent = y
  BY DEF Sent
<1> HIDE DEF y, g
<1>8. (y \o m) \o g = y \o (m \o g)
  BY <1>5, Assoc
<1> QED
  BY <1>5, <1>6, <1>7, <1>8 DEF Starts

\* What is sent begins with what is delivered.
LEMMA SentDelivered == TypeInv /\ Starts(accepted, Sent) => DeliveredInv
<1> SUFFICES ASSUME TypeInv, Starts(accepted, Sent) PROVE DeliveredInv
  OBVIOUS
<1>1. /\ delivered \in Seq(Frame) /\ InHand \in Seq(Frame) /\ Taken \in Seq(Frame)
      /\ m_queue["agent"] \in Seq(Frame) /\ DmHand \in Seq(Frame)
      /\ Taken \o m_queue["agent"] \in Seq(Frame)
  BY PartsAreSequences, SentIsSequence, ConcatProperties DEF TypeInv, TypeOK
<1>2. Starts(accepted, Taken \o m_queue["agent"])
  BY <1>1, StartsShorter DEF Sent
<1>3. Starts(accepted, delivered \o InHand)
  BY <1>1, <1>2, StartsShorter DEF Taken
<1> QED
  BY <1>1, <1>3, StartsShorter DEF DeliveredInv

\* Where main is and what the observers and the hand-over do in one step.
LEMMA ClosingSteps ==
  ASSUME TypeInv, StopPhases, PipeInv, [Next]_vars
  PROVE  /\ AgentDraining => AgentDraining'
         /\ AgentDraining' => UNCHANGED <<delivered, accepted>>
         /\ m_observers = {} /\ ~NotifyAgent =>
              DmHand' = DmHand
         /\ m_observers # {} /\ m_observers' = {} =>
              UNCHANGED <<stages, delivered, accepted>>
<1> DEFINE Goal == /\ AgentDraining => AgentDraining'
                   /\ AgentDraining' => UNCHANGED <<delivered, accepted>>
                   /\ m_observers = {} /\ pc["dm"] # "notify" => pc'["dm"] # "notify"
                   /\ pc["dm"] = "notify" /\ ~NotifyAgent =>
                        pc'["dm"] = "notify" /\ msg'["dm"] = msg["dm"]
                   /\ m_observers # {} /\ m_observers' = {} =>
                        UNCHANGED <<stages, delivered, accepted>>
<1>1. Goal
  <2> USE DEF AgentDraining, TypeInv, TypeOK, Stage, StopPhases, Stopping, UpstreamDone,
              PipeInv, BeforeStop, DrainAfterJoin, StartedOnce, stages, receivers, mainVars, history
  <2>1. CASE UNCHANGED vars
    BY <2>1 DEF vars
  <2>2. ASSUME NEW w \in Stage, Loop(w) PROVE Goal
    BY <2>2 DEF Loop
  <2>3. ASSUME NEW w \in Stage, Test(w) PROVE Goal
    <3>1. CASE w = "agg"
      BY <2>3, <3>1 DEF Test
    <3>2. CASE w = "dm"
      BY <2>3, <3>2 DEF Test
    <3>3. CASE w = "agent"
      BY <2>3, <3>3 DEF Test
    <3> QED
      BY <3>1, <3>2, <3>3
  <2>4. ASSUME NEW w \in Stage, Sleep(w) PROVE Goal
    BY <2>4 DEF Sleep
  <2>5. ASSUME NEW w \in Stage, SpuriousWakeup(w) PROVE Goal
    BY <2>5 DEF SpuriousWakeup
  <2>6. CASE Forward
    BY <2>6 DEF Forward, Woken, MutexFree
  <2>7. CASE ProcessReceivedMessage
    BY <2>7 DEF ProcessReceivedMessage
  <2>8. CASE NotifyAgent
    BY <2>8 DEF NotifyAgent, Woken, MutexFree
  <2>9. ASSUME NEW w \in Stage, Pop(w) PROVE Goal
    BY <2>9 DEF Pop
  <2>10. CASE ProcessMessage
    BY <2>10 DEF ProcessMessage
  <2>11. ASSUME NEW c \in Channels, Receive(c) PROVE Goal
    BY <2>11 DEF Receive
  <2>12. ASSUME NEW c \in Channels, Callback(c) PROVE Goal
    BY <2>12 DEF Callback, Woken, MutexFree
  <2>13. ASSUME NEW c \in Channels, ReceiverExit(c) PROVE Goal
    BY <2>13 DEF ReceiverExit
  <2>14. CASE StartStage
    BY <2>14 DEF StartStage
  <2>15. ASSUME NEW c \in Channels, StartReceiver(c) PROVE Goal
    BY <2>15 DEF StartReceiver
  <2>16. CASE InstallHandlers \/ TestReady \/ MainSleep \/ MainSpuriousWakeup
    BY <2>16 DEF InstallHandlers, TestReady, MainSleep, MainSpuriousWakeup
  <2>17. CASE HandleSignal
    BY <2>17 DEF HandleSignal
  <2>18. CASE UnRegister
    BY <2>18 DEF UnRegister
  <2>19. CASE ClearRunning
    BY <2>19 DEF ClearRunning
  <2>20. CASE NotifyStage
    BY <2>20 DEF NotifyStage, Woken
  <2>21. CASE Join
    BY <2>21 DEF Join
  <2>22. CASE DrainOne
    BY <2>22 DEF DrainOne
  <2>23. CASE Drained
    BY <2>23 DEF Drained
  <2>24. ASSUME NEW c \in Channels, StopReceiver(c) PROVE Goal
    BY <2>24 DEF StopReceiver
  <2>25. CASE RouterStopped
    BY <2>25 DEF RouterStopped
  <2> QED
    BY <2>1, <2>2, <2>3, <2>4, <2>5, <2>6, <2>7, <2>8, <2>9, <2>10, <2>11, <2>12, <2>13,
       <2>14, <2>15, <2>16, <2>17, <2>18, <2>19, <2>20, <2>21, <2>22, <2>23, <2>24,
       <2>25
    DEF Next, AggregatorStep, DataManagerStep, AgentStep, MainStep
<1> QED
  BY <1>1 DEF DmHand

LEMMA NextSent ==
  TypeInv /\ TypeInv' /\ StopPhases /\ PipeInv /\ PipeInv' /\ SentInv /\ [Next]_vars => SentInv'
<1> SUFFICES ASSUME TypeInv, TypeInv', StopPhases, PipeInv, PipeInv', SentInv, [Next]_vars,
                    ~AgentDraining'
             PROVE  Starts(accepted, Sent)'
  BY DEF SentInv
<1> DEFINE Goal == Starts(accepted, Sent)'
<1>1. CASE m_observers' # {}
  <2>1. (TypeInv /\ PipeInv /\ m_observers # {} => Starts(accepted, Sent))'
    BY PipeSent, PTL
  <2> QED
    BY <1>1, <2>1
<1>2. CASE m_observers' = {} /\ m_observers # {}
  <2>1. Starts(accepted, Sent)
    BY <1>2, PipeSent
  <2>2. UNCHANGED <<stages, delivered, accepted>>
    BY <1>2, ClosingSteps
  <2>3. Sent' = Sent
    BY <2>2 DEF Sent, Taken, InHand, DmHand, stages
  <2> QED
    BY <2>1, <2>2, <2>3 DEF Starts
<1>3. CASE m_observers' = {} /\ m_observers = {}
  <2>1. PICK rest \in Seq(Frame) : accepted = Sent \o rest
    BY ClosingSteps DEF SentInv, Starts
  <2>2. /\ Taken \in Seq(Frame) /\ m_queue["agent"] \in Seq(Frame)
        /\ DmHand \in Seq(Frame) /\ Sent \in Seq(Frame)
    BY PartsAreSequences, SentIsSequence
  <2>3. Taken = IF pc["agent"] = "work" THEN Append(delivered, msg["agent"]) ELSE delivered
    BY TakenByLocation
  <2>4. Taken' = IF pc'["agent"] = "work" THEN Append(delivered', msg'["agent"])
                                          ELSE delivered'
    <3>1. (TypeInv => Taken = IF pc["agent"] = "work" THEN Append(delivered, msg["agent"])
                                                      ELSE delivered)'
      BY TakenByLocation, PTL
    <3> QED
      BY <3>1
  <2>5. ~NotifyAgent => DmHand' = DmHand
    BY <1>3, ClosingSteps
  <2>6. ASSUME Test("agent") PROVE Goal
    <3>1. /\ pc["agent"] = "test" /\ UNCHANGED <<delivered, accepted>> /\ ~NotifyAgent
          /\ delivered \in Seq(Frame)
      BY <2>6 DEF Test, NotifyAgent, Woken, TypeInv, TypeOK, Stage, history
    <3>2. Taken' \o m_queue'["agent"] = Taken \o m_queue["agent"]
      <4>1. CASE pc'["agent"] = "work"
        <5>1. /\ m_queue["agent"] # <<>> /\ m_queue'["agent"] = Tail(m_queue["agent"])
              /\ msg'["agent"] = Head(m_queue["agent"])
          BY <2>6, <4>1 DEF Test, TypeInv, TypeOK, Stage
        <5>2. Append(delivered, Head(m_queue["agent"])) \o Tail(m_queue["agent"])
                = delivered \o m_queue["agent"]
          BY <2>2, <3>1, <5>1, MoveHead
        <5> QED
          BY <2>3, <2>4, <3>1, <4>1, <5>1, <5>2
      <4>2. CASE pc'["agent"] # "work"
        <5>1. m_queue'["agent"] = m_queue["agent"]
          BY <2>6, <4>2 DEF Test, TypeInv, TypeOK, Stage
        <5> QED
          BY <2>3, <2>4, <3>1, <4>2, <5>1
      <4> QED
        BY <4>1, <4>2
    <3>3. Sent' = Sent
      BY <2>5, <3>1, <3>2 DEF Sent
    <3> QED
      BY <2>1, <3>1, <3>3 DEF Starts
  <2>7. ASSUME ProcessMessage PROVE Goal
    <3>1. /\ pc["agent"] = "work" /\ pc'["agent"] = "loop" /\ UNCHANGED <<m_queue, accepted>>
          /\ delivered' = Append(delivered, msg["agent"]) /\ ~NotifyAgent
      BY <2>7 DEF ProcessMessage, NotifyAgent, Woken, TypeInv, TypeOK, Stage
    <3>2. Sent' = Sent
      BY <2>3, <2>4, <2>5, <3>1 DEF Sent
    <3> QED
      BY <2>1, <3>1, <3>2 DEF Starts
  <2>8. ASSUME NotifyAgent PROVE Goal
    <3>1. /\ pc["dm"] = "notify" /\ pc'["dm"] = "pop" /\ msg["dm"] \in Frame
          /\ m_queue'["agent"] = Append(m_queue["agent"], msg["dm"])
          /\ UNCHANGED <<accepted, delivered>>
      BY <2>8 DEF NotifyAgent, Woken, TypeInv, TypeOK, HandsFull, Stage, history
    <3>2. Taken' = Taken
      BY <2>3, <2>4, <2>8 DEF NotifyAgent, Woken, TypeInv, TypeOK, Stage, history
    <3>3. DmHand = <<msg["dm"]>> /\ DmHand' = <<>>
      BY <3>1 DEF DmHand
    <3> DEFINE x == Taken \o m_queue["agent"]
    <3>4. x \in Seq(Frame) /\ Append(x, msg["dm"]) \in Seq(Frame)
      BY <2>2, <3>1, ConcatProperties, AppendProperties
    <3>5. Taken \o Append(m_queue["agent"], msg["dm"]) = Append(x, msg["dm"])
      BY <2>2, <3>1, AppendConcat
    <3>6. Append(x, msg["dm"]) = x \o <<msg["dm"]>>
      BY <3>1, <3>4, AppendIsConcat
    <3>7. Append(x, msg["dm"]) \o <<>> = Append(x, msg["dm"])
      BY <3>4, ConcatEmptySeq
    <3>8. Sent' = Sent
      BY <3>1, <3>2, <3>3, <3>5, <3>6, <3>7 DEF Sent
    <3> QED
      BY <2>1, <3>1, <3>8 DEF Starts
  <2>9. ASSUME Forward PROVE Goal
    <3>1. /\ UNCHANGED <<accepted, delivered, m_queue["agent"]>> /\ ~NotifyAgent
      BY <2>9 DEF Forward, NotifyAgent, Woken, TypeInv, TypeOK, Stage, history
    <3>2. Taken' = Taken
      BY <2>3, <2>4, <2>9 DEF Forward, Woken, TypeInv, TypeOK, Stage, history
    <3>3. Sent' = Sent
      BY <2>5, <3>1, <3>2 DEF Sent
    <3> QED
      BY <2>1, <3>1, <3>3 DEF Starts
  <2>10. ASSUME NEW c \in Channels, Callback(c) PROVE Goal
    <3> DEFINE f == [ch |-> c, n |-> received[c] + 1]
    <3>1. f \in Frame /\ accepted' = Append(accepted, f)
      BY <2>10, CallbackFrame DEF Callback
    <3> HIDE DEF f
    <3>2. /\ UNCHANGED <<delivered, m_queue["agent"]>> /\ ~NotifyAgent
      <4>1. UNCHANGED <<delivered, m_queue["agent"]>>
        BY <2>10 DEF Callback, TypeInv, TypeOK, Stage
      <4>2. NotifyAgent => received' = received
        BY DEF NotifyAgent, receivers
      <4>3. received'[c] # received[c]
        BY <2>10, CallbackCounters
      <4> QED
        BY <4>1, <4>2, <4>3
    <3>3. Taken' = Taken
      BY <2>3, <2>4, <2>10 DEF Callback, Woken, TypeInv, TypeOK, Stage
    <3>4. Sent' = Sent
      BY <2>5, <3>2, <3>3 DEF Sent
    <3>5. Sent \o Append(rest, f) = Append(Sent \o rest, f) /\ Append(rest, f) \in Seq(Frame)
      BY <2>2, <3>1, AppendConcat, AppendProperties
    <3> QED
      BY <2>1, <3>1, <3>4, <3>5 DEF Starts
  <2>11. ASSUME ~Forward, ~NotifyAgent, ~ProcessMessage, ~Test("agent"),
                \A c \in Channels : ~Callback(c)
         PROVE  Goal
    <3>1. ~(main = "drain" /\ turn = "agent")
      BY ClosingSteps DEF AgentDraining
    <3>2. UNCHANGED <<Taken, accepted, m_queue["agent"]>>
      BY <2>11, <3>1, QuietSteps
    <3>3. Sent' = Sent
      BY <2>5, <2>11, <3>2 DEF Sent
    <3> QED
      BY <2>1, <3>2, <3>3 DEF Starts
  <2> QED
    BY <2>6, <2>7, <2>8, <2>9, <2>10, <2>11
<1> QED
  BY <1>1, <1>2, <1>3

LEMMA NextDelivered ==
  TypeInv /\ TypeInv' /\ StopPhases /\ PipeInv /\ SentInv' /\ DeliveredInv /\ [Next]_vars
    => DeliveredInv'
<1> SUFFICES ASSUME TypeInv, TypeInv', StopPhases, PipeInv, SentInv', DeliveredInv,
                    [Next]_vars
             PROVE  DeliveredInv'
  OBVIOUS
<1>1. CASE AgentDraining'
  BY <1>1, ClosingSteps DEF DeliveredInv, Starts
<1>2. CASE ~AgentDraining'
  <2>1. (TypeInv /\ Starts(accepted, Sent) => DeliveredInv)'
    BY SentDelivered, PTL
  <2> QED
    BY <1>2, <2>1 DEF SentInv
<1> QED
  BY <1>1, <1>2

LEMMA InitAll == Init => StopPhases /\ PipeInv /\ SentInv /\ DeliveredInv
<1> SUFFICES ASSUME Init PROVE StopPhases /\ PipeInv /\ SentInv /\ DeliveredInv
  OBVIOUS
<1>1. /\ InHand = <<>> /\ DmHand = <<>> /\ Backlog("dm") = <<>> /\ Backlog("agg") = <<>>
      /\ m_queue["agent"] = <<>> /\ delivered = <<>> /\ accepted = <<>>
  BY DEF Init, InHand, DmHand, Backlog, Stage
<1>2. <<>> \o <<>> = <<>> /\ <<>> \in Seq(Frame)
  BY EmptySeq, ConcatEmptySeq
<1>3. PipelineIsOneQueue /\ SentInv /\ DeliveredInv
  BY <1>1, <1>2 DEF PipelineIsOneQueue, SentInv, DeliveredInv, Sent, Taken, Starts
<1> QED
  BY <1>3 DEF Init, PipeInv, BeforeStop, Stage, StopPhases, Stopping

LEMMA DeliveredGivesPrefix == TypeInv /\ DeliveredInv => DeliveredIsPrefix
<1> SUFFICES ASSUME TypeInv, DeliveredInv PROVE DeliveredIsPrefix
  OBVIOUS
<1>1. PICK rest \in Seq(Frame) : accepted = delivered \o rest
  BY DEF DeliveredInv, Starts
<1>2. delivered \in Seq(Frame)
  BY DEF TypeInv, TypeOK
<1>3. /\ Len(delivered) \in Nat /\ Len(rest) \in Nat
      /\ Len(accepted) = Len(delivered) + Len(rest)
      /\ \A i \in 1..Len(delivered) + Len(rest) :
           accepted[i] = IF i <= Len(delivered) THEN delivered[i]
                                                ELSE rest[i - Len(delivered)]
  BY <1>1, <1>2, ConcatProperties, LenProperties
<1> QED
  BY <1>3 DEF DeliveredIsPrefix

LEMMA InductiveAll ==
  Spec => [](TypeInv /\ StopPhases /\ PipeInv /\ SentInv /\ DeliveredInv)
  BY InitAll, InitTypeInv, NextTypeInv, NextStopPhases, NextPipe, NextSent, NextDelivered,
     PTL DEF Spec

\* At every moment, the whole shutdown included, with its queues emptied under
\* the threads that fill them: the frames the agent has processed are the first
\* ones that the aggregator accepted, in order and without a gap
\* (CanAgent.cpp:91-127 at the end of the pipeline).
THEOREM PrefixDelivered == Spec => []DeliveredIsPrefix
  BY InductiveAll, DeliveredGivesPrefix, PTL

-----------------------------------------------------------------------------
(* The refinement, without its liveness.                                   *)

LEMMA StepRefines ==
  TypeInv /\ DeliveredIsPrefix' /\ [Next]_vars => [OD!Next]_(OD!vars)
<1> SUFFICES ASSUME TypeInv, DeliveredIsPrefix', [Next]_vars
             PROVE  OD!Next \/ UNCHANGED OD!vars
  OBVIOUS
<1> DEFINE Goal == OD!Next \/ UNCHANGED <<accepted, delivered, g_ready>>
<1> SUFFICES Goal
  BY DEF OD!vars
<1> USE DEF Stage, stages, receivers, mainVars, history
<1>1. CASE UNCHANGED vars
  BY <1>1 DEF vars
<1>2. ASSUME NEW w \in Stage, Loop(w) PROVE Goal
  BY <1>2 DEF Loop
<1>3. ASSUME NEW w \in Stage, Test(w) PROVE Goal
  BY <1>3 DEF Test
<1>4. ASSUME NEW w \in Stage, Sleep(w) PROVE Goal
  BY <1>4 DEF Sleep
<1>5. ASSUME NEW w \in Stage, SpuriousWakeup(w) PROVE Goal
  BY <1>5 DEF SpuriousWakeup
<1>6. CASE Forward
  BY <1>6 DEF Forward, Woken, MutexFree
<1>7. CASE ProcessReceivedMessage
  BY <1>7 DEF ProcessReceivedMessage
<1>8. CASE NotifyAgent
  BY <1>8 DEF NotifyAgent, Woken, MutexFree
<1>9. ASSUME NEW w \in Stage, Pop(w) PROVE Goal
  BY <1>9 DEF Pop
<1>10. ASSUME NEW c \in Channels, Receive(c) PROVE Goal
  BY <1>10 DEF Receive
<1>11. ASSUME NEW c \in Channels, ReceiverExit(c) PROVE Goal
  BY <1>11 DEF ReceiverExit
<1>12. CASE StartStage
  BY <1>12 DEF StartStage
<1>13. ASSUME NEW c \in Channels, StartReceiver(c) PROVE Goal
  BY <1>13 DEF StartReceiver
<1>14. CASE InstallHandlers \/ TestReady \/ MainSleep \/ MainSpuriousWakeup
  BY <1>14 DEF InstallHandlers, TestReady, MainSleep, MainSpuriousWakeup
<1>15. CASE UnRegister
  BY <1>15 DEF UnRegister
<1>16. CASE ClearRunning
  BY <1>16 DEF ClearRunning
<1>17. CASE NotifyStage
  BY <1>17 DEF NotifyStage, Woken
<1>18. CASE Join
  BY <1>18 DEF Join
<1>19. CASE DrainOne
  BY <1>19 DEF DrainOne
<1>20. CASE Drained
  BY <1>20 DEF Drained
<1>21. ASSUME NEW c \in Channels, StopReceiver(c) PROVE Goal
  BY <1>21 DEF StopReceiver
<1>22. CASE RouterStopped
  BY <1>22 DEF RouterStopped
<1>23. CASE ProcessMessage
  <2>1. /\ delivered' = Append(delivered, msg["agent"]) /\ UNCHANGED <<accepted, g_ready>>
        /\ delivered \in Seq(Frame) /\ msg["agent"] \in Frame
    BY <1>23 DEF ProcessMessage, TypeInv, TypeOK, HandsFull, mainVars
  <2>2. /\ Len(delivered) \in Nat /\ Len(delivered') = Len(delivered) + 1
        /\ delivered'[Len(delivered) + 1] = msg["agent"]
    BY <2>1, AppendProperties, LenProperties
  <2>3. Len(delivered) + 1 <= Len(accepted) /\ accepted[Len(delivered) + 1] = msg["agent"]
    BY <2>1, <2>2 DEF DeliveredIsPrefix
  <2>4. Len(accepted) \in Nat
    BY LenProperties DEF TypeInv, TypeOK
  <2>5. Len(delivered) < Len(accepted)
    BY <2>2, <2>3, <2>4
  <2> QED
    BY <2>1, <2>3, <2>5 DEF OD!Next, OD!Deliver
<1>24. ASSUME NEW c \in Channels, Callback(c) PROVE Goal
  BY <1>24, CallbackFrame DEF Callback, OD!Next, OD!Accept, mainVars
<1>25. CASE HandleSignal
  BY <1>25 DEF HandleSignal, OD!Next, OD!Close, history
<1> HIDE DEF Goal
<1> QED
  BY <1>1, <1>2, <1>3, <1>4, <1>5, <1>6, <1>7, <1>8, <1>9, <1>10, <1>11, <1>12, <1>13,
     <1>14, <1>15, <1>16, <1>17, <1>18, <1>19, <1>20, <1>21, <1>22, <1>23, <1>24, <1>25
  DEF Next, AggregatorStep, DataManagerStep, AgentStep, MainStep

\* Every behaviour of the program is one of OrderedDelivery, liveness aside: the
\* pipeline accepts frames, delivers the next accepted one, is told to close,
\* or does what nobody outside sees (Receiver.cpp:191-199 to CanAgent.cpp:91-127).
THEOREM RefinesOrderedDelivery == Spec => OD!Init /\ [][OD!Next]_(OD!vars)
<1>1. Init => OD!Init
  BY DEF Init, OD!Init
<1> QED
  BY <1>1, InductiveAll, DeliveredGivesPrefix, StepRefines, PTL DEF Spec
=============================================================================
