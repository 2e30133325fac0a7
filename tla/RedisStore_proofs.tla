-------------------------- MODULE RedisStore_proofs --------------------------
(***************************************************************************)
(* Proofs about RedisStore for every bound, with and without failing       *)
(* allocations, and whether the server is up at first or not.              *)
(***************************************************************************)
EXTENDS RedisStore, SequenceTheorems, TLAPS

-----------------------------------------------------------------------------
(* Types.  TypeOK is not inductive: the front of the queue is a command     *)
(* only if there is one, the number of commands only grows within its       *)
(* bound if the agent has one to issue, and nobody has to take more than    *)
(* two replies only if each was asked for by a thread that still waits.     *)

\* Where each thread can be.
MainAt == {"start", "check", "spawn", "startCmd", "startAgent", "run", "joinAgent", "close",
           "running", "ready", "notify", "joinDb", "flag", "join", "free", "stopCmd",
           "notifyCmd", "joinCmd", "drain", "exit"}
AgentAt == {"off", "loop", "issue", "done"}
DbAt == {"off", "loop", "test", "block", "wait", "done",
         "decide", "flag", "join", "free", "connect", "check", "spawn"}
PingAt == {"off", "loop", "send", "reply", "stale", "status", "callback", "done"}
CmdAt == {"off", "loop", "test", "block", "wait", "done",
          "send", "reply", "stale", "pop", "sleep"}

Places == /\ pc \in [Thread -> Location]
          /\ pc["main"] \in MainAt /\ pc["agent"] \in AgentAt /\ pc["db"] \in DbAt
          /\ pc["ping"] \in PingAt /\ pc["cmd"] \in CmdAt

\* The variables whose values are not structured.
Scalars ==
  /\ m_state \in RedisStateType /\ db_state \in RedisStateType
  /\ db_running \in BOOLEAN /\ m_ready \in BOOLEAN
  /\ m_is_running \in BOOLEAN /\ m_is_cmd_running \in BOOLEAN
  /\ m_context \in BOOLEAN /\ link \in BOOLEAN /\ (link => m_context)
  /\ up \in BOOLEAN /\ outages \in 0..MaxOutages /\ late \in BOOLEAN
  /\ aborted \in {"no", "terminate", "fault"} /\ agent_running \in BOOLEAN

\* A thread that main has not started yet.
Unstarted ==
  /\ pc["main"] = "start" => pc["db"] = "off"
  /\ pc["main"] \in {"start", "check", "spawn", "startCmd"} => pc["cmd"] = "off"
  /\ pc["main"] \in {"start", "check", "spawn", "startCmd", "startAgent"} => pc["agent"] = "off"

\* The commands.
Settled == [cmd : 1..MaxCommands, stored : BOOLEAN]
CommandTypes ==
  /\ issued \in 0..MaxCommands /\ left \in 0..MaxCommands - issued
  /\ m_cmd_queue \in Seq(1..MaxCommands)
  /\ settled \in Seq(Settled)

\* The agent has a command to issue exactly while it is in its loop over the signals.
AgentCounts == (pc["agent"] = "issue" <=> left # 0)

\* The command in hand is the front of the queue, and stays there until it is popped.
InHand == {"send", "reply", "stale", "pop"}
CommandInHand == pc["cmd"] \in InHand => m_cmd_queue # <<>>

\* A queue is thrown away only after its thread has ended.
DrainAfterJoin == pc["main"] \in {"drain", "exit"} => pc["cmd"] = "done"

\* The threads that wait for a reply do so on the context there is, and no reply was
\* read by anyone but them.
Waiting == (IF pc["ping"] = "reply" THEN 1 ELSE 0) + (IF pc["cmd"] = "reply" THEN 1 ELSE 0)
Conversation ==
  /\ ~m_context => Waiting = 0
  /\ pc["db"] = "connect" => ~m_context
  /\ ~link => replies = <<>>
  /\ replies \in Seq({"PONG", "OK"})
  /\ Len(replies) <= Waiting

Counts == CommandTypes /\ AgentCounts /\ CommandInHand /\ DrainAfterJoin
TypeInv == Places /\ Scalars /\ Unstarted /\ Counts /\ Conversation

\* Where the threads are, and where none has been started.
LEMMA NextPlaces == Places /\ Unstarted /\ [Next]_vars => (Places /\ Unstarted)'
<1> SUFFICES ASSUME Places, Unstarted, [Next]_vars PROVE (Places /\ Unstarted)'
  OBVIOUS
<1> USE DEF Places, Thread, Location, MainAt, AgentAt, DbAt, PingAt, CmdAt, Unstarted,
        state, flags, context, server, agent, commands
<1>1. CASE UNCHANGED vars
  BY <1>1 DEF vars
<1>2. CASE DbLoop
  BY <1>2 DEF DbLoop, Go
<1>3. CASE DbTest
  BY <1>3 DEF DbTest, Go
<1>4. CASE DbSleep
  BY <1>4 DEF DbSleep, Go
<1>5. CASE ReConnect
  BY <1>5 DEF ReConnect, Go
<1>6. CASE ConnectRedis
  BY <1>6 DEF ConnectRedis, Go
<1>7. ASSUME NEW t \in {"db", "main"}, StopRedisFlag(t) PROVE (Places /\ Unstarted)'
  BY <1>7 DEF StopRedisFlag, Go, vars
<1>8. ASSUME NEW t \in {"db", "main"}, JoinPing(t) PROVE (Places /\ Unstarted)'
  BY <1>8 DEF JoinPing, Go
<1>9. ASSUME NEW t \in {"db", "main"}, FreeContext(t) PROVE (Places /\ Unstarted)'
  BY <1>9 DEF FreeContext, Go
<1>10. ASSUME NEW t \in {"db", "main"}, StartRedisCheck(t) PROVE (Places /\ Unstarted)'
  BY <1>10 DEF StartRedisCheck, Go, AfterStartRedis
<1>11. ASSUME NEW t \in {"db", "main"}, StartRedisThread(t) PROVE (Places /\ Unstarted)'
  BY <1>11 DEF StartRedisThread, Go, AfterStartRedis, vars
<1>12. ASSUME NEW t \in {"ping", "cmd"}, Crash(t) PROVE (Places /\ Unstarted)'
  BY <1>12 DEF Crash, Go, vars, Fault
<1>13. CASE PingLoop
  BY <1>13 DEF PingLoop, Go
<1>14. CASE PingSend
  BY <1>14 DEF PingSend, Go
<1>15. CASE PingReply
  BY <1>15 DEF PingReply, Go
<1>16. CASE PingStatus
  BY <1>16 DEF PingStatus, Go
<1>17. CASE PingCallback
  BY <1>17 DEF PingCallback, Go, WokenDb
<1>18. CASE CmdLoop
  BY <1>18 DEF CmdLoop, Go
<1>19. CASE CmdTest
  BY <1>19 DEF CmdTest, Go
<1>20. CASE CmdSleep
  BY <1>20 DEF CmdSleep, Go
<1>21. CASE CmdSend
  BY <1>21 DEF CmdSend, Go, vars
<1>22. CASE CmdReply
  BY <1>22 DEF CmdReply, Go
<1>23. CASE CmdPop
  BY <1>23 DEF CmdPop, Go
<1>24. CASE AgentTakes
  BY <1>24 DEF AgentTakes, Go
<1>25. CASE Command
  BY <1>25 DEF Command, Go, WokenCmd
<1>26. CASE AgentExit
  BY <1>26 DEF AgentExit, Go
<1>27. CASE StartAgent
  BY <1>27 DEF StartAgent, Go
<1>28. CASE StopRequested
  BY <1>28 DEF StopRequested, Go
<1>29. CASE JoinAgent
  BY <1>29 DEF JoinAgent, Go
<1>30. CASE StartDb
  BY <1>30 DEF StartDb, Go
<1>31. CASE StartCmd
  BY <1>31 DEF StartCmd, Go, Unstarted
<1>32. CASE StopDbFlags
  BY <1>32 DEF StopDbFlags, Go
<1>33. CASE NotifyDb
  BY <1>33 DEF NotifyDb, Go, WokenDb
<1>34. CASE JoinDb
  BY <1>34 DEF JoinDb, Go
<1>35. CASE StopCmd
  BY <1>35 DEF StopCmd, Go
<1>36. CASE NotifyCmd
  BY <1>36 DEF NotifyCmd, Go, WokenCmd
<1>37. CASE JoinCmd
  BY <1>37 DEF JoinCmd, Go
<1>38. CASE Drain
  BY <1>38 DEF Drain, Go
<1>39. ASSUME NEW t \in {"db", "cmd"}, SpuriousWakeup(t) PROVE (Places /\ Unstarted)'
  BY <1>39 DEF SpuriousWakeup, Go
<1>40. CASE ServerDown
  BY <1>40 DEF ServerDown, Go
<1>41. CASE ServerUp
  BY <1>41 DEF ServerUp, Go
<1> QED
  BY <1>1, <1>2, <1>3, <1>4, <1>5, <1>6, <1>7, <1>8, <1>9, <1>10, <1>11, <1>12, <1>13, <1>14,
     <1>15, <1>16, <1>17, <1>18, <1>19, <1>20, <1>21, <1>22, <1>23, <1>24, <1>25, <1>26, <1>27,
     <1>28, <1>29, <1>30, <1>31, <1>32, <1>33, <1>34, <1>35, <1>36, <1>37, <1>38, <1>39, <1>40,
     <1>41 DEF Next, DbStep, PingStep, CmdStep, MainStep, AgentStep

LEMMA NextScalars == Scalars /\ [Next]_vars => Scalars'
<1> SUFFICES ASSUME Scalars, [Next]_vars PROVE Scalars'
  OBVIOUS
<1> USE BoundsAssumption DEF Scalars, RedisStateType, state, flags, context, server, agent, commands
<1>1. CASE UNCHANGED vars
  BY <1>1 DEF vars
<1>2. CASE DbLoop
  BY <1>2 DEF DbLoop, Go
<1>3. CASE DbTest
  <2>1. m_ready' \in BOOLEAN
    BY <1>3, Zenon DEF DbTest
  <2> QED BY <1>3, <2>1 DEF DbTest
<1>4. CASE DbSleep
  BY <1>4 DEF DbSleep, Go
<1>5. CASE ReConnect
  BY <1>5 DEF ReConnect, Go
<1>6. CASE ConnectRedis
  <2>1. m_context' \in BOOLEAN /\ link' \in BOOLEAN /\ (link' => m_context')
    <3>1. (m_context' = up /\ link' = up) \/ UNCHANGED <<m_context, link>>
      BY <1>6 DEF ConnectRedis
    <3>2. CASE m_context' = up /\ link' = up
      BY <3>2, Zenon
    <3>3. CASE UNCHANGED <<m_context, link>>
      BY <3>3, Zenon
    <3> QED BY <3>1, <3>2, <3>3
  <2>2. m_state' \in RedisStateType /\ db_state' \in RedisStateType
    BY <1>6 DEF ConnectRedis
  <2>3. m_ready' \in BOOLEAN
    BY <1>6, Zenon DEF ConnectRedis
  <2> QED BY <1>6, <2>1, <2>2, <2>3 DEF ConnectRedis
<1>7. ASSUME NEW t \in {"db", "main"}, StopRedisFlag(t) PROVE Scalars'
  <2>1. m_is_running' \in BOOLEAN
    BY <1>7, Zenon DEF StopRedisFlag
  <2> QED BY <1>7, <2>1 DEF StopRedisFlag
<1>8. ASSUME NEW t \in {"db", "main"}, JoinPing(t) PROVE Scalars'
  BY <1>8 DEF JoinPing, Go
<1>9. ASSUME NEW t \in {"db", "main"}, FreeContext(t) PROVE Scalars'
  <2>1. m_context' \in BOOLEAN /\ link' \in BOOLEAN
    BY <1>9, Zenon DEF FreeContext
  <2> QED BY <1>9, <2>1 DEF FreeContext
<1>10. ASSUME NEW t \in {"db", "main"}, StartRedisCheck(t) PROVE Scalars'
  BY <1>10 DEF StartRedisCheck, Go, AfterStartRedis
<1>11. ASSUME NEW t \in {"db", "main"}, StartRedisThread(t) PROVE Scalars'
  BY <1>11 DEF StartRedisThread, Go, AfterStartRedis
<1>12. ASSUME NEW t \in {"ping", "cmd"}, Crash(t) PROVE Scalars'
  BY <1>12 DEF Crash, Go
<1>13. CASE PingLoop
  BY <1>13 DEF PingLoop, Go
<1>14. CASE PingSend
  BY <1>14 DEF PingSend, Go
<1>15. CASE PingReply
  BY <1>15 DEF PingReply, Go
<1>16. CASE PingStatus
  BY <1>16 DEF PingStatus, Go
<1>17. CASE PingCallback
  BY <1>17 DEF PingCallback, Go, WokenDb
<1>18. CASE CmdLoop
  BY <1>18 DEF CmdLoop, Go
<1>19. CASE CmdTest
  BY <1>19 DEF CmdTest, Go
<1>20. CASE CmdSleep
  BY <1>20 DEF CmdSleep, Go
<1>21. CASE CmdSend
  BY <1>21 DEF CmdSend, Go
<1>22. CASE CmdReply
  BY <1>22 DEF CmdReply, Go
<1>23. CASE CmdPop
  BY <1>23 DEF CmdPop, Go
<1>24. CASE AgentTakes
  BY <1>24 DEF AgentTakes, Go
<1>25. CASE Command
  BY <1>25 DEF Command, Go, WokenCmd
<1>26. CASE AgentExit
  BY <1>26 DEF AgentExit, Go
<1>27. CASE StartAgent
  BY <1>27 DEF StartAgent, Go
<1>28. CASE StopRequested
  <2>1. agent_running' \in BOOLEAN
    BY <1>28, Zenon DEF StopRequested
  <2> QED BY <1>28, <2>1 DEF StopRequested
<1>29. CASE JoinAgent
  BY <1>29 DEF JoinAgent, Go
<1>30. CASE StartDb
  BY <1>30 DEF StartDb, Go
<1>31. CASE StartCmd
  BY <1>31 DEF StartCmd, Go
<1>32. CASE StopDbFlags
  <2>1. db_running' \in BOOLEAN
    BY <1>32, Zenon DEF StopDbFlags
  <2>2. m_ready' \in BOOLEAN /\ db_state' \in RedisStateType
    BY <1>32, Zenon DEF StopDbFlags
  <2> QED BY <1>32, <2>1, <2>2 DEF StopDbFlags
<1>33. CASE NotifyDb
  BY <1>33 DEF NotifyDb, Go, WokenDb
<1>34. CASE JoinDb
  BY <1>34 DEF JoinDb, Go
<1>35. CASE StopCmd
  <2>1. m_is_cmd_running' \in BOOLEAN
    BY <1>35, Zenon DEF StopCmd
  <2> QED BY <1>35, <2>1 DEF StopCmd
<1>36. CASE NotifyCmd
  BY <1>36 DEF NotifyCmd, Go, WokenCmd
<1>37. CASE JoinCmd
  BY <1>37 DEF JoinCmd, Go
<1>38. CASE Drain
  BY <1>38 DEF Drain, Go
<1>39. ASSUME NEW t \in {"db", "cmd"}, SpuriousWakeup(t) PROVE Scalars'
  BY <1>39 DEF SpuriousWakeup, Go
<1>40. CASE ServerDown
  <2>1. up' \in BOOLEAN /\ link' \in BOOLEAN
    BY <1>40, Zenon DEF ServerDown
  <2> QED BY <1>40, <2>1 DEF ServerDown
<1>41. CASE ServerUp
  BY <1>41 DEF ServerUp, Go
<1> QED
  BY <1>1, <1>2, <1>3, <1>4, <1>5, <1>6, <1>7, <1>8, <1>9, <1>10, <1>11, <1>12, <1>13, <1>14,
     <1>15, <1>16, <1>17, <1>18, <1>19, <1>20, <1>21, <1>22, <1>23, <1>24, <1>25, <1>26, <1>27,
     <1>28, <1>29, <1>30, <1>31, <1>32, <1>33, <1>34, <1>35, <1>36, <1>37, <1>38, <1>39, <1>40,
     <1>41 DEF Next, DbStep, PingStep, CmdStep, MainStep, AgentStep

LEMMA Appended ==
  ASSUME NEW S, NEW s \in Seq(S), NEW e \in S
  PROVE  Append(s, e) \in Seq(S) /\ Append(s, e) # <<>> /\ Len(Append(s, e)) = Len(s) + 1
BY AppendProperties

\* The commands: a command is issued only if one is left, and only one that is in the
\* queue is sent.
LEMMA NextCounts == TypeInv /\ [Next]_vars => Counts'
<1> SUFFICES ASSUME TypeInv, [Next]_vars PROVE Counts'
  OBVIOUS
<1> USE BoundsAssumption DEF TypeInv, Places, Thread, Unstarted, Counts, CommandTypes,
        AgentCounts, InHand, CommandInHand, DrainAfterJoin, state, flags, context, server,
        agent, commands
<1>1. CASE UNCHANGED vars
  BY <1>1 DEF vars
<1>2. CASE DbLoop
  BY <1>2 DEF DbLoop, Go
<1>3. CASE DbTest
  BY <1>3 DEF DbTest, Go
<1>4. CASE DbSleep
  BY <1>4 DEF DbSleep, Go
<1>5. CASE ReConnect
  BY <1>5 DEF ReConnect, Go
<1>6. CASE ConnectRedis
  BY <1>6 DEF ConnectRedis, Go
<1>7. ASSUME NEW t \in {"db", "main"}, StopRedisFlag(t) PROVE Counts'
  BY <1>7 DEF StopRedisFlag, Go
<1>8. ASSUME NEW t \in {"db", "main"}, JoinPing(t) PROVE Counts'
  BY <1>8 DEF JoinPing, Go
<1>9. ASSUME NEW t \in {"db", "main"}, FreeContext(t) PROVE Counts'
  BY <1>9 DEF FreeContext, Go
<1>10. ASSUME NEW t \in {"db", "main"}, StartRedisCheck(t) PROVE Counts'
  BY <1>10 DEF StartRedisCheck, Go, AfterStartRedis
<1>11. ASSUME NEW t \in {"db", "main"}, StartRedisThread(t) PROVE Counts'
  BY <1>11 DEF StartRedisThread, Go, AfterStartRedis
<1>12. ASSUME NEW t \in {"ping", "cmd"}, Crash(t) PROVE Counts'
  BY <1>12 DEF Crash, Go
<1>13. CASE PingLoop
  BY <1>13 DEF PingLoop, Go
<1>14. CASE PingSend
  BY <1>14 DEF PingSend, Go
<1>15. CASE PingReply
  BY <1>15 DEF PingReply, Go
<1>16. CASE PingStatus
  BY <1>16 DEF PingStatus, Go
<1>17. CASE PingCallback
  BY <1>17 DEF PingCallback, Go, WokenDb
<1>18. CASE CmdLoop
  BY <1>18 DEF CmdLoop, Go
<1>19. CASE CmdTest
  BY <1>19 DEF CmdTest, Go
<1>20. CASE CmdSleep
  BY <1>20 DEF CmdSleep, Go
<1>21. CASE CmdSend
  <2>1. Head(m_cmd_queue) \in 1..MaxCommands
    BY <1>21, HeadTailProperties DEF CmdSend, Go
  <2>2. [cmd |-> Head(m_cmd_queue), stored |-> link] \in Settled
    BY <2>1 DEF Scalars, Settled
  <2>3. settled' \in Seq(Settled)
    <3> DEFINE r == [cmd |-> Head(m_cmd_queue), stored |-> link]
    <3>1. UNCHANGED settled \/ settled' = Append(settled, r)
      BY <1>21, Zenon DEF CmdSend
    <3>2. r \in Settled
      BY <2>2
    <3>3. settled \in Seq(Settled)
      OBVIOUS
    <3> HIDE DEF r
    <3>4. CASE settled' = Append(settled, r)
      BY <3>2, <3>3, <3>4, Appended, Zenon
    <3> QED BY <3>1, <3>3, <3>4
  <2> QED BY <1>21, <2>3 DEF CmdSend, Go
<1>22. CASE CmdReply
  BY <1>22 DEF CmdReply, Go
<1>23. CASE CmdPop
  BY <1>23 DEF CmdPop, Go
<1>24. CASE AgentTakes
  BY <1>24 DEF AgentTakes, Go
<1>25. CASE Command
  <2>1. issued + 1 \in 1..MaxCommands
    BY <1>25 DEF Command
  <2>2. m_cmd_queue' \in Seq(1..MaxCommands) /\ m_cmd_queue' # <<>>
    BY <1>25, <2>1, Appended DEF Command
  <2>3. CommandTypes'
    BY <1>25, <2>1, <2>2 DEF Command
  <2> QED BY <1>25, <2>2, <2>3 DEF Command, WokenCmd
<1>26. CASE AgentExit
  BY <1>26 DEF AgentExit, Go
<1>27. CASE StartAgent
  BY <1>27 DEF StartAgent, Go
<1>28. CASE StopRequested
  BY <1>28 DEF StopRequested, Go
<1>29. CASE JoinAgent
  BY <1>29 DEF JoinAgent, Go
<1>30. CASE StartDb
  BY <1>30 DEF StartDb, Go
<1>31. CASE StartCmd
  BY <1>31 DEF StartCmd, Go
<1>32. CASE StopDbFlags
  BY <1>32 DEF StopDbFlags, Go
<1>33. CASE NotifyDb
  BY <1>33 DEF NotifyDb, Go, WokenDb
<1>34. CASE JoinDb
  BY <1>34 DEF JoinDb, Go
<1>35. CASE StopCmd
  BY <1>35 DEF StopCmd, Go
<1>36. CASE NotifyCmd
  BY <1>36 DEF NotifyCmd, Go, WokenCmd
<1>37. CASE JoinCmd
  BY <1>37 DEF JoinCmd, Go
<1>38. CASE Drain
  BY <1>38 DEF Drain, Go
<1>39. ASSUME NEW t \in {"db", "cmd"}, SpuriousWakeup(t) PROVE Counts'
  BY <1>39 DEF SpuriousWakeup, Go
<1>40. CASE ServerDown
  BY <1>40 DEF ServerDown, Go
<1>41. CASE ServerUp
  BY <1>41 DEF ServerUp, Go
<1> QED
  BY <1>1, <1>2, <1>3, <1>4, <1>5, <1>6, <1>7, <1>8, <1>9, <1>10, <1>11, <1>12, <1>13, <1>14,
     <1>15, <1>16, <1>17, <1>18, <1>19, <1>20, <1>21, <1>22, <1>23, <1>24, <1>25, <1>26, <1>27,
     <1>28, <1>29, <1>30, <1>31, <1>32, <1>33, <1>34, <1>35, <1>36, <1>37, <1>38, <1>39, <1>40,
     <1>41 DEF Next, DbStep, PingStep, CmdStep, MainStep, AgentStep

\* The conversation: who reads a reply has asked for one.
LEMMA NextConversation == TypeInv /\ Places' /\ [Next]_vars => Conversation'
<1> SUFFICES ASSUME TypeInv, Places', [Next]_vars PROVE Conversation'
  OBVIOUS
<1> USE DEF TypeInv, Scalars, Places, Thread, Unstarted, Waiting, Conversation,
        state, flags, context, server, agent, commands
<1>1. CASE UNCHANGED vars
  BY <1>1 DEF vars
<1>2. CASE DbLoop
  BY <1>2 DEF DbLoop, Go
<1>3. CASE DbTest
  BY <1>3 DEF DbTest, Go
<1>4. CASE DbSleep
  BY <1>4 DEF DbSleep, Go
<1>5. CASE ReConnect
  BY <1>5 DEF ReConnect, Go
<1>6. CASE ConnectRedis
  BY <1>6 DEF ConnectRedis, Go
<1>7. ASSUME NEW t \in {"db", "main"}, StopRedisFlag(t) PROVE Conversation'
  BY <1>7 DEF StopRedisFlag, Go
<1>8. ASSUME NEW t \in {"db", "main"}, JoinPing(t) PROVE Conversation'
  BY <1>8 DEF JoinPing, Go
<1>9. ASSUME NEW t \in {"db", "main"}, FreeContext(t) PROVE Conversation'
  BY <1>9 DEF FreeContext, Go
<1>10. ASSUME NEW t \in {"db", "main"}, StartRedisCheck(t) PROVE Conversation'
  BY <1>10 DEF StartRedisCheck, Go, AfterStartRedis
<1>11. ASSUME NEW t \in {"db", "main"}, StartRedisThread(t) PROVE Conversation'
  BY <1>11 DEF StartRedisThread, Go, AfterStartRedis
<1>12. ASSUME NEW t \in {"ping", "cmd"}, Crash(t) PROVE Conversation'
  BY <1>12 DEF Crash, Go
<1>13. CASE PingLoop
  BY <1>13 DEF PingLoop, Go
<1>14. CASE PingSend
  BY <1>14 DEF PingSend, Go
<1>15. CASE PingReply
  BY <1>15 DEF PingReply, Go
<1>16. CASE PingStatus
  BY <1>16 DEF PingStatus, Go
<1>17. CASE PingCallback
  BY <1>17 DEF PingCallback, Go, WokenDb
<1>18. CASE CmdLoop
  BY <1>18 DEF CmdLoop, Go
<1>19. CASE CmdTest
  BY <1>19 DEF CmdTest, Go
<1>20. CASE CmdSleep
  BY <1>20 DEF CmdSleep, Go
<1>21. CASE CmdSend
  BY <1>21 DEF CmdSend, Go
<1>22. CASE CmdReply
  BY <1>22 DEF CmdReply, Go
<1>23. CASE CmdPop
  BY <1>23 DEF CmdPop, Go
<1>24. CASE AgentTakes
  BY <1>24 DEF AgentTakes, Go
<1>25. CASE Command
  BY <1>25 DEF Command, Go, WokenCmd
<1>26. CASE AgentExit
  BY <1>26 DEF AgentExit, Go
<1>27. CASE StartAgent
  BY <1>27 DEF StartAgent, Go
<1>28. CASE StopRequested
  BY <1>28 DEF StopRequested, Go
<1>29. CASE JoinAgent
  BY <1>29 DEF JoinAgent, Go
<1>30. CASE StartDb
  BY <1>30 DEF StartDb, Go
<1>31. CASE StartCmd
  BY <1>31 DEF StartCmd, Go
<1>32. CASE StopDbFlags
  BY <1>32 DEF StopDbFlags, Go
<1>33. CASE NotifyDb
  BY <1>33 DEF NotifyDb, Go, WokenDb
<1>34. CASE JoinDb
  BY <1>34 DEF JoinDb, Go
<1>35. CASE StopCmd
  BY <1>35 DEF StopCmd, Go
<1>36. CASE NotifyCmd
  BY <1>36 DEF NotifyCmd, Go, WokenCmd
<1>37. CASE JoinCmd
  BY <1>37 DEF JoinCmd, Go
<1>38. CASE Drain
  BY <1>38 DEF Drain, Go
<1>39. ASSUME NEW t \in {"db", "cmd"}, SpuriousWakeup(t) PROVE Conversation'
  BY <1>39 DEF SpuriousWakeup, Go
<1>40. CASE ServerDown
  BY <1>40 DEF ServerDown, Go
<1>41. CASE ServerUp
  BY <1>41 DEF ServerUp, Go
<1> QED
  BY <1>1, <1>2, <1>3, <1>4, <1>5, <1>6, <1>7, <1>8, <1>9, <1>10, <1>11, <1>12, <1>13, <1>14,
     <1>15, <1>16, <1>17, <1>18, <1>19, <1>20, <1>21, <1>22, <1>23, <1>24, <1>25, <1>26, <1>27,
     <1>28, <1>29, <1>30, <1>31, <1>32, <1>33, <1>34, <1>35, <1>36, <1>37, <1>38, <1>39, <1>40,
     <1>41 DEF Next, DbStep, PingStep, CmdStep, MainStep, AgentStep

LEMMA InitTypeInv == Init => TypeInv
<1> SUFFICES ASSUME Init PROVE TypeInv
  OBVIOUS
<1>1. Places /\ Unstarted /\ Counts /\ Conversation
  <2>1. <<>> \in Seq(1..MaxCommands) /\ <<>> \in Seq(Settled) /\ <<>> \in Seq({"PONG", "OK"})
    BY EmptySeq
  <2>2. Places /\ Unstarted
    BY DEF Init, Places, Unstarted, Thread, Location, MainAt, AgentAt, DbAt, PingAt, CmdAt
  <2>3. Counts
    BY <2>1, BoundsAssumption DEF Init, Counts, CommandTypes, AgentCounts, InHand, CommandInHand,
       DrainAfterJoin, Thread
  <2>4. Conversation
    BY <2>1 DEF Init, Conversation, Waiting, Thread
  <2> QED
    BY <2>2, <2>3, <2>4
<1>2. Scalars
  <2>1. up \in BOOLEAN /\ outages \in 0..MaxOutages
    BY BoundsAssumption, FirstUpAssumption DEF Init
  <2>2. m_context \in BOOLEAN /\ late \in BOOLEAN /\ link = m_context
    BY <2>1, Zenon DEF Init
  <2>3. m_ready \in BOOLEAN /\ db_running \in BOOLEAN /\ m_is_running \in BOOLEAN
        /\ m_is_cmd_running \in BOOLEAN /\ agent_running \in BOOLEAN
    BY Zenon DEF Init
  <2>4. m_state \in RedisStateType /\ db_state \in RedisStateType
        /\ aborted \in {"no", "terminate", "fault"}
    BY DEF Init, RedisStateType, UninitialisedState, UninitialisedDbState
  <2> QED
    BY <2>1, <2>2, <2>3, <2>4 DEF Scalars
<1> QED
  BY <1>1, <1>2 DEF TypeInv

LEMMA NextTypeInv == TypeInv /\ [Next]_vars => TypeInv'
BY NextPlaces, NextScalars, NextCounts, NextConversation DEF TypeInv

LEMMA TypeInvTypeOK == TypeInv => TypeOK
<1> SUFFICES ASSUME TypeInv PROVE TypeOK
  OBVIOUS
<1>1. Scalars /\ pc \in [Thread -> Location] /\ CommandTypes
  BY DEF TypeInv, Places, Counts
<1>2. replies \in Seq({"PONG", "OK"}) /\ Len(replies) <= 2
  BY DEF TypeInv, Conversation, Waiting
<1> QED
  BY <1>1, <1>2, Zenon DEF TypeOK, Scalars, CommandTypes, Settled

\* Every variable keeps its type: the front of the queue that is popped is there, and at
\* most one reply for each of the two threads is on the connection (RedisConnection.cpp:
\* 134-183).
THEOREM Types == Spec => []TypeOK
<1>1. Spec => []TypeInv
  BY InitTypeInv, NextTypeInv, PTL DEF Spec
<1> QED
  BY <1>1, TypeInvTypeOK, PTL

-----------------------------------------------------------------------------
(* The lives of the threads.                                               *)

\* Which threads are gone, and what else is, in which phase of stop().
Phases ==
  /\ pc["main"] \in {"close", "running", "ready", "notify", "joinDb", "flag", "join", "free",
                     "stopCmd", "notifyCmd", "joinCmd", "drain", "exit"} => pc["agent"] = "done"
  /\ pc["main"] \in {"flag", "join", "free", "stopCmd", "notifyCmd", "joinCmd", "drain", "exit"}
       => pc["db"] = "done"
  /\ pc["main"] \in {"free", "stopCmd", "notifyCmd", "joinCmd", "drain", "exit"}
       => pc["ping"] = "off"
  /\ pc["main"] \in {"stopCmd", "notifyCmd", "joinCmd", "drain", "exit"} => ~m_context

\* There is a ping thread exactly if its flag is set or somebody has cleared it and waits
\* for the thread to end, unless the program was ended by a second thread.
Joining == pc["db"] = "join" \/ pc["main"] = "join"
PingAlive ==
  aborted # "terminate" =>
    /\ pc["ping"] # "off" <=> m_is_running \/ Joining
    /\ ~(m_is_running /\ Joining)

\* As long as main is not on its way to start the ping thread, the database's thread has
\* no company when it replaces the connection: between the join and the next start there
\* is no ping thread.  That start is never the second one.
DbAlone == (~late /\ pc["main"] # "spawn") \/ pc["main"] \in {"start", "check"}
ReconnectsAlone ==
  DbAlone => /\ pc["db"] \in {"free", "connect", "check", "spawn"} =>
                  pc["ping"] = "off" /\ ~m_is_running
             /\ pc["ping"] # "stale" /\ aborted # "terminate"

\* If the constructor got its connection, nothing replaces it before main has started
\* the ping thread.
FirstConnection ==
  ~late /\ pc["main"] \in {"start", "check", "spawn"} =>
    /\ pc["db"] \in {"off", "loop", "test", "block", "wait", "done", "decide"}
    /\ pc["ping"] = "off" /\ ~m_is_running
    /\ m_context /\ db_state = "CONNECTED" /\ aborted # "terminate"

LifeInv == Phases /\ PingAlive /\ ReconnectsAlone /\ FirstConnection

\* What stop() has ended stays ended: nobody but the database's thread and main starts the
\* ping thread or makes a context.  The ping thread is started when there is none, its flag
\* is cleared by who joins it, and main starts it before the database's thread replaces the
\* first context, or else never.
LEMMA NextLifeInv == TypeInv /\ LifeInv /\ [Next]_vars => LifeInv'
<1> SUFFICES ASSUME TypeInv, LifeInv, [Next]_vars PROVE LifeInv'
  OBVIOUS
<1> USE DEF TypeInv, Places, Thread, Unstarted, LifeInv, Phases, Joining, PingAlive, DbAlone,
        ReconnectsAlone, FirstConnection, state, flags, context, server, agent, commands
<1>0. aborted = "no" \/ UNCHANGED vars
  BY DEF Next
<1>1. CASE UNCHANGED vars
  BY <1>1 DEF vars
<1>2. CASE DbLoop
  BY <1>2 DEF DbLoop, Go
<1>3. CASE DbTest
  BY <1>3 DEF DbTest, Go
<1>4. CASE DbSleep
  BY <1>4 DEF DbSleep, Go
<1>5. CASE ReConnect
  BY <1>5 DEF ReConnect, Go
<1>6. CASE ConnectRedis
  BY <1>6 DEF ConnectRedis, Go
<1>7. ASSUME NEW t \in {"db", "main"}, StopRedisFlag(t) PROVE LifeInv'
  BY <1>0, <1>7 DEF StopRedisFlag, Go, vars
<1>8. ASSUME NEW t \in {"db", "main"}, JoinPing(t) PROVE LifeInv'
  BY <1>8 DEF JoinPing, Go
<1>9. ASSUME NEW t \in {"db", "main"}, FreeContext(t) PROVE LifeInv'
  BY <1>9 DEF FreeContext, Go
<1>10. ASSUME NEW t \in {"db", "main"}, StartRedisCheck(t) PROVE LifeInv'
  BY <1>10 DEF StartRedisCheck, Go, AfterStartRedis
<1>11. ASSUME NEW t \in {"db", "main"}, StartRedisThread(t) PROVE LifeInv'
  BY <1>0, <1>11 DEF StartRedisThread, Go, AfterStartRedis, vars
<1>12. ASSUME NEW t \in {"ping", "cmd"}, Crash(t) PROVE LifeInv'
  BY <1>0, <1>12 DEF Crash, Go, vars, Fault
<1>13. CASE PingLoop
  BY <1>13 DEF PingLoop, Go
<1>14. CASE PingSend
  BY <1>14 DEF PingSend, Go
<1>15. CASE PingReply
  BY <1>15 DEF PingReply, Go
<1>16. CASE PingStatus
  BY <1>16 DEF PingStatus, Go
<1>17. CASE PingCallback
  BY <1>17 DEF PingCallback, Go, WokenDb
<1>18. CASE CmdLoop
  BY <1>18 DEF CmdLoop, Go
<1>19. CASE CmdTest
  BY <1>19 DEF CmdTest, Go
<1>20. CASE CmdSleep
  BY <1>20 DEF CmdSleep, Go
<1>21. CASE CmdSend
  BY <1>0, <1>21 DEF CmdSend, Go, vars
<1>22. CASE CmdReply
  BY <1>22 DEF CmdReply, Go
<1>23. CASE CmdPop
  BY <1>23 DEF CmdPop, Go
<1>24. CASE AgentTakes
  BY <1>24 DEF AgentTakes, Go
<1>25. CASE Command
  BY <1>25 DEF Command, Go, WokenCmd
<1>26. CASE AgentExit
  BY <1>26 DEF AgentExit, Go
<1>27. CASE StartAgent
  BY <1>27 DEF StartAgent, Go
<1>28. CASE StopRequested
  BY <1>28 DEF StopRequested, Go
<1>29. CASE JoinAgent
  BY <1>29 DEF JoinAgent, Go
<1>30. CASE StartDb
  BY <1>30 DEF StartDb, Go
<1>31. CASE StartCmd
  BY <1>31 DEF StartCmd, Go, Unstarted
<1>32. CASE StopDbFlags
  BY <1>32 DEF StopDbFlags, Go
<1>33. CASE NotifyDb
  BY <1>33 DEF NotifyDb, Go, WokenDb
<1>34. CASE JoinDb
  BY <1>34 DEF JoinDb, Go
<1>35. CASE StopCmd
  BY <1>35 DEF StopCmd, Go
<1>36. CASE NotifyCmd
  BY <1>36 DEF NotifyCmd, Go, WokenCmd
<1>37. CASE JoinCmd
  BY <1>37 DEF JoinCmd, Go
<1>38. CASE Drain
  BY <1>38 DEF Drain, Go
<1>39. ASSUME NEW t \in {"db", "cmd"}, SpuriousWakeup(t) PROVE LifeInv'
  BY <1>39 DEF SpuriousWakeup, Go
<1>40. CASE ServerDown
  BY <1>40 DEF ServerDown, Go
<1>41. CASE ServerUp
  BY <1>41 DEF ServerUp, Go
<1> QED
  BY <1>1, <1>2, <1>3, <1>4, <1>5, <1>6, <1>7, <1>8, <1>9, <1>10, <1>11, <1>12, <1>13, <1>14,
     <1>15, <1>16, <1>17, <1>18, <1>19, <1>20, <1>21, <1>22, <1>23, <1>24, <1>25, <1>26, <1>27,
     <1>28, <1>29, <1>30, <1>31, <1>32, <1>33, <1>34, <1>35, <1>36, <1>37, <1>38, <1>39, <1>40,
     <1>41 DEF Next, DbStep, PingStep, CmdStep, MainStep, AgentStep

LEMMA InitLifeInv == Init => LifeInv
<1> SUFFICES ASSUME Init PROVE LifeInv
  OBVIOUS
<1>1. Phases /\ PingAlive /\ ReconnectsAlone
  BY DEF Init, Phases, PingAlive, Joining, ReconnectsAlone, DbAlone, Thread
<1>2. FirstConnection
  <2>1. ~late => up /\ m_context = up /\ db_state = "CONNECTED"
    BY Zenon DEF Init
  <2> QED
    BY <2>1 DEF Init, FirstConnection, Thread
<1> QED
  BY <1>1, <1>2 DEF LifeInv

LEMMA LifeInvariant == Spec => [](TypeInv /\ LifeInv)
BY InitTypeInv, NextTypeInv, InitLifeInv, NextLifeInv, PTL DEF Spec

\* The ping thread never reads from a context that was freed under it, and no thread is
\* started over another: neither the replacement of the connection nor stop() comes
\* between them, if the constructor got its connection (RedisConnection.cpp:73-95).
THEOREM PingOnLiveContext == Spec => []PingContextLive
<1>1. TypeInv /\ LifeInv => PingContextLive
  <2> SUFFICES ASSUME TypeInv, LifeInv, ~late PROVE pc["ping"] # "stale" /\ aborted # "terminate"
    BY DEF PingContextLive
  <2>1. CASE pc["main"] = "spawn"
    BY <2>1 DEF LifeInv, FirstConnection
  <2>2. CASE pc["main"] # "spawn"
    BY <2>2 DEF LifeInv, ReconnectsAlone, DbAlone
  <2> QED
    BY <2>1, <2>2
<1> QED
  BY <1>1, LifeInvariant, PTL

\* When stop() returns, the threads of the component and of the agent have ended and the
\* context is freed, whatever was going on when it was called (RedisDatabase.cpp:76-92,
\* RedisConnection.cpp:107-127).
THEOREM StopLeavesNothing == Spec => []NothingLeftAfterStop
<1>1. TypeInv /\ LifeInv => NothingLeftAfterStop
  BY DEF TypeInv, Counts, DrainAfterJoin, LifeInv, Phases, NothingLeftAfterStop
<1> QED
  BY <1>1, LifeInvariant, PTL

-----------------------------------------------------------------------------
(* The commands.                                                           *)

\* How many commands in the queue are settled already: the one in hand, once it was sent.
SettledInQueue == IF pc["cmd"] \in {"reply", "stale", "pop"} THEN 1 ELSE 0

CommandInv ==
  /\ pc["cmd"] \in {"block", "wait"} => m_cmd_queue = <<>>
  /\ pc["main"] # "exit" =>
       /\ issued = Len(settled) + Len(m_cmd_queue) - SettledInQueue
       /\ \A i \in 1..Len(m_cmd_queue) : m_cmd_queue[i] = issued - Len(m_cmd_queue) + i

\* The command that is sent is the first one that is not settled, and it is settled by that.
LEMMA SendSettles ==
  ASSUME TypeInv, LifeInv, CommandInv, CmdSend
  PROVE  \/ UNCHANGED <<pc, settled>>
         \/ /\ pc' = [pc EXCEPT !["cmd"] = "reply"]
            /\ Len(settled) < issued /\ Len(settled') = Len(settled) + 1
            /\ \E b \in BOOLEAN :
                  settled' = Append(settled, [cmd |-> Len(settled) + 1, stored |-> b])
<1> DEFINE r == [cmd |-> Head(m_cmd_queue), stored |-> link]
<1>1. /\ m_cmd_queue \in Seq(1..MaxCommands) /\ settled \in Seq(Settled) /\ issued \in Nat
      /\ m_cmd_queue # <<>> /\ pc["cmd"] = "send" /\ pc["main"] # "exit"
  BY BoundsAssumption DEF TypeInv, Counts, CommandTypes, CommandInHand, DrainAfterJoin,
     InHand, CmdSend
<1>2. /\ issued = Len(settled) + Len(m_cmd_queue)
      /\ Head(m_cmd_queue) = issued - Len(m_cmd_queue) + 1 /\ Len(m_cmd_queue) >= 1
  BY <1>1 DEF CommandInv, SettledInQueue
<1>3. Head(m_cmd_queue) = Len(settled) + 1 /\ Len(settled) < issued
  BY <1>1, <1>2
<1>4. \/ UNCHANGED <<pc, settled>>
      \/ pc' = [pc EXCEPT !["cmd"] = "reply"] /\ settled' = Append(settled, r)
  BY Zenon DEF CmdSend, Go
<1>5. link \in BOOLEAN
  BY DEF TypeInv, Scalars
<1>6. r \in Settled
  <2>1. Head(m_cmd_queue) \in 1..MaxCommands
    BY <1>1, HeadTailProperties
  <2> QED
    BY <1>5, <2>1, Zenon DEF Settled
<1>7. r = [cmd |-> Len(settled) + 1, stored |-> link]
  BY <1>3
<1> HIDE DEF r
<1>8. Len(Append(settled, r)) = Len(settled) + 1
  BY <1>1, <1>6, Appended
<1> QED
  BY <1>3, <1>4, <1>5, <1>7, <1>8, Zenon

LEMMA NextCommandInv == TypeInv /\ LifeInv /\ CommandInv /\ [Next]_vars => CommandInv'
<1> SUFFICES ASSUME TypeInv, LifeInv, CommandInv, [Next]_vars PROVE CommandInv'
  OBVIOUS
<1> USE DEF TypeInv, Places, Thread, Counts, CommandTypes, CommandInHand, DrainAfterJoin, InHand,
        CommandInv, SettledInQueue, state, flags, context, server, agent, commands
<1>1. CASE UNCHANGED vars
  BY <1>1 DEF vars
<1>2. CASE DbLoop
  BY <1>2 DEF DbLoop, Go
<1>3. CASE DbTest
  BY <1>3 DEF DbTest, Go
<1>4. CASE DbSleep
  BY <1>4 DEF DbSleep, Go
<1>5. CASE ReConnect
  BY <1>5 DEF ReConnect, Go
<1>6. CASE ConnectRedis
  BY <1>6 DEF ConnectRedis, Go
<1>7. ASSUME NEW t \in {"db", "main"}, StopRedisFlag(t) PROVE CommandInv'
  BY <1>7 DEF StopRedisFlag, Go, vars
<1>8. ASSUME NEW t \in {"db", "main"}, JoinPing(t) PROVE CommandInv'
  BY <1>8 DEF JoinPing, Go
<1>9. ASSUME NEW t \in {"db", "main"}, FreeContext(t) PROVE CommandInv'
  BY <1>9 DEF FreeContext, Go
<1>10. ASSUME NEW t \in {"db", "main"}, StartRedisCheck(t) PROVE CommandInv'
  BY <1>10 DEF StartRedisCheck, Go, AfterStartRedis
<1>11. ASSUME NEW t \in {"db", "main"}, StartRedisThread(t) PROVE CommandInv'
  BY <1>11 DEF StartRedisThread, Go, AfterStartRedis, vars
<1>12. ASSUME NEW t \in {"ping", "cmd"}, Crash(t) PROVE CommandInv'
  BY <1>12 DEF Crash, Go, vars, Fault
<1>13. CASE PingLoop
  BY <1>13 DEF PingLoop, Go
<1>14. CASE PingSend
  BY <1>14 DEF PingSend, Go
<1>15. CASE PingReply
  BY <1>15 DEF PingReply, Go
<1>16. CASE PingStatus
  BY <1>16 DEF PingStatus, Go
<1>17. CASE PingCallback
  BY <1>17 DEF PingCallback, Go, WokenDb
<1>18. CASE CmdLoop
  BY <1>18 DEF CmdLoop, Go
<1>19. CASE CmdTest
  BY <1>19 DEF CmdTest, Go
<1>20. CASE CmdSleep
  BY <1>20 DEF CmdSleep, Go
<1>21. CASE CmdSend
  <2>1. CASE UNCHANGED <<pc, settled>>
    BY <1>21, <2>1 DEF CmdSend
  <2>2. CASE pc["cmd"] = "send" /\ pc' = [pc EXCEPT !["cmd"] = "reply"]
             /\ Len(settled') = Len(settled) + 1
    <3>1. UNCHANGED <<m_cmd_queue, issued>>
      BY <1>21 DEF CmdSend
    <3>2. /\ pc'["cmd"] = "reply" /\ pc'["main"] = pc["main"]
          /\ SettledInQueue = 0 /\ SettledInQueue' = 1
      BY <2>2
    <3>3. Len(settled) \in Nat /\ Len(m_cmd_queue) \in Nat
      OBVIOUS
    <3>4. pc["main"] # "exit" => issued = Len(settled) + Len(m_cmd_queue)
      BY <3>2, <3>3
    <3>5. pc["main"] # "exit" => issued' = Len(settled') + Len(m_cmd_queue') - SettledInQueue'
      BY <2>2, <3>1, <3>2, <3>3, <3>4
    <3> QED
      BY <3>1, <3>2, <3>5
  <2> QED
    BY <1>21, <2>1, <2>2, SendSettles DEF CmdSend, Go
<1>22. CASE CmdReply
  BY <1>22 DEF CmdReply, Go
<1>23. CASE CmdPop
  <2>1. m_cmd_queue # <<>> /\ Len(m_cmd_queue) \in Nat
    BY <1>23 DEF CmdPop, Go, TypeInv, Counts, CommandInHand, CommandTypes, InHand
  <2>2. /\ Len(m_cmd_queue') = Len(m_cmd_queue) - 1
        /\ \A i \in 1..Len(m_cmd_queue') : m_cmd_queue'[i] = m_cmd_queue[i + 1]
    BY <1>23, <2>1, HeadTailProperties DEF CmdPop
  <2>3. pc["main"] = "exit" => pc'["main"] = "exit"
    BY <1>23 DEF CmdPop, Go
  <2> QED
    BY <1>23, <2>1, <2>2, <2>3 DEF CmdPop, Go
<1>24. CASE AgentTakes
  BY <1>24 DEF AgentTakes, Go
<1>25. CASE Command
  <2>1. /\ Len(m_cmd_queue') = Len(m_cmd_queue) + 1 /\ Len(m_cmd_queue) \in Nat
        /\ \A i \in 1..Len(m_cmd_queue) : m_cmd_queue'[i] = m_cmd_queue[i]
        /\ m_cmd_queue'[Len(m_cmd_queue) + 1] = issued'
    BY <1>25, AppendProperties DEF Command
  <2>2. pc'["main"] = pc["main"] /\ SettledInQueue' = SettledInQueue /\ SettledInQueue \in Nat
    BY <1>25 DEF Command, WokenCmd
  <2>3. pc'["cmd"] \notin {"block", "wait"}
    BY <1>25 DEF Command, WokenCmd, CmdMutexFree
  <2> QED
    BY <1>25, <2>1, <2>2, <2>3 DEF Command
<1>26. CASE AgentExit
  BY <1>26 DEF AgentExit, Go
<1>27. CASE StartAgent
  BY <1>27 DEF StartAgent, Go
<1>28. CASE StopRequested
  BY <1>28 DEF StopRequested, Go
<1>29. CASE JoinAgent
  BY <1>29 DEF JoinAgent, Go
<1>30. CASE StartDb
  BY <1>30 DEF StartDb, Go
<1>31. CASE StartCmd
  BY <1>31 DEF StartCmd, Go, Unstarted
<1>32. CASE StopDbFlags
  BY <1>32 DEF StopDbFlags, Go
<1>33. CASE NotifyDb
  BY <1>33 DEF NotifyDb, Go, WokenDb
<1>34. CASE JoinDb
  BY <1>34 DEF JoinDb, Go
<1>35. CASE StopCmd
  BY <1>35 DEF StopCmd, Go
<1>36. CASE NotifyCmd
  BY <1>36 DEF NotifyCmd, Go, WokenCmd
<1>37. CASE JoinCmd
  BY <1>37 DEF JoinCmd, Go
<1>38. CASE Drain
  BY <1>38 DEF Drain, Go
<1>39. ASSUME NEW t \in {"db", "cmd"}, SpuriousWakeup(t) PROVE CommandInv'
  BY <1>39 DEF SpuriousWakeup, Go
<1>40. CASE ServerDown
  BY <1>40 DEF ServerDown, Go
<1>41. CASE ServerUp
  BY <1>41 DEF ServerUp, Go
<1> QED
  BY <1>1, <1>2, <1>3, <1>4, <1>5, <1>6, <1>7, <1>8, <1>9, <1>10, <1>11, <1>12, <1>13, <1>14,
     <1>15, <1>16, <1>17, <1>18, <1>19, <1>20, <1>21, <1>22, <1>23, <1>24, <1>25, <1>26, <1>27,
     <1>28, <1>29, <1>30, <1>31, <1>32, <1>33, <1>34, <1>35, <1>36, <1>37, <1>38, <1>39, <1>40,
     <1>41 DEF Next, DbStep, PingStep, CmdStep, MainStep, AgentStep

IInv == TypeInv /\ LifeInv /\ CommandInv

LEMMA InitCommandInv == Init => CommandInv
<1> SUFFICES ASSUME Init PROVE CommandInv
  OBVIOUS
<1>1. pc["cmd"] = "off" /\ m_cmd_queue = <<>> /\ settled = <<>> /\ issued = 0
  BY DEF Init, Thread
<1> QED
  BY <1>1 DEF CommandInv, SettledInQueue

LEMMA Invariant == Spec => []IInv
BY InitTypeInv, NextTypeInv, InitLifeInv, NextLifeInv, InitCommandInv, NextCommandInv, PTL
   DEF Spec, IInv

\* No command is overlooked: the command thread sleeps only while there is none, and what
\* was issued is settled or still in the queue, until stop() throws the rest away
\* (RedisConnection.cpp:162-184, 211-216).
THEOREM CommandsKept == Spec => []NoCommandForgotten
<1>1. IInv => NoCommandForgotten
  BY DEF IInv, CommandInv, SettledInQueue, NoCommandForgotten
<1> QED
  BY <1>1, Invariant, PTL

\* Each step issues a command, settles the next one, or is none of the store's business.
LEMMA StepRefines ==
  IInv /\ [Next]_vars => [Store!Issue \/ Store!Settle]_(Store!vars)
<1> SUFFICES ASSUME IInv, [Next]_vars
             PROVE  Store!Issue \/ Store!Settle \/ UNCHANGED <<issued, settled>>
  BY DEF Store!vars
<1>1. CASE UNCHANGED vars
  BY <1>1 DEF vars, commands
<1>2. CASE Command
  BY <1>2 DEF Command, Store!Issue
<1>3. CASE CmdSend
  <2>1. UNCHANGED issued
    BY <1>3 DEF CmdSend
  <2> QED
    BY <1>3, <2>1, SendSettles DEF IInv, Store!Settle
<1>4. CASE DbStep
  BY <1>4 DEF DbStep, DbLoop, DbTest, DbSleep, ReConnect, ConnectRedis, StopRedisFlag, JoinPing,
     FreeContext, StartRedisCheck, StartRedisThread, commands
<1>5. CASE PingStep
  BY <1>5 DEF PingStep, PingLoop, PingSend, PingReply, PingStatus, PingCallback, Crash, commands
<1>6. CASE CmdLoop \/ CmdTest \/ CmdSleep \/ CmdReply \/ CmdPop \/ Crash("cmd")
  BY <1>6 DEF CmdLoop, CmdTest, CmdSleep, CmdReply, CmdPop, Crash, commands
<1>7. CASE MainStep
  BY <1>7 DEF MainStep, StartDb, StartRedisCheck, StartRedisThread, StartCmd, StartAgent,
     JoinAgent, StopDbFlags, NotifyDb, JoinDb, StopRedisFlag, JoinPing, FreeContext, StopCmd,
     NotifyCmd, JoinCmd, Drain, commands
<1>8. CASE AgentExit \/ AgentTakes \/ StopRequested \/ ServerDown \/ ServerUp
           \/ \E t \in {"db", "cmd"} : SpuriousWakeup(t)
  BY <1>8 DEF AgentExit, AgentTakes, StopRequested, ServerDown, ServerUp, SpuriousWakeup, commands
<1> QED
  BY <1>1, <1>2, <1>3, <1>4, <1>5, <1>6, <1>7, <1>8 DEF Next, CmdStep, AgentStep

\* The component implements AtMostOnceStore: commands are settled in the order of
\* command(), each once, also when a reply is lost or read by the wrong thread and the
\* connection is replaced meanwhile (RedisConnection.cpp:162-184).
THEOREM ImplementsStore == Spec => SettledInOrder
<1>1. Init => Store!Init
  BY DEF Init, Store!Init
<1>2. IInv /\ IInv' /\ [Next]_vars => [Store!Issue \/ Store!Settle]_(Store!vars)
  BY StepRefines
<1> QED
  BY <1>1, <1>2, Invariant, PTL DEF Spec, Store!Spec, SettledInOrder
=============================================================================
