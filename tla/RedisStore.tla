----------------------------- MODULE RedisStore -----------------------------
(***************************************************************************)
(* RedisDatabase and RedisConnection with their three threads: "db"        *)
(* (RedisDatabase::run), which replaces the connection, "ping"             *)
(* (RedisConnection::run), which watches it, and "cmd"                     *)
(* (RedisConnection::runCommand), which sends the commands; "agent"        *)
(* (CanAgent::run), which issues the commands; and "main", the caller of   *)
(* start() and stop() of CanAgent.  How the agent gets its messages, and   *)
(* sleeps for them, is in VssCanExchange: here it has one at a time, which *)
(* is as many commands.  hiredis and the server are external:              *)
(* a context is live or null, its link works or not, and the replies to    *)
(* the requests on it come back in their order to whoever reads first.     *)
(***************************************************************************)
EXTENDS Naturals, Sequences

CONSTANTS
  MaxCommands,      \* bound: commands issued
  MaxOutages,       \* bound: how often the server goes down, or is down at first
  FirstUp,          \* whether the server may be up, down at construction
  ContextCanFail    \* whether redisConnectWithOptions may return NULL

ASSUME BoundsAssumption == MaxCommands \in Nat /\ MaxOutages \in Nat \ {0}
ASSUME FirstUpAssumption == FirstUp \in SUBSET BOOLEAN \ {{}} /\ ContextCanFail \in BOOLEAN

Thread == {"main", "agent", "db", "ping", "cmd"}
RedisStateType == {"INIT", "CONNECTED", "NOT_CONNECTED", "DISCONNECTED",
                   "NOT_DISCONNECTED", "CLOSED"}
Location == {"off", "loop", "test", "block", "wait", "done",         \* the loops
             "decide", "flag", "join", "free", "connect", "check", "spawn", \* reConnect
             "send", "reply", "stale", "status", "callback", "pop", "sleep",
             "start", "startCmd", "startAgent", "run", "issue", "joinAgent",
             "close", "running", "ready", "notify",
             "joinDb", "stopCmd", "notifyCmd", "joinCmd", "drain", "exit"}

VARIABLES
  pc,               \* thread -> where it is
  m_state,          \* RedisConnection::m_state
  db_state,         \* RedisDatabase::m_state
  db_running,       \* RedisDatabase::m_is_running
  m_ready,          \* RedisDatabase::m_ready
  m_is_running,     \* RedisConnection::m_is_running, the flag of the ping thread
  m_is_cmd_running,
  m_cmd_queue,
  m_context,        \* FALSE for a null pointer
  link,             \* the connection of the context works
  replies,          \* replies on the connection that nobody has read
  up,               \* the server accepts connections
  outages,          \* how often it went down, or was so at first
  late,             \* history: the constructor got no connection, and start() may
                    \* still start, or has started, the ping thread
  aborted,          \* "terminate", "fault", or "no"
  agent_running,    \* CanAgent::m_is_running
  left,             \* commands that the agent has still to issue for its message
  issued, settled   \* history: commands issued, and what became of them

flags == <<db_running, m_is_running, m_is_cmd_running>>
state == <<m_state, db_state, m_ready>>
context == <<m_context, link, replies>>
server == <<up, outages, late>>
agent == <<agent_running, left>>
commands == <<m_cmd_queue, issued, settled>>
vars == <<pc, state, flags, context, server, aborted, agent, commands>>

TypeOK ==
  /\ pc \in [Thread -> Location]
  /\ m_state \in RedisStateType /\ db_state \in RedisStateType
  /\ db_running \in BOOLEAN /\ m_ready \in BOOLEAN
  /\ m_is_running \in BOOLEAN /\ m_is_cmd_running \in BOOLEAN
  /\ m_cmd_queue \in Seq(1..MaxCommands)
  /\ m_context \in BOOLEAN /\ link \in BOOLEAN /\ (link => m_context)
  /\ replies \in Seq({"PONG", "OK"}) /\ Len(replies) <= 2
  /\ up \in BOOLEAN /\ outages \in 0..MaxOutages /\ late \in BOOLEAN
  /\ aborted \in {"no", "terminate", "fault"}
  /\ agent_running \in BOOLEAN /\ left \in 0..MaxCommands - issued
  /\ issued \in 0..MaxCommands
  /\ settled \in Seq([cmd : 1..MaxCommands, stored : BOOLEAN])

\* What memory may hold for a state: one value of each kind that the code tells apart
\* (runCommand: connected or not, reConnect: to connect again or not).
UninitialisedState == {"CONNECTED", "INIT"}
UninitialisedDbState == {"NOT_CONNECTED", "INIT"}

\* After the constructors: connected; refused; or without a context, with no
\* status reported and both states left uninitialised.
Init ==
  /\ pc = [t \in Thread |-> IF t = "main" THEN "start" ELSE "off"]
  /\ up \in FirstUp /\ outages = IF up THEN 0 ELSE 1
  /\ \/ /\ late = ~up /\ m_context = up
        /\ m_state = IF up THEN "CONNECTED" ELSE "NOT_CONNECTED"
        /\ db_state = m_state /\ m_ready = TRUE
     \/ /\ ContextCanFail /\ late = TRUE /\ m_context = FALSE
        /\ m_state \in UninitialisedState /\ db_state \in UninitialisedDbState
        /\ m_ready = FALSE
  /\ link = m_context /\ replies = <<>>
  /\ db_running = FALSE /\ m_is_running = FALSE /\ m_is_cmd_running = FALSE
  /\ agent_running = FALSE /\ left = 0
  /\ m_cmd_queue = <<>> /\ issued = 0 /\ settled = <<>>
  /\ aborted = "no"

Go(t, from, to) == pc[t] = from /\ pc' = [pc EXCEPT ![t] = to]

\* RedisDatabase::m_mutex and m_cmd_mutex.  The command thread holds its mutex
\* from the test to the end of the loop's body, the 500 ms sleep included.
\* LockKeptInReConnect is a mutated form of DbMutexFree: no lock.unlock() before
\* reConnect().
LockKeptInReConnect ==
  pc["db"] \notin {"block", "decide", "flag", "join", "free", "connect", "check", "spawn"}
DbMutexFree == pc["db"] # "block"
CmdMutexFree == pc["cmd"] \notin {"block", "send", "reply", "stale", "pop", "sleep"}

WokenDb == IF pc["db"] = "wait" THEN "test" ELSE pc["db"]
WokenCmd == IF pc["cmd"] = "wait" THEN "test" ELSE pc["cmd"]

-----------------------------------------------------------------------------
(* RedisDatabase::run and reConnect.                                       *)

DbLoop ==
  /\ Go("db", "loop", IF db_running THEN "test" ELSE "done")
  /\ UNCHANGED <<state, flags, context, server, aborted, agent, commands>>

DbTest ==
  /\ \/ ~m_ready /\ Go("db", "test", "block") /\ UNCHANGED m_ready
     \/ m_ready /\ ~db_running /\ Go("db", "test", "done") /\ UNCHANGED m_ready
     \/ m_ready /\ db_running /\ Go("db", "test", "decide") /\ m_ready' = FALSE
  /\ UNCHANGED <<m_state, db_state, flags, context, server, aborted, agent, commands>>

DbSleep ==
  /\ Go("db", "block", "wait")
  /\ UNCHANGED <<state, flags, context, server, aborted, agent, commands>>

ReConnect ==
  /\ Go("db", "decide", IF db_state \in {"NOT_CONNECTED", "NOT_DISCONNECTED"}
                        THEN "flag" ELSE "loop")
  /\ UNCHANGED <<state, flags, context, server, aborted, agent, commands>>

\* connectRedis, with the callback it makes: the new context is kept, or it has
\* an error and is freed, or there is none and nothing is reported.
ConnectRedis ==
  /\ Go("db", "connect", "check")
  /\ \/ /\ m_context' = up /\ link' = up
        /\ m_state' = IF up THEN "CONNECTED" ELSE "NOT_CONNECTED"
        /\ db_state' = m_state' /\ m_ready' = TRUE
     \/ /\ ContextCanFail
        /\ UNCHANGED <<m_context, link, state>>
  /\ UNCHANGED <<replies, flags, server, aborted, agent, commands>>

-----------------------------------------------------------------------------
(* stopRedis and startRedis, called by the db thread and by main.          *)

\* Mutated form of StopRedisFlag: the ping thread is not waited for.
StopWithoutJoin(t) ==
  /\ Go(t, "flag", "free")
  /\ m_is_running' = FALSE
  /\ UNCHANGED <<state, db_running, m_is_cmd_running, context, server, aborted, agent, commands>>

StopRedisFlag(t) ==
  /\ Go(t, "flag", IF m_is_running THEN "join" ELSE "free")
  /\ m_is_running' = FALSE
  /\ UNCHANGED <<state, db_running, m_is_cmd_running, context, server, aborted, agent, commands>>

\* The ping thread is joined.
JoinPing(t) ==
  /\ pc[t] = "join" /\ pc["ping"] = "done"
  /\ pc' = [pc EXCEPT ![t] = "free", !["ping"] = "off"]
  /\ UNCHANGED <<state, flags, context, server, aborted, agent, commands>>

\* redisFree: a thread that is inside redisCommand is left with a context that
\* is gone.
FreeContext(t) ==
  /\ pc[t] = "free"
  /\ m_context' = FALSE /\ link' = FALSE /\ replies' = <<>>
  /\ pc' = [u \in Thread |->
              IF u = t THEN (IF t = "db" THEN "connect" ELSE "stopCmd")
              ELSE IF pc[u] = "reply" THEN "stale" ELSE pc[u]]
  /\ UNCHANGED <<state, flags, server, aborted, agent, commands>>

AfterStartRedis(t) == IF t = "db" THEN "loop" ELSE "startCmd"

\* The test of startRedis ...
StartRedisCheck(t) ==
  /\ Go(t, "check", IF ~m_is_running /\ m_context THEN "spawn" ELSE AfterStartRedis(t))
  /\ late' = (late /\ ~(t = "main" /\ pc'[t] # "spawn"))
  /\ UNCHANGED <<state, flags, context, up, outages, aborted, agent, commands>>

\* ... and what it guards: assigning a thread over one that was not joined
\* terminates the program.
StartRedisThread(t) ==
  /\ pc[t] = "spawn"
  /\ m_is_running' = TRUE
  /\ IF pc["ping"] = "off"
     THEN /\ pc' = [pc EXCEPT ![t] = AfterStartRedis(t), !["ping"] = "loop"]
          /\ UNCHANGED aborted
     ELSE aborted' = "terminate" /\ UNCHANGED pc
  /\ UNCHANGED <<state, db_running, m_is_cmd_running, context, server, agent, commands>>

-----------------------------------------------------------------------------
(* RedisConnection::run, the ping thread.                                  *)

\* While two threads read replies from one context, which is not made for it,
\* the program may also crash.
Fault(t) == pc[t] = "stale" \/ (pc["ping"] = "reply" /\ pc["cmd"] = "reply" /\ t = "ping")

Crash(t) ==
  /\ Fault(t)
  /\ aborted' = "fault"
  /\ UNCHANGED <<pc, state, flags, context, server, agent, commands>>

PingLoop ==
  /\ Go("ping", "loop", IF m_is_running THEN "send" ELSE "done")
  /\ UNCHANGED <<state, flags, context, server, aborted, agent, commands>>

\* After the pause: PING, or no reply at once without a context.
PingSend ==
  /\ \/ ~m_context /\ Go("ping", "send", "status") /\ UNCHANGED replies
     \/ /\ m_context /\ Go("ping", "send", "reply")
        /\ replies' = IF link THEN Append(replies, "PONG") ELSE replies
  /\ UNCHANGED <<state, flags, m_context, link, server, aborted, agent, commands>>

\* Mutated forms of PingReply: the reply is left on the connection; a broken
\* link goes unnoticed.
PingLeavesReply ==
  /\ Go("ping", "reply", "loop")
  /\ UNCHANGED <<state, flags, context, server, aborted, agent, commands>>

PingIgnoresError ==
  /\ Go("ping", "reply", "loop")
  /\ replies' = IF replies = <<>> THEN <<>> ELSE Tail(replies)
  /\ UNCHANGED <<state, flags, m_context, link, server, aborted, agent, commands>>

\* No reply, or one that is not PONG, asks for a new connection.
PingReply ==
  /\ \/ ~link /\ Go("ping", "reply", "status") /\ UNCHANGED replies
     \/ /\ link /\ replies # <<>>
        /\ Go("ping", "reply", IF Head(replies) = "PONG" THEN "loop" ELSE "status")
        /\ replies' = Tail(replies)
     \/ Go("ping", "stale", "status") /\ UNCHANGED replies
  /\ UNCHANGED <<state, flags, m_context, link, server, aborted, agent, commands>>

\* sendRedisConnectionStatus(NOT_DISCONNECTED): the state ...
PingStatus ==
  /\ Go("ping", "status", "callback")
  /\ m_state' = "NOT_DISCONNECTED"
  /\ UNCHANGED <<db_state, m_ready, flags, context, server, aborted, agent, commands>>

\* ... and connectionCallback, with the mutex of the database.
PingCallback ==
  /\ pc["ping"] = "callback" /\ DbMutexFree
  /\ db_state' = m_state /\ m_ready' = TRUE
  /\ pc' = [pc EXCEPT !["ping"] = "loop", !["db"] = WokenDb]
  /\ UNCHANGED <<m_state, flags, context, server, aborted, agent, commands>>

-----------------------------------------------------------------------------
(* RedisConnection::runCommand and command.                                *)

CmdLoop ==
  /\ Go("cmd", "loop", IF m_is_cmd_running THEN "test" ELSE "done")
  /\ UNCHANGED <<state, flags, context, server, aborted, agent, commands>>

\* Mutated form of CmdTest: it waits for a connection as for a command, of which
\* nobody notifies it.
CmdTestConnected ==
  /\ \/ ~m_is_cmd_running /\ Go("cmd", "test", "done")
     \/ m_is_cmd_running /\ m_cmd_queue = <<>> /\ Go("cmd", "test", "block")
     \/ /\ m_is_cmd_running /\ m_cmd_queue # <<>>
        /\ Go("cmd", "test", IF m_state = "CONNECTED" THEN "send" ELSE "block")
  /\ UNCHANGED <<state, flags, context, server, aborted, agent, commands>>

CmdTest ==
  /\ \/ ~m_is_cmd_running /\ Go("cmd", "test", "done")
     \/ m_is_cmd_running /\ m_cmd_queue = <<>> /\ Go("cmd", "test", "block")
     \/ /\ m_is_cmd_running /\ m_cmd_queue # <<>>
        /\ Go("cmd", "test", IF m_state = "CONNECTED" THEN "send" ELSE "sleep")
  /\ UNCHANGED <<state, flags, context, server, aborted, agent, commands>>

CmdSleep ==
  /\ Go("cmd", "block", "wait") \/ Go("cmd", "sleep", "loop")
  /\ UNCHANGED <<state, flags, context, server, aborted, agent, commands>>

\* redisCommand: with a null context it crashes; on a working link the server
\* executes the command; otherwise the command is lost.
CmdSend ==
  /\ pc["cmd"] = "send"
  /\ IF ~m_context
     THEN aborted' = "fault" /\ UNCHANGED <<pc, replies, settled>>
     ELSE /\ Go("cmd", "send", "reply")
          /\ settled' = Append(settled, [cmd |-> Head(m_cmd_queue), stored |-> link])
          /\ replies' = IF link THEN Append(replies, "OK") ELSE replies
          /\ UNCHANGED aborted
  /\ UNCHANGED <<state, flags, m_context, link, server, agent, m_cmd_queue, issued>>

CmdReply ==
  /\ \/ ~link /\ Go("cmd", "reply", "pop") /\ UNCHANGED replies
     \/ link /\ replies # <<>> /\ Go("cmd", "reply", "pop") /\ replies' = Tail(replies)
     \/ Go("cmd", "stale", "pop") /\ UNCHANGED replies
  /\ UNCHANGED <<state, flags, m_context, link, server, aborted, agent, commands>>

\* Mutated form of CmdPop: a command without a good link is kept for a retry.
PopIfLinked ==
  /\ Go("cmd", "pop", "loop")
  /\ m_cmd_queue' = IF link THEN Tail(m_cmd_queue) ELSE m_cmd_queue
  /\ UNCHANGED <<state, flags, context, server, aborted, agent, issued, settled>>

\* The command is popped whatever came back.
CmdPop ==
  /\ Go("cmd", "pop", "loop")
  /\ m_cmd_queue' = Tail(m_cmd_queue)
  /\ UNCHANGED <<state, flags, context, server, aborted, agent, issued, settled>>

-----------------------------------------------------------------------------
(* CanAgent: run and processMessage, start and stop.                       *)

\* A message with k signals that have a VSS name; others make no command.
AgentTakes ==
  /\ pc["main"] = "run" /\ agent_running /\ Go("agent", "loop", "issue")
  /\ \E k \in 1..MaxCommands - issued : left' = k
  /\ UNCHANGED <<state, flags, context, server, aborted, agent_running, commands>>

\* One turn of the loop over the signals: RedisConnection::command with its mutex.
Command ==
  /\ CmdMutexFree /\ pc["agent"] = "issue"
  /\ left' = left - 1 /\ issued' = issued + 1
  /\ m_cmd_queue' = Append(m_cmd_queue, issued + 1)
  /\ pc' = [pc EXCEPT !["cmd"] = WokenCmd, !["agent"] = IF left = 1 THEN "loop" ELSE "issue"]
  /\ UNCHANGED <<state, flags, context, server, aborted, agent_running, settled>>

AgentExit ==
  /\ ~agent_running /\ Go("agent", "loop", "done")
  /\ UNCHANGED <<state, flags, context, server, aborted, agent, commands>>

\* The end of CanAgent::start.
StartAgent ==
  /\ pc["main"] = "startAgent"
  /\ pc' = [pc EXCEPT !["main"] = "run", !["agent"] = "loop"]
  /\ UNCHANGED <<state, flags, context, server, aborted, agent, commands>>

\* CanAgent::stop: the flag, ...
StopRequested ==
  /\ Go("main", "run", "joinAgent") /\ agent_running' = FALSE
  /\ UNCHANGED <<state, flags, context, server, aborted, left, commands>>

\* ... the join, and then RedisDatabase::stop.
JoinAgent ==
  /\ pc["agent"] = "done" /\ Go("main", "joinAgent", "close")
  /\ UNCHANGED <<state, flags, context, server, aborted, agent, commands>>

-----------------------------------------------------------------------------
(* RedisDatabase::start and stop with those of RedisConnection; the server. *)

\* With the beginning of CanAgent::start.
StartDb ==
  /\ pc["main"] = "start"
  /\ agent_running' = TRUE /\ db_running' = TRUE
  /\ pc' = [pc EXCEPT !["main"] = "check", !["db"] = "loop"]
  /\ UNCHANGED <<state, m_is_running, m_is_cmd_running, context, server, aborted, left, commands>>

StartCmd ==
  /\ pc["main"] = "startCmd"
  /\ m_is_cmd_running' = TRUE
  /\ pc' = [pc EXCEPT !["main"] = "startAgent", !["cmd"] = "loop"]
  /\ UNCHANGED <<state, db_running, m_is_running, context, server, aborted, agent, commands>>

\* stop(): three assignments, none of them with the mutex, and a notification.
StopDbFlags ==
  /\ \/ Go("main", "close", "running") /\ db_state' = "CLOSED" /\ UNCHANGED <<db_running, m_ready>>
     \/ Go("main", "running", "ready") /\ db_running' = FALSE /\ UNCHANGED <<db_state, m_ready>>
     \/ Go("main", "ready", "notify") /\ m_ready' = TRUE /\ UNCHANGED <<db_state, db_running>>
  /\ UNCHANGED <<m_state, m_is_running, m_is_cmd_running, context, server, aborted, agent, commands>>

NotifyDb ==
  /\ pc["main"] = "notify"
  /\ pc' = [pc EXCEPT !["main"] = "joinDb", !["db"] = WokenDb]
  /\ UNCHANGED <<state, flags, context, server, aborted, agent, commands>>

\* Mutated form of JoinDb: the thread is detached.
DetachDb ==
  /\ Go("main", "joinDb", "flag")
  /\ UNCHANGED <<state, flags, context, server, aborted, agent, commands>>

JoinDb ==
  /\ pc["db"] = "done" /\ Go("main", "joinDb", "flag")
  /\ UNCHANGED <<state, flags, context, server, aborted, agent, commands>>

StopCmd ==
  /\ Go("main", "stopCmd", "notifyCmd")
  /\ m_is_cmd_running' = FALSE
  /\ UNCHANGED <<state, db_running, m_is_running, context, server, aborted, agent, commands>>

NotifyCmd ==
  /\ pc["main"] = "notifyCmd"
  /\ pc' = [pc EXCEPT !["main"] = "joinCmd", !["cmd"] = WokenCmd]
  /\ UNCHANGED <<state, flags, context, server, aborted, agent, commands>>

JoinCmd ==
  /\ pc["cmd"] = "done" /\ Go("main", "joinCmd", "drain")
  /\ UNCHANGED <<state, flags, context, server, aborted, agent, commands>>

Drain ==
  /\ Go("main", "drain", "exit")
  /\ m_cmd_queue' = <<>>
  /\ UNCHANGED <<state, flags, context, server, aborted, agent, issued, settled>>

SpuriousWakeup(t) ==
  /\ Go(t, "wait", "test")
  /\ UNCHANGED <<state, flags, context, server, aborted, agent, commands>>

\* The server goes down, and with it every connection; it comes back.
ServerDown ==
  /\ up /\ outages < MaxOutages
  /\ up' = FALSE /\ outages' = outages + 1
  /\ link' = FALSE /\ replies' = <<>>
  /\ UNCHANGED <<pc, state, flags, m_context, late, aborted, agent, commands>>

ServerUp ==
  /\ ~up /\ up' = TRUE
  /\ UNCHANGED <<pc, state, flags, context, outages, late, aborted, agent, commands>>

-----------------------------------------------------------------------------
DbStep == \/ DbLoop \/ DbTest \/ DbSleep \/ ReConnect \/ ConnectRedis
          \/ StopRedisFlag("db") \/ JoinPing("db") \/ FreeContext("db")
          \/ StartRedisCheck("db") \/ StartRedisThread("db")
PingStep == PingLoop \/ PingSend \/ PingReply \/ PingStatus \/ PingCallback \/ Crash("ping")
CmdStep == CmdLoop \/ CmdTest \/ CmdSleep \/ CmdSend \/ CmdReply \/ CmdPop \/ Crash("cmd")
AgentStep == Command \/ AgentExit
MainStep == \/ StartDb \/ StartRedisCheck("main") \/ StartRedisThread("main") \/ StartCmd
            \/ StartAgent \/ JoinAgent \/ StopDbFlags \/ NotifyDb \/ JoinDb
            \/ StopRedisFlag("main") \/ JoinPing("main") \/ FreeContext("main")
            \/ StopCmd \/ NotifyCmd \/ JoinCmd \/ Drain

Next ==
  /\ aborted = "no"
  /\ \/ DbStep \/ PingStep \/ CmdStep \/ MainStep \/ AgentStep
     \/ AgentTakes \/ StopRequested \/ ServerDown \/ ServerUp
     \/ \E t \in {"db", "cmd"} : SpuriousWakeup(t)

\* The threads run on, and the C++ runtime does not wake them up for nothing for ever.
\* A thread gets a mutex only if that stays free: lock() of std::mutex promises no more.
\* Messages, the stop and outages need not come.
Fairness ==
  /\ WF_vars(aborted = "no" /\ DbStep) /\ WF_vars(aborted = "no" /\ PingStep)
  /\ WF_vars(aborted = "no" /\ CmdStep) /\ WF_vars(aborted = "no" /\ MainStep)
  /\ WF_vars(aborted = "no" /\ AgentStep)
  /\ \A t \in {"db", "cmd"} : <>[][~SpuriousWakeup(t)]_vars

Spec == Init /\ [][Next]_vars
FairSpec == Spec /\ Fairness

-----------------------------------------------------------------------------
(* Properties.                                                             *)

\* Commands are settled in the order of command(), each at most once, also when
\* a reply is lost, the connection replaced or a reply read by the wrong thread
\* (RedisConnection.cpp:173-179): a command without an answer is not sent again.
Store == INSTANCE AtMostOnceStore
SettledInOrder == Store!Spec

\* No command is overlooked: the command thread sleeps only while there is none,
\* and until stop() throws the rest away what is neither settled nor in the
\* queue was never issued (RedisConnection.cpp:162-184, 211-216).
NoCommandForgotten ==
  /\ pc["cmd"] = "wait" => m_cmd_queue = <<>>
  /\ pc["main"] # "exit" =>
       issued = Len(settled) + Len(m_cmd_queue)
                  - (IF pc["cmd"] \in {"reply", "stale", "pop"} THEN 1 ELSE 0)

\* The ping thread never works on a freed context: stopRedis joins it before
\* redisFree, and no thread is started over another, whoever calls it
\* (RedisConnection.cpp:73-95).  Only if the very first connection failed, and start()
\* finds one that the database's thread has made meanwhile, can it bring up a thread
\* behind that join, or can both start one.
PingContextLive == ~late => pc["ping"] # "stale" /\ aborted # "terminate"

\* When stop() returns no thread of the component or of the agent is left and the context is
\* freed (RedisDatabase.cpp:76-92, RedisConnection.cpp:107-127).
NothingLeftAfterStop ==
  pc["main"] = "exit" => /\ pc["db"] = "done" /\ pc["ping"] = "off" /\ pc["cmd"] = "done"
                         /\ pc["agent"] = "done"
                         /\ ~m_context

\* Neither stop() nor what it leaves behind.
Working ==
  pc["main"] \in {"start", "check", "spawn", "startCmd", "startAgent", "run", "joinAgent"}

\* No context was had (RedisConnection.cpp:53), about which nobody is notified: the
\* database's thread sleeps, and the ping thread was joined before.
GivenUp == ~m_context /\ pc["db"] = "wait"

\* Once the server stays up there is again and again a connection that works,
\* unless the component was stopped, the program has crashed or redisConnect gave
\* no context (RedisDatabase.cpp:110-119 with RedisConnection.cpp:129-160).
Reconnects ==
  <>[]up => []<>((m_state = "CONNECTED" /\ link) \/ ~Working \/ aborted # "no" \/ GivenUp)

\* stop() waits for the database's thread in vain only if that thread is asleep:
\* the notification without the mutex was lost (RedisDatabase.cpp:78-85).
JoinDbWaitsOnlyForSleeper ==
  (pc["main"] = "joinDb") ~> (pc["main"] # "joinDb" \/ pc["db"] = "wait" \/ aborted # "no")

\* Once the server stays up, no command waits for ever: however many connections and
\* replies were lost or mixed up before, the command thread is woken for it and finds a
\* connection, unless stop() comes first
\* (RedisConnection.cpp:129-160, 162-184, 211-216; RedisDatabase.cpp:94-119).
CommandsSettle ==
  \A k \in 1..MaxCommands :
    <>[]up => ((issued >= k) ~> (Len(settled) >= k \/ ~Working \/ aborted # "no" \/ GivenUp))
=============================================================================
