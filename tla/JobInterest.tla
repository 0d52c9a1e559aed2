---------------------------- MODULE JobInterest -----------------------------
(***************************************************************************)
(* The interest of a worker in one job (mqtt/MqttJobUpdates.go), its timer *)
(* and the events that keep it alive (events/EventManager.go), with the    *)
(* goroutines that use the job: the proxy's outgoing goroutine             *)
(* (GetTableEntryByServiceIP), the task executor                           *)
(* (updateInternalProxyDataStructures) and the undeployment handler        *)
(* (DetachContainer).                                                      *)
(*                                                                         *)
(* The table is abstracted to whether it has entries of the job, a query   *)
(* to whether it is answered.  Time is abstracted: a timer may expire      *)
(* whenever it has no event to receive.  The connection to the broker may  *)
(* be lost at any time; the broker then forgets the subscriptions, which   *)
(* the connect handler (mqtt/MqttMainClient.go) makes again from the map   *)
(* of topics once the connection is back.  The connection does not come    *)
(* back before the connect handler of the one before has ended.            *)
(***************************************************************************)
EXTENDS Naturals, FiniteSets, Sequences

CONSTANTS
    Timers,   \* goroutines startSelfDestructTimeout, live at the same time
    Channels, \* event channels
    Cap,      \* capacity of an event channel, 10
    Job,      \* the job
    Others,   \* other jobs, in which there is an interest all the time
    None

ASSUME CapAssumption == Cap \in Nat \ {0}
ASSUME OthersAssumption == IsFiniteSet(Others) /\ Job \notin Others
ASSUME NoneAssumption == None \notin Channels
\* There is a channel for every timer: no name is ever missing for a new one.
ASSUME ChannelsAssumption ==
    /\ IsFiniteSet(Timers) /\ IsFiniteSet(Channels)
    /\ Cardinality(Timers) <= Cardinality(Channels)

VARIABLES
    runningHandlers, \* the jobs there is an interest in, a slice
    topics,     \* the topic of the job's updates is in the map of topics
    connection, \* to the broker, "up" or "lost"
    subscribed, \* the broker has a subscription to the topic
    unheeded,   \* history: a Subscribe to it has failed on this connection
    handler,    \* the connect handler, and whether it has found the topic
    entries,    \* the translation table has entries of the job
    deployed,   \* an instance of the job is in deployedServices
    channelOf,  \* the job's channel in eventTableQueryChannelQueue
    closed,     \* the channels that are closed
    length,     \* number of events in a channel
    timer,      \* the timers: where they are and the channel they receive from
    out,        \* the proxy's outgoing goroutine, and the channel it sends to
    executor,   \* the task executor
    undeployer  \* the goroutine of an undeployment request

channels == <<channelOf, closed, length>>
broker == <<connection, subscribed, unheeded, handler>>
vars == <<runningHandlers, topics, broker, entries, deployed, channelOf, closed, length,
          timer, out, executor, undeployer>>

NoTimer == [pc |-> "none", channel |-> None]
NotSending == [pc |-> "idle", channel |-> None]
NoHandler == [pc |-> "idle", found |-> FALSE]

\* The slice with the other jobs, each of them once, in any order.
OtherInterests ==
    {s \in [1 .. Cardinality(Others) -> Others] :
        \A j \in Others : \E i \in DOMAIN s : \A k \in DOMAIN s : s[k] = j <=> k = i}

Init ==
    /\ runningHandlers \in OtherInterests
    /\ topics = FALSE
    /\ connection = "up" /\ subscribed = FALSE /\ unheeded = FALSE /\ handler = NoHandler
    /\ entries = FALSE
    /\ deployed = FALSE
    /\ channelOf = None
    /\ closed = {}
    /\ length = [c \in Channels |-> 0]
    /\ timer = [t \in Timers |-> NoTimer]
    /\ out = NotSending
    /\ executor = "idle"
    /\ undeployer = "idle"

-----------------------------------------------------------------------------
(* The slice runningHandlers (utils/SliceApi.go).                           *)

\* findLocked: an index, or 0 (-1 in the code).
FindLocked(s, j) == IF \E i \in DOMAIN s : s[i] = j
                    THEN CHOOSE i \in DOMAIN s : s[i] = j /\ \A k \in 1 .. i - 1 : s[k] # j
                    ELSE 0

Exists(s, j) == FindLocked(s, j) > 0

\* removeLocked: the last element takes the place.
RemoveLocked(s, i) ==
    IF i \in DOMAIN s THEN SubSeq([s EXCEPT ![i] = s[Len(s)]], 1, Len(s) - 1) ELSE s

RemoveElem(s, j) == RemoveLocked(s, FindLocked(s, j))

registered == Exists(runningHandlers, Job)

-----------------------------------------------------------------------------
(* The client of the broker.                                                *)

\* The topic is stored, and subscribed if there is a connection and the broker
\* acknowledges it in time; that it did not is not looked at.
RegisterTopic ==
    /\ topics' = TRUE
    /\ \/ connection = "up" /\ subscribed' = TRUE /\ unheeded' = FALSE
       \/ UNCHANGED subscribed /\ unheeded' = (connection = "up")

DeRegisterTopic == subscribed' = FALSE /\ unheeded' = FALSE /\ topics' = FALSE

ConnectionLost ==
    /\ connection = "up"
    /\ connection' = "lost"
    /\ subscribed' = FALSE /\ unheeded' = FALSE
    /\ UNCHANGED <<runningHandlers, topics, handler, entries, deployed, channels,
                   timer, out, executor, undeployer>>

\* The connect handler goes through the map without its lock ...
Reconnect ==
    /\ connection = "lost"
    /\ handler.pc = "idle"
    /\ connection' = "up"
    /\ handler' = [pc |-> "iterating", found |-> topics]
    /\ UNCHANGED <<runningHandlers, topics, subscribed, unheeded, entries, deployed,
                   channels, timer, out, executor, undeployer>>

\* ... and may or may not find a topic that comes or goes meanwhile.
IterationEnds ==
    /\ handler.pc = "iterating"
    /\ \E found \in {handler.found, topics} :
          handler' = [pc |-> "subscribing", found |-> found]
    /\ UNCHANGED <<runningHandlers, topics, connection, subscribed, unheeded, entries,
                   deployed, channels, timer, out, executor, undeployer>>

\* Faulty variant: the topics are not subscribed again.
SubscribeNone(found) == FALSE

\* SubscribeMultiple.
SubscribeMultiple(found) == found /\ connection = "up"

\* The connect handler does not look at the outcome either.
HandlerEnds ==
    /\ handler.pc = "subscribing"
    /\ \/ /\ subscribed' = (subscribed \/ SubscribeMultiple(handler.found))
          /\ unheeded' = (unheeded /\ ~subscribed')
       \/ /\ handler.found /\ connection = "up"
          /\ unheeded' = TRUE
          /\ UNCHANGED subscribed
    /\ handler' = NoHandler
    /\ UNCHANGED <<runningHandlers, topics, connection, entries, deployed, channels,
                   timer, out, executor, undeployer>>

\* The map is written to while it is gone through: the runtime may notice, and
\* end the process, which is started anew and finds the interests in the
\* other jobs again.
WritesTopics ==
    \/ ~registered /\ (out.pc = "register" \/ executor = "register")
    \/ \E t \in Timers : timer[t].pc = "topic"

ConcurrentMapWrite ==
    /\ handler.pc = "iterating"
    /\ WritesTopics
    /\ runningHandlers' \in OtherInterests
    /\ topics' = FALSE
    /\ connection' = "up" /\ subscribed' = FALSE /\ unheeded' = FALSE
    /\ handler' = NoHandler
    /\ entries' = FALSE /\ deployed' = FALSE
    /\ channelOf' = None /\ closed' = {} /\ length' = [c \in Channels |-> 0]
    /\ timer' = [t \in Timers |-> NoTimer]
    /\ out' = NotSending
    /\ executor' = "idle" /\ undeployer' = "idle"

BrokerStep ==
    ConnectionLost \/ Reconnect \/ IterationEnds \/ HandlerEnds \/ ConcurrentMapWrite

-----------------------------------------------------------------------------
(* MqttRegisterInterest, under runningHandlersLock.                         *)

\* Faulty variant: an interest is not looked for.
RegisteredNot == FALSE

\* Any of these names may be given to the goroutine that is started.
FreeTimers == {t \in Timers : timer[t].pc = "none"}

\* MqttIsInterestRegistered.
IsInterestRegistered == registered

MqttRegisterInterest ==
    \/ IsInterestRegistered /\ UNCHANGED <<runningHandlers, topics, subscribed, unheeded, timer>>
    \/ /\ ~IsInterestRegistered
       /\ RegisterTopic
       /\ runningHandlers' = Append(runningHandlers, Job)
       /\ FreeTimers # {}
       /\ timer' = [timer EXCEPT ![CHOOSE t \in FreeTimers : TRUE].pc = "start"]

-----------------------------------------------------------------------------
(* The timer: startSelfDestructTimeout.                                     *)

\* The event manager's lock is held by an Emit that is about to send.
EventLockFree == out.pc # "send"

\* A channel nobody refers to stands for the one make returns.
FreshChannels ==
    Channels \ ({channelOf} \cup {timer[t].channel : t \in Timers})

\* EventManager.Register: the job's channel, or a new one.
TimerStart(t) ==
    /\ timer[t].pc = "start"
    /\ EventLockFree
    /\ channelOf' = IF channelOf # None THEN channelOf ELSE CHOOSE c \in FreshChannels : TRUE
    /\ timer' = [timer EXCEPT ![t] = [pc |-> "wait", channel |-> channelOf']]
    /\ UNCHANGED <<runningHandlers, topics, broker, entries, deployed, closed, length,
                   out, executor, undeployer>>

\* An event restarts the time-out.  A closed channel always has one.
TimerEvent(t) ==
    /\ timer[t].pc = "wait"
    /\ length[timer[t].channel] > 0
    /\ length' = [length EXCEPT ![timer[t].channel] = @ - 1]
    /\ UNCHANGED <<runningHandlers, topics, broker, entries, deployed, channelOf, closed,
                   timer, out, executor, undeployer>>

\* Ten seconds without an event: unless the job is deployed here, the cluster
\* is told (cleanInterestTowardsJob) and the interest is dismantled.  No ten
\* seconds end between two consecutive steps of the proxy: a timer that
\* expires there might as well have expired before them.
TimerExpires(t) ==
    /\ timer[t].pc = "wait"
    /\ length[timer[t].channel] = 0
    /\ timer[t].channel \notin closed
    /\ out.pc # "add"
    /\ ~deployed
    /\ timer' = [timer EXCEPT ![t].pc = "topic"]
    /\ UNCHANGED <<runningHandlers, topics, broker, entries, deployed, channels,
                   out, executor, undeployer>>

TimerDeRegisterTopic(t) ==
    /\ timer[t].pc = "topic"
    /\ DeRegisterTopic
    /\ timer' = [timer EXCEPT ![t].pc = "unlist"]
    /\ UNCHANGED <<runningHandlers, connection, handler, entries, deployed, channels,
                   out, executor, undeployer>>

TimerUnlist(t) ==
    /\ timer[t].pc = "unlist"
    /\ runningHandlers' = RemoveElem(runningHandlers, Job)
    /\ timer' = [timer EXCEPT ![t].pc = "close"]
    /\ UNCHANGED <<topics, broker, entries, deployed, channels, out, executor, undeployer>>

\* Faulty variant: the closed channel stays in the map.
DeRegisterKeeping == closed' = closed \cup ({channelOf} \ {None}) /\ UNCHANGED channelOf

\* EventManager.DeRegister: the job's channel, whoever receives from it.
DeRegister == closed' = closed \cup ({channelOf} \ {None}) /\ channelOf' = None

TimerClose(t) ==
    /\ timer[t].pc = "close"
    /\ EventLockFree
    /\ DeRegister
    /\ timer' = [timer EXCEPT ![t].pc = "clear"]
    /\ UNCHANGED <<runningHandlers, topics, broker, entries, deployed, length, out,
                   executor, undeployer>>

\* RemoveServiceEntries; the goroutine ends, and with the last one that refers
\* to it the closed channel is gone.
TimerClear(t) ==
    /\ timer[t].pc = "clear"
    /\ entries' = FALSE
    /\ timer' = [timer EXCEPT ![t] = NoTimer]
    /\ closed' = closed \cap {timer[s].channel : s \in Timers \ {t}}
    /\ length' = [c \in Channels |-> IF c \in closed \ closed' THEN 0 ELSE length[c]]
    /\ UNCHANGED <<runningHandlers, topics, broker, deployed, channelOf, out, executor, undeployer>>

TimerStep(t) ==
    \/ TimerStart(t) \/ TimerEvent(t) \/ TimerExpires(t)
    \/ TimerDeRegisterTopic(t) \/ TimerUnlist(t) \/ TimerClose(t) \/ TimerClear(t)

-----------------------------------------------------------------------------
(* A packet to the service: GetTableEntryByServiceIP.                       *)

OutGoto(pc) == out' = [out EXCEPT !.pc = pc]

Packet ==
    /\ out.pc = "idle"
    /\ OutGoto(IF entries THEN "emit" ELSE "query")
    /\ UNCHANGED <<runningHandlers, topics, broker, entries, deployed, channels, timer,
                   executor, undeployer>>

HasRoom(c) == length[c] < Cap

\* Emit: the read lock, and the check that the channel has room ...
Emit ==
    /\ out.pc = "emit"
    /\ out' = IF channelOf # None /\ HasRoom(channelOf)
                 THEN [pc |-> "send", channel |-> channelOf]
                 ELSE NotSending
    /\ UNCHANGED <<runningHandlers, topics, broker, entries, deployed, channels, timer,
                   executor, undeployer>>

\* ... and the send, which blocks on a full channel.
EmitSend ==
    /\ out.pc = "send"
    /\ length[out.channel] < Cap
    /\ length' = [length EXCEPT ![out.channel] = @ + 1]
    /\ out' = NotSending
    /\ UNCHANGED <<runningHandlers, topics, broker, entries, deployed, channelOf, closed, timer,
                   executor, undeployer>>

\* The table query is answered with instances, or not (in time).
QueryEnds ==
    /\ out.pc = "query"
    /\ \E pc \in {"register", "idle"} : OutGoto(pc)
    /\ UNCHANGED <<runningHandlers, topics, broker, entries, deployed, channels, timer,
                   executor, undeployer>>

OutRegister ==
    /\ out.pc = "register"
    /\ MqttRegisterInterest
    /\ OutGoto("add")
    /\ UNCHANGED <<connection, handler, entries, deployed, channels, executor, undeployer>>

\* AddTableQueryEntry.  The interest in the address, registered next, has its
\* own topic and timer.
OutAdd ==
    /\ out.pc = "add"
    /\ entries' = TRUE
    /\ OutGoto("idle")
    /\ UNCHANGED <<runningHandlers, topics, broker, deployed, channels, timer, executor, undeployer>>

OutStep == Emit \/ EmitSend \/ QueryEnds \/ OutRegister \/ OutAdd

-----------------------------------------------------------------------------
(* Deployment and undeployment of an instance.                              *)

\* A deployment has ended, well or with an error.
Deploy ==
    /\ executor = "idle"
    /\ deployed' \in {deployed, TRUE}
    /\ executor' = "check"
    /\ UNCHANGED <<runningHandlers, topics, broker, entries, channels, timer, out, undeployer>>

\* updateInternalProxyDataStructures.
ExecutorCheck ==
    /\ executor = "check"
    /\ executor' = IF IsInterestRegistered THEN "idle" ELSE "refresh"
    /\ UNCHANGED <<runningHandlers, topics, broker, entries, deployed, channels, timer, out, undeployer>>

\* RefreshServiceTable, whose query may fail.
ExecutorRefresh ==
    /\ executor = "refresh"
    /\ entries' \in {entries, TRUE}
    /\ executor' = "register"
    /\ UNCHANGED <<runningHandlers, topics, broker, deployed, channels, timer, out, undeployer>>

ExecutorRegister ==
    /\ executor = "register"
    /\ MqttRegisterInterest
    /\ executor' = "idle"
    /\ UNCHANGED <<connection, handler, entries, deployed, channels, out, undeployer>>

ExecutorStep == ExecutorCheck \/ ExecutorRefresh \/ ExecutorRegister

\* DetachContainer: the instance's own entry and its deployment, neither of
\* which need be the last one of the job.
Undeploy ==
    /\ undeployer = "idle"
    /\ deployed
    /\ deployed' \in BOOLEAN
    /\ entries' \in {entries, FALSE}
    /\ undeployer' = "check"
    /\ UNCHANGED <<runningHandlers, topics, broker, channels, timer, out, executor>>

UndeployCheck ==
    /\ undeployer = "check"
    /\ undeployer' = IF IsInterestRegistered THEN "idle" ELSE "clear"
    /\ UNCHANGED <<runningHandlers, topics, broker, entries, deployed, channels, timer, out, executor>>

UndeployClear ==
    /\ undeployer = "clear"
    /\ entries' = FALSE
    /\ undeployer' = "idle"
    /\ UNCHANGED <<runningHandlers, topics, broker, deployed, channels, timer, out, executor>>

UndeployStep == UndeployCheck \/ UndeployClear

-----------------------------------------------------------------------------
Next ==
    \/ Packet \/ OutStep
    \/ Deploy \/ ExecutorStep
    \/ Undeploy \/ UndeployStep
    \/ BrokerStep
    \/ \E t \in Timers : TimerStep(t)

Spec == Init /\ [][Next]_vars

\* The proxy's goroutine and the timers are scheduled fairly and timers expire.
\* A timer that wants the event manager's lock gets it although packets come
\* and go: a waiting Lock of a sync.RWMutex keeps new readers out, hence the
\* strong fairness.  Packets, deployments and undeployments need not come, nor
\* the connection back.
TimerSpec ==
    /\ Spec
    /\ WF_vars(OutStep)
    /\ \A t \in Timers : SF_vars(TimerStep(t))

\* All goroutines are.
FairSpec == TimerSpec /\ WF_vars(ExecutorStep) /\ WF_vars(UndeployStep)

-----------------------------------------------------------------------------
(* Properties.                                                              *)

\* The type invariant: the handler list, the topics and the event channels are
\* what the registrations, timers and callbacks of the node store in them.
TypeOK ==
    /\ runningHandlers \in Seq(Others \cup {Job})
    /\ {topics, subscribed, unheeded} \subseteq BOOLEAN
    /\ connection \in {"up", "lost"}
    /\ handler \in [pc : {"idle", "iterating", "subscribing"}, found : BOOLEAN]
    /\ entries \in BOOLEAN /\ deployed \in BOOLEAN
    /\ channelOf \in Channels \cup {None}
    /\ closed \subseteq Channels
    /\ length \in [Channels -> 0 .. Cap]
    /\ timer \in [Timers ->
          [pc : {"none", "start", "wait", "topic", "unlist", "close", "clear"},
           channel : Channels \cup {None}]]
    /\ out \in [pc : {"idle", "emit", "send", "query", "register", "add"},
                channel : Channels \cup {None}]
    /\ executor \in {"idle", "check", "refresh", "register"}
    /\ undeployer \in {"idle", "check", "clear"}

\* The timers in charge of the interest: they have not unlisted it yet.
InCharge == {t \in Timers : timer[t].pc \in {"start", "wait", "topic", "unlist"}}

\* A registered interest has exactly one timer in charge of it, and without
\* an interest there is none, however registrations and expiries interleave;
\* those in other jobs are left alone.
OneTimerPerInterest ==
    /\ registered => \E t \in InCharge : InCharge = {t}
    /\ ~registered => InCharge = {}
    /\ \A j \in Others : Exists(runningHandlers, j)

\* While the timer in charge has not begun to dismantle the interest, the
\* updates of the job arrive, however often the connection was lost, whenever
\* the connect handler looked at the topics: with a connection whose handler
\* has ended, the broker has the subscription, unless a Subscribe failed on
\* this very connection - which the next one mends.
InterestIsSubscribed ==
    (\E t \in Timers : timer[t].pc \in {"start", "wait"}) =>
        topics /\ (connection = "up" /\ handler.pc = "idle" => subscribed \/ unheeded)

\* Other goroutines change the topics only with the lock held, and the connect
\* handler without it.
TopicsAreLocked == ~(handler.pc = "iterating" /\ WritesTopics)

\* Emit never sends on a closed channel, which would panic, and never on a
\* full one, which would block the proxy with the event manager's lock held
\* ("check channel buffer capacity to prevent blocking").
SendIsSafe ==
    out.pc = "send" => out.channel \notin closed /\ length[out.channel] < Cap

\* An expired timer finishes: no wait for the event manager's lock, which
\* its last steps need, is for ever.
DismantlingEnds ==
    \A t \in Timers : timer[t].pc = "topic" ~> timer[t].pc = "none"

\* No goroutine is in the middle of something that changes what is cached.
Quiet ==
    /\ out.pc \in {"idle", "emit", "send"} /\ executor = "idle" /\ undeployer = "idle"
    /\ \A t \in Timers : timer[t].pc \in {"none", "start", "wait"}

\* The docstring of GetTableEntryByServiceIP, "If the entry is not present a
\* TableQuery is performed and the interest registered": entries in the table
\* are covered by an interest.
RoutesAreCovered == Quiet /\ entries => registered

\* The comment in updateInternalProxyDataStructures, "Update internal table
\* entry if an interest has not been set already. Otherwise, do nothing, the
\* net will autonomously update": a deployed job has an interest.
DeployedIsCovered == Quiet /\ deployed => registered

\* The comment of MqttRegisterInterest, "If the route is not used for more
\* than 5 minutes the interest is removed".
UnusedInterestIsRemoved ==
    <>[](out.pc = "idle" /\ ~deployed) => []<>(~registered)

=============================================================================
