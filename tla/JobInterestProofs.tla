-------------------------- MODULE JobInterestProofs --------------------------
(***************************************************************************)
(* Proofs about JobInterest, for any number of timers, channels and other  *)
(* jobs and every capacity of a channel: one timer is in charge of an      *)
(* interest, the broker has its subscription until the timer expires, and  *)
(* Emit never sends on a closed or a full channel.                         *)
(*                                                                         *)
(* The first is an argument about the slice runningHandlers: every job is  *)
(* in it once, so that removeLocked takes out the only entry of the job.   *)
(* The second relates the map of topics to what the connect handler has    *)
(* found in it.  The third follows the event channels: one that is closed  *)
(* is never the job's again, for as long as a timer refers to it.          *)
(***************************************************************************)
EXTENDS JobInterest, FiniteSetTheorems, SequenceTheorems, TLAPS

Jobs == Others \cup {Job}

\* Every other job is in the slice, and no job is in it twice.
OnceEach(s) ==
    /\ \A i, k \in DOMAIN s : s[i] = s[k] => i = k
    /\ \A j \in Others : \E i \in DOMAIN s : s[i] = j

Listed(s, j) == \E i \in DOMAIN s : s[i] = j

\* The timers that have begun, and those that have not expired.
Begun == {"wait", "topic", "unlist", "close", "clear"}
Lives == {"start", "wait"}

\* One timer at most is in charge, and one is if the job is in the slice.
ChargeOK ==
    /\ \A t, u \in InCharge : t = u
    /\ Listed(runningHandlers, Job) <=> InCharge # {}

\* The topic of an interest whose timer lives is in the map; the broker has it
\* or the connect handler will subscribe to it, if there is a connection.
TopicOK ==
    (\E t \in Timers : timer[t].pc \in Lives) =>
        /\ topics
        /\ connection = "up" => \/ subscribed \/ unheeded
                               \/ (handler.pc # "idle" /\ handler.found)

\* A timer that has begun has a channel.  The job's channel is open and that
\* of a timer that has not closed it; closed ones are those of timers.
ChannelsOK ==
    /\ \A t \in Timers : timer[t].pc \in Begun <=> timer[t].channel # None
    /\ channelOf # None =>
        /\ channelOf \notin closed
        /\ \E t \in Timers : timer[t].channel = channelOf /\ timer[t].pc # "clear"
    /\ \A c \in closed : \E t \in Timers : timer[t].channel = c

\* Emit holds the lock while it sends, so that nobody closes the channel.
EmitOK ==
    out.pc = "send" =>
        out.channel = channelOf /\ channelOf # None /\ length[channelOf] < Cap

IInv == TypeOK /\ OnceEach(runningHandlers) /\ ChargeOK /\ TopicOK /\ ChannelsOK /\ EmitOK

-----------------------------------------------------------------------------
(* The slice.                                                               *)

\* A job that is in the slice once is found where it is.
LEMMA FindOnce ==
    ASSUME NEW s \in Seq(Jobs), OnceEach(s), NEW i \in DOMAIN s
    PROVE  FindLocked(s, s[i]) = i
<1>1. /\ \E k \in DOMAIN s : s[k] = s[i]
      /\ \A k \in DOMAIN s : s[k] = s[i] => k = i
  BY DEF OnceEach
<1>2. i \in Nat /\ DOMAIN s = 1 .. Len(s) /\ Len(s) \in Nat
  OBVIOUS
<1>3. \A k \in 1 .. i - 1 : s[k] # s[i]
  BY <1>1, <1>2
<1>4. \A k \in DOMAIN s :
         (s[k] = s[i] /\ \A m \in 1 .. k - 1 : s[m] # s[i]) <=> k = i
  BY <1>1, <1>3
<1>. QED BY <1>1, <1>4 DEF FindLocked

LEMMA ExistsIsListed ==
    ASSUME NEW s \in Seq(Jobs), OnceEach(s), NEW j
    PROVE  Exists(s, j) <=> Listed(s, j)
<1>1. CASE Listed(s, j)
  <2>1. PICK i \in DOMAIN s : s[i] = j
    BY <1>1 DEF Listed
  <2>2. FindLocked(s, j) = i /\ i > 0
    BY <2>1, FindOnce
  <2>. QED BY <1>1, <2>2 DEF Exists
<1>2. CASE ~Listed(s, j)
  BY <1>2 DEF Listed, Exists, FindLocked
<1>. QED BY <1>1, <1>2

LEMMA AppendKeepsOnce ==
    ASSUME NEW s \in Seq(Jobs), OnceEach(s), ~Listed(s, Job)
    PROVE  /\ Append(s, Job) \in Seq(Jobs)
           /\ OnceEach(Append(s, Job)) /\ Listed(Append(s, Job), Job)
<1>1. /\ Append(s, Job) \in Seq(Jobs) /\ Len(Append(s, Job)) = Len(s) + 1
      /\ \A i \in 1 .. Len(s) : Append(s, Job)[i] = s[i]
      /\ Append(s, Job)[Len(s) + 1] = Job
  BY AppendProperties DEF Jobs
<1>2. /\ Len(s) \in Nat /\ DOMAIN s = 1 .. Len(s)
      /\ DOMAIN Append(s, Job) = 1 .. Len(s) + 1
  BY <1>1
<1>3. ASSUME NEW i \in DOMAIN Append(s, Job), NEW k \in DOMAIN Append(s, Job),
             Append(s, Job)[i] = Append(s, Job)[k]
      PROVE  i = k
  BY <1>1, <1>2, <1>3 DEF OnceEach, Listed
<1>4. \A j \in Others : \E i \in DOMAIN Append(s, Job) : Append(s, Job)[i] = j
  <2> TAKE j \in Others
  <2>1. PICK i \in DOMAIN s : s[i] = j
    BY DEF OnceEach
  <2>. QED BY <2>1, <1>1, <1>2
<1>. QED BY <1>1, <1>2, <1>3, <1>4 DEF OnceEach, Listed

\* removeLocked puts the last element in the place of the job.
LEMMA RemoveKeepsOnce ==
    ASSUME NEW s \in Seq(Jobs), OnceEach(s), Listed(s, Job)
    PROVE  /\ RemoveElem(s, Job) \in Seq(Jobs)
           /\ OnceEach(RemoveElem(s, Job)) /\ ~Listed(RemoveElem(s, Job), Job)
<1>1. PICK p \in DOMAIN s : s[p] = Job
  BY DEF Listed
<1>2. Len(s) \in Nat /\ Len(s) \in DOMAIN s /\ DOMAIN s = 1 .. Len(s) /\ p \in 1 .. Len(s)
      /\ \A i \in 1 .. Len(s) : s[i] \in Jobs
  BY <1>1
<1> DEFINE filled == [s EXCEPT ![p] = s[Len(s)]]
           rest == SubSeq(filled, 1, Len(s) - 1)
<1>3. RemoveElem(s, Job) = rest
  BY <1>1, FindOnce DEF RemoveElem, RemoveLocked
<1>4. \A i \in 1 .. Len(s) : filled[i] = IF i = p THEN s[Len(s)] ELSE s[i]
  BY <1>2
<1>5. \A i \in 1 .. Len(s) - 1 : filled[i] \in Jobs
  BY <1>2, <1>4
<1> HIDE DEF filled
<1>6. /\ rest \in Seq(Jobs) /\ Len(rest) = Len(s) - 1
      /\ \A i \in 1 .. Len(s) - 1 : rest[i] = filled[i]
  <2>1. /\ rest \in Seq(Jobs)
        /\ Len(rest) = IF 1 <= Len(s) - 1 THEN Len(s) - 1 - 1 + 1 ELSE 0
        /\ \A i \in 1 .. Len(s) - 1 - 1 + 1 : rest[i] = filled[1 + i - 1]
    BY <1>2, <1>5, SubSeqProperties
  <2>. QED BY <1>2, <2>1
<1> HIDE DEF rest
<1>7. DOMAIN rest = 1 .. Len(s) - 1
  BY <1>6
<1>8. \A i \in 1 .. Len(s) - 1 : rest[i] = IF i = p THEN s[Len(s)] ELSE s[i]
  BY <1>2, <1>4, <1>6
<1>9. ASSUME NEW i \in DOMAIN rest, NEW k \in DOMAIN rest, rest[i] = rest[k]
      PROVE  i = k
  BY <1>2, <1>7, <1>8, <1>9 DEF OnceEach
<1>10. ~Listed(rest, Job)
  <2> SUFFICES ASSUME NEW i \in DOMAIN rest, rest[i] = Job PROVE FALSE
    BY DEF Listed
  <2>. QED BY <1>1, <1>2, <1>7, <1>8 DEF OnceEach
<1>11. ASSUME NEW j \in Others PROVE \E i \in DOMAIN rest : rest[i] = j
  <2>1. PICK i \in DOMAIN s : s[i] = j
    BY DEF OnceEach
  <2>2. i # p
    BY <1>1, <2>1, OthersAssumption
  <2>3. CASE i = Len(s)
    <3>1. p \in DOMAIN rest /\ rest[p] = j
      BY <1>2, <1>7, <1>8, <2>1, <2>2, <2>3
    <3>. QED BY <3>1
  <2>4. CASE i # Len(s)
    <3>1. i \in DOMAIN rest /\ rest[i] = j
      BY <1>2, <1>7, <1>8, <2>1, <2>2, <2>4
    <3>. QED BY <3>1
  <2>. QED BY <2>3, <2>4
<1>. QED BY <1>3, <1>6, <1>9, <1>10, <1>11 DEF OnceEach

\* After a start the slice has the other jobs.
LEMMA StartedOnce ==
    ASSUME NEW s \in OtherInterests
    PROVE  s \in Seq(Jobs) /\ OnceEach(s) /\ ~Listed(s, Job)
<1>1. /\ Cardinality(Others) \in Nat
      /\ s \in [1 .. Cardinality(Others) -> Others]
      /\ \A j \in Others : \E i \in DOMAIN s : \A k \in DOMAIN s : s[k] = j <=> k = i
  BY OthersAssumption, FS_CardinalityType DEF OtherInterests
<1>2. s \in Seq(Jobs)
  BY <1>1 DEF Jobs
<1>3. OnceEach(s)
  BY <1>1 DEF OnceEach
<1>4. ~Listed(s, Job)
  BY <1>1, OthersAssumption DEF Listed
<1>. QED BY <1>2, <1>3, <1>4

-----------------------------------------------------------------------------
(* The steps.                                                               *)

TimerStates == [pc : {"none", "start", "wait", "topic", "unlist", "close", "clear"},
                channel : Channels \cup {None}]

\* A timer's step and what it leaves of the others.
LEMMA TimerMoves ==
    ASSUME TypeOK, NEW t \in Timers, NEW state \in TimerStates, timer' = [timer EXCEPT ![t] = state]
    PROVE  /\ timer' \in [Timers -> TimerStates] /\ timer'[t] = state
           /\ \A u \in Timers \ {t} : timer'[u] = timer[u]
BY DEF TypeOK, TimerStates

\* A timer that begins has no channel yet, so the others refer to too few of
\* them to leave none.
LEMMA ChannelIsLeft ==
    ASSUME TypeOK, NEW t \in Timers, timer[t].channel = None, channelOf = None
    PROVE  FreshChannels # {}
<1> SUFFICES ASSUME FreshChannels = {} PROVE FALSE
  OBVIOUS
<1>1. \A c \in Channels : \E u \in Timers \ {t} : timer[u].channel = c
  BY NoneAssumption DEF FreshChannels
<1> DEFINE user == [c \in Channels |-> CHOOSE u \in Timers \ {t} : timer[u].channel = c]
<1>2. /\ user \in [Channels -> Timers \ {t}]
      /\ \A c \in Channels : timer[user[c]].channel = c
  BY <1>1
<1> HIDE DEF user
<1>3. /\ IsFiniteSet(Timers \ {t}) /\ Cardinality(Timers \ {t}) = Cardinality(Timers) - 1
      /\ Cardinality(Timers) \in Nat /\ Cardinality(Channels) \in Nat
  BY ChannelsAssumption, FS_RemoveElement, FS_CardinalityType
<1>4. Cardinality(Timers \ {t}) < Cardinality(Channels)
  BY <1>3, ChannelsAssumption
<1>5. PICK c, d \in Channels : c # d /\ user[c] = user[d]
  BY <1>2, <1>3, <1>4, ChannelsAssumption, FS_PigeonHole
<1>. QED BY <1>2, <1>5

\* Steps of the proxy, the executor and the undeployer that leave interest and
\* channels alone.
LEMMA TableSteps ==
    ASSUME IInv, \/ Packet \/ Emit \/ QueryEnds \/ OutAdd
                 \/ Deploy \/ ExecutorCheck \/ ExecutorRefresh
                 \/ Undeploy \/ UndeployCheck \/ UndeployClear
    PROVE  IInv'
<1>1. UNCHANGED <<runningHandlers, topics, broker, channels, timer>>
  BY DEF Packet, Emit, QueryEnds, OutAdd, Deploy, ExecutorCheck, ExecutorRefresh,
         Undeploy, UndeployCheck, UndeployClear
<1>2. TypeOK'
  <2>1. /\ out \in [pc : {"idle", "emit", "send", "query", "register", "add"},
                    channel : Channels \cup {None}]
        /\ channelOf \in Channels \cup {None} /\ entries \in BOOLEAN /\ deployed \in BOOLEAN
        /\ executor \in {"idle", "check", "refresh", "register"}
        /\ undeployer \in {"idle", "check", "clear"}
    BY DEF IInv, TypeOK
  <2>2. /\ out' \in [pc : {"idle", "emit", "send", "query", "register", "add"},
                     channel : Channels \cup {None}]
        /\ entries' \in BOOLEAN /\ deployed' \in BOOLEAN
        /\ executor' \in {"idle", "check", "refresh", "register"}
        /\ undeployer' \in {"idle", "check", "clear"}
    <3>1. CASE Packet \/ Emit \/ QueryEnds \/ OutAdd
      <4>1. CASE Packet
        BY <2>1, <4>1 DEF Packet, OutGoto
      <4>2. CASE Emit
        BY <2>1, <4>2 DEF Emit, NotSending
      <4>3. CASE QueryEnds
        BY <2>1, <4>3 DEF QueryEnds, OutGoto
      <4>4. CASE OutAdd
        BY <2>1, <4>4 DEF OutAdd, OutGoto
      <4>. QED BY <3>1, <4>1, <4>2, <4>3, <4>4
    <3>2. CASE Deploy \/ ExecutorCheck \/ ExecutorRefresh
      BY <2>1, <3>2 DEF Deploy, ExecutorCheck, ExecutorRefresh
    <3>3. CASE Undeploy \/ UndeployCheck \/ UndeployClear
      BY <2>1, <3>3 DEF Undeploy, UndeployCheck, UndeployClear
    <3>. QED BY <3>1, <3>2, <3>3
  <2>. QED BY <1>1, <2>2 DEF IInv, TypeOK, broker, channels
<1>3. OnceEach(runningHandlers)' /\ ChargeOK' /\ TopicOK' /\ ChannelsOK'
  BY <1>1 DEF IInv, ChargeOK, TopicOK, ChannelsOK, InCharge, channels, broker
<1>4. EmitOK'
  <2>1. CASE Emit
    BY <1>1, <2>1 DEF Emit, EmitOK, HasRoom, NotSending, channels
  <2>2. CASE UNCHANGED out
    BY <1>1, <2>2 DEF IInv, EmitOK, channels
  <2>3. CASE out'.pc # "send"
    BY <2>3 DEF EmitOK
  <2>4. Emit \/ UNCHANGED out \/ out'.pc # "send"
    <3>1. out \in [pc : {"idle", "emit", "send", "query", "register", "add"},
                  channel : Channels \cup {None}]
      BY DEF IInv, TypeOK
    <3>. QED BY <3>1 DEF Packet, QueryEnds, OutAdd, OutGoto, Deploy, ExecutorCheck, ExecutorRefresh,
                         Undeploy, UndeployCheck, UndeployClear
  <2>. QED BY <2>1, <2>2, <2>3, <2>4
<1>. QED BY <1>2, <1>3, <1>4 DEF IInv

\* The send of Emit.
LEMMA EmitSendStep ==
    ASSUME IInv, EmitSend
    PROVE  IInv'
<1>1. /\ out.pc = "send" /\ out.channel = channelOf /\ channelOf \in Channels
      /\ length[channelOf] \in 0 .. Cap /\ length[channelOf] < Cap
      /\ length' = [length EXCEPT ![channelOf] = length[channelOf] + 1] /\ out' = NotSending
      /\ UNCHANGED <<runningHandlers, topics, broker, entries, deployed, channelOf, closed, timer,
                     executor, undeployer>>
  BY DEF IInv, EmitOK, TypeOK, EmitSend
<1>2. length' \in [Channels -> 0 .. Cap] /\ out'.pc = "idle"
  <2>1. length[channelOf] + 1 \in 0 .. Cap
    BY <1>1, CapAssumption
  <2>. QED BY <1>1, <2>1 DEF IInv, TypeOK, NotSending
<1>3. TypeOK'
  BY <1>1, <1>2 DEF IInv, TypeOK, NotSending, broker
<1>4. OnceEach(runningHandlers)' /\ ChargeOK' /\ TopicOK' /\ ChannelsOK' /\ EmitOK'
  BY <1>1, <1>2 DEF IInv, ChargeOK, TopicOK, ChannelsOK, EmitOK, InCharge, broker
<1>. QED BY <1>3, <1>4 DEF IInv

\* The connection and its handler: an interest that lives stays subscribed, or
\* will be when the handler ends.
LEMMA BrokerSteps ==
    ASSUME IInv, ConnectionLost \/ Reconnect \/ IterationEnds \/ HandlerEnds
    PROVE  IInv'
<1>1. /\ UNCHANGED <<runningHandlers, topics, entries, deployed, channels, timer, out,
                      executor, undeployer>>
  BY DEF ConnectionLost, Reconnect, IterationEnds, HandlerEnds
<1>2. /\ topics \in BOOLEAN /\ subscribed \in BOOLEAN /\ unheeded \in BOOLEAN
      /\ connection \in {"up", "lost"}
      /\ handler \in [pc : {"idle", "iterating", "subscribing"}, found : BOOLEAN]
  BY DEF IInv, TypeOK
<1>3. TypeOK'
  <2>1. /\ subscribed' \in BOOLEAN /\ unheeded' \in BOOLEAN /\ connection' \in {"up", "lost"}
        /\ handler' \in [pc : {"idle", "iterating", "subscribing"}, found : BOOLEAN]
    <3>1. CASE ConnectionLost
      BY <1>2, <3>1 DEF ConnectionLost
    <3>4. CASE Reconnect
      BY <1>2, <3>4 DEF Reconnect
    <3>2. CASE IterationEnds
      BY <1>2, <3>2 DEF IterationEnds
    <3>3. CASE HandlerEnds
      BY <1>2, <3>3 DEF HandlerEnds, NoHandler
    <3>. QED BY <3>1, <3>2, <3>3, <3>4
  <2>. QED BY <1>1, <1>2, <2>1 DEF IInv, TypeOK, channels
<1>4. OnceEach(runningHandlers)' /\ ChargeOK' /\ ChannelsOK' /\ EmitOK'
  BY <1>1 DEF IInv, ChargeOK, ChannelsOK, EmitOK, InCharge, channels
<1>5. TopicOK'
  <2> SUFFICES ASSUME \E t \in Timers : timer'[t].pc \in Lives
               PROVE  /\ topics'
                      /\ connection' = "up" => \/ subscribed' \/ unheeded'
                                             \/ (handler'.pc # "idle" /\ handler'.found)
    BY DEF TopicOK
  <2>1. /\ topics
        /\ connection = "up" => \/ subscribed \/ unheeded
                                \/ (handler.pc # "idle" /\ handler.found)
    BY <1>1 DEF IInv, TopicOK
  <2>2. CASE ConnectionLost
    BY <2>1, <2>2 DEF ConnectionLost
  <2>3. CASE Reconnect
    BY <2>1, <2>3 DEF Reconnect
  <2>4. CASE IterationEnds
    <3>1. PICK found \in {handler.found, topics} :
            handler' = [pc |-> "subscribing", found |-> found] /\ 
              UNCHANGED <<topics, connection, subscribed, unheeded>>
      BY <2>4 DEF IterationEnds
    <3>2. topics = TRUE /\ (handler.found => handler.found = TRUE)
      BY <1>2, <2>1
    <3>3. handler'.pc = "subscribing" /\ handler'.found = found
      BY <3>1
    <3>4. handler.found => found
      BY <3>1, <3>2
    <3>5. ~handler.found \/ handler.pc = "idle" => (connection = "up" => subscribed \/ unheeded)
      BY <2>1
    <3>. QED BY <2>1, <2>4, <3>1, <3>3, <3>4 DEF IterationEnds
  <2>5. CASE HandlerEnds
    BY <2>1, <2>5 DEF HandlerEnds, SubscribeMultiple
  <2>. QED BY <2>2, <2>3, <2>4, <2>5
<1>. QED BY <1>3, <1>4, <1>5 DEF IInv

\* All starts anew.
LEMMA ConcurrentMapWriteStep ==
    ASSUME IInv, ConcurrentMapWrite
    PROVE  IInv'
<1>1. /\ runningHandlers' \in Seq(Jobs) /\ OnceEach(runningHandlers')
      /\ ~Listed(runningHandlers', Job)
  BY StartedOnce DEF ConcurrentMapWrite
<1>2. /\ channelOf' = None /\ closed' = {} /\ out'.pc = "idle"
      /\ timer' = [t \in Timers |-> NoTimer]
  BY DEF ConcurrentMapWrite, NotSending
<1>3. TypeOK'
  <2>1. /\ length' \in [Channels -> 0 .. Cap] /\ closed' \subseteq Channels
        /\ timer' \in [Timers -> TimerStates]
    BY <1>2, CapAssumption DEF ConcurrentMapWrite, NoTimer, TimerStates
  <2>2. /\ topics' = FALSE /\ connection' = "up" /\ subscribed' = FALSE /\ unheeded' = FALSE
        /\ handler' = NoHandler
        /\ entries' = FALSE /\ deployed' = FALSE /\ out' = NotSending
        /\ executor' = "idle" /\ undeployer' = "idle"
    BY DEF ConcurrentMapWrite
  <2>. QED BY <1>1, <1>2, <2>1, <2>2 DEF TypeOK, Jobs, NoHandler, NotSending, TimerStates
<1>4. ChargeOK' /\ TopicOK' /\ ChannelsOK' /\ EmitOK'
  BY <1>1, <1>2 DEF ChargeOK, TopicOK, ChannelsOK, EmitOK, InCharge, NoTimer, Lives, Begun
<1>. QED BY <1>1, <1>3, <1>4 DEF IInv

\* MqttRegisterInterest, from the proxy or the executor: it starts a timer only
\* when none is in charge.
LEMMA RegisterSteps ==
    ASSUME IInv, OutRegister \/ ExecutorRegister
    PROVE  IInv'
<1>1. /\ MqttRegisterInterest /\ UNCHANGED <<connection, handler, entries, deployed, channels, undeployer>>
      /\ out' \in [pc : {"idle", "emit", "send", "query", "register", "add"},
                   channel : Channels \cup {None}]
      /\ out'.pc = "send" => out' = out
      /\ executor' \in {"idle", "check", "refresh", "register"}
  BY DEF IInv, TypeOK, OutRegister, ExecutorRegister, OutGoto
<1>2. EmitOK'
  BY <1>1 DEF IInv, EmitOK, channels
<1>3. CASE IsInterestRegistered
  <2>1. UNCHANGED <<runningHandlers, topics, subscribed, unheeded, timer>>
    BY <1>1, <1>3 DEF MqttRegisterInterest
  <2>2. TypeOK'
    BY <1>1, <2>1 DEF IInv, TypeOK, channels
  <2>3. OnceEach(runningHandlers)' /\ ChargeOK' /\ TopicOK' /\ ChannelsOK'
    BY <1>1, <2>1 DEF IInv, ChargeOK, TopicOK, ChannelsOK, InCharge, channels
  <2>. QED BY <1>2, <2>2, <2>3 DEF IInv
<1>4. CASE ~IsInterestRegistered
  <2>1. /\ TypeOK /\ runningHandlers \in Seq(Jobs) /\ OnceEach(runningHandlers)
        /\ timer \in [Timers -> TimerStates]
    BY DEF IInv, TypeOK, Jobs, TimerStates
  <2>2. ~Listed(runningHandlers, Job) /\ InCharge = {}
    BY <1>4, <2>1, ExistsIsListed DEF IsInterestRegistered, registered, IInv, ChargeOK
  <2>3. /\ runningHandlers' = Append(runningHandlers, Job) /\ FreeTimers # {}
        /\ topics' = TRUE /\ subscribed' \in BOOLEAN /\ unheeded' \in BOOLEAN
        /\ connection = "up" => subscribed' \/ unheeded'
        /\ timer' = [timer EXCEPT ![CHOOSE t \in FreeTimers : TRUE].pc = "start"]
    BY <1>1, <1>4, <2>1 DEF MqttRegisterInterest, RegisterTopic, TypeOK
  <2>4. /\ runningHandlers' \in Seq(Jobs) /\ OnceEach(runningHandlers')
        /\ Listed(runningHandlers', Job)
    BY <2>1, <2>2, <2>3, AppendKeepsOnce
  <2>5. PICK t \in Timers : timer[t].pc = "none" /\ timer' = [timer EXCEPT ![t].pc = "start"]
    BY <2>3 DEF FreeTimers
  <2>6. /\ timer' = [timer EXCEPT ![t] = [pc |-> "start", channel |-> None]]
        /\ [pc |-> "start", channel |-> None] \in TimerStates
    <3>1. timer[t].channel = None
      BY <2>5 DEF IInv, ChannelsOK, Begun
    <3>2. [timer[t] EXCEPT !.pc = "start"] = [pc |-> "start", channel |-> None]
      BY <2>1, <3>1 DEF TimerStates
    <3>. QED BY <2>5, <3>2 DEF TimerStates
  <2>7. /\ timer' \in [Timers -> TimerStates] /\ timer'[t] = [pc |-> "start", channel |-> None]
        /\ \A u \in Timers \ {t} : timer'[u] = timer[u]
    BY <2>1, <2>6, TimerMoves
  <2>8. TypeOK'
    BY <1>1, <2>1, <2>3, <2>4, <2>7 DEF TypeOK, TimerStates, Jobs, channels
  <2>9. ChargeOK'
    <3>1. \A u \in InCharge' : u = t
      BY <2>2, <2>7 DEF InCharge
    <3>2. t \in InCharge'
      BY <2>7 DEF InCharge
    <3>. QED BY <2>4, <3>1, <3>2 DEF ChargeOK
  <2>10. TopicOK'
    BY <1>1, <2>3 DEF TopicOK
  <2>11. ChannelsOK'
    <3>1. /\ \A u \in Timers : timer'[u].channel = timer[u].channel
          /\ \A u \in Timers : timer'[u].pc \in Begun <=> timer[u].pc \in Begun
          /\ \A u \in Timers : timer'[u].pc = "clear" <=> timer[u].pc = "clear"
      <4>1. timer[t].pc \notin Begun /\ timer'[t].pc \notin Begun /\ timer[t].channel = None
            /\ timer[t].pc # "clear" /\ timer'[t].pc # "clear" /\ timer'[t].channel = None
        BY <2>5, <2>7 DEF IInv, ChannelsOK, Begun
      <4>. QED BY <2>7, <4>1
    <3>. QED BY <1>1, <3>1 DEF IInv, ChannelsOK, channels
  <2>. QED BY <1>2, <2>4, <2>8, <2>9, <2>10, <2>11 DEF IInv
<1>. QED BY <1>3, <1>4

-----------------------------------------------------------------------------
(* The steps of a timer.                                                    *)

\* Register of the event manager: the job's channel, or a new one.
LEMMA TimerStartStep ==
    ASSUME IInv, NEW t \in Timers, TimerStart(t)
    PROVE  IInv'
<1>1. /\ timer[t].pc = "start" /\ out.pc # "send"
      /\ channelOf' = IF channelOf # None THEN channelOf ELSE CHOOSE c \in FreshChannels : TRUE
      /\ timer' = [timer EXCEPT ![t] = [pc |-> "wait", channel |-> channelOf']]
      /\ UNCHANGED <<runningHandlers, topics, broker, entries, deployed, closed, length,
                     out, executor, undeployer>>
  BY DEF TimerStart, EventLockFree
<1>2. TypeOK /\ timer[t].channel = None
  BY <1>1 DEF IInv, ChannelsOK, Begun
<1>3. channelOf' \in Channels /\ channelOf' \notin closed
  <2>1. CASE channelOf # None
    BY <1>1, <2>1 DEF IInv, TypeOK, ChannelsOK
  <2>2. CASE channelOf = None
    <3>1. channelOf' \in FreshChannels
      BY <1>1, <1>2, <2>2, ChannelIsLeft
    <3>. QED BY <3>1 DEF FreshChannels, IInv, ChannelsOK
  <2>. QED BY <2>1, <2>2
<1>4. /\ [pc |-> "wait", channel |-> channelOf'] \in TimerStates
  BY <1>3 DEF TimerStates
<1>5. /\ timer' \in [Timers -> TimerStates]
      /\ timer'[t].pc = "wait" /\ timer'[t].channel = channelOf'
      /\ \A u \in Timers \ {t} : timer'[u] = timer[u]
  BY <1>1, <1>2, <1>4, TimerMoves
<1>6. TypeOK'
  BY <1>1, <1>2, <1>3, <1>5 DEF TypeOK, TimerStates, broker
<1>7. ChargeOK' /\ TopicOK' /\ EmitOK'
  <2>1. InCharge' = InCharge
    BY <1>1, <1>5 DEF InCharge
  <2>2. t \in Timers /\ timer[t].pc \in Lives
    BY <1>1 DEF Lives
  <2>. QED BY <1>1, <2>1, <2>2 DEF IInv, ChargeOK, TopicOK, EmitOK, broker
<1>8. ChannelsOK'
  <2>1. channelOf' # None
    BY <1>3, NoneAssumption
  <2>2. \A u \in Timers : timer'[u].pc \in Begun <=> timer'[u].channel # None
    BY <1>5, <2>1 DEF IInv, ChannelsOK, Begun
  <2>3. \A c \in closed' : \E u \in Timers : timer'[u].channel = c
    <3>1. \A c \in closed : \E u \in Timers \ {t} : timer[u].channel = c
      BY <1>2, NoneAssumption DEF IInv, TypeOK, ChannelsOK
    <3>. QED BY <1>1, <1>5, <3>1
  <2>4. channelOf' \notin closed' /\ timer'[t].channel = channelOf' /\ timer'[t].pc # "clear"
    BY <1>1, <1>3, <1>5
  <2>. QED BY <2>2, <2>3, <2>4 DEF ChannelsOK
<1>. QED BY <1>1, <1>6, <1>7, <1>8 DEF IInv

\* An event is received.
LEMMA TimerEventStep ==
    ASSUME IInv, NEW t \in Timers, TimerEvent(t)
    PROVE  IInv'
<1>1. /\ timer[t].channel \in Channels /\ length[timer[t].channel] \in 0 .. Cap
      /\ length[timer[t].channel] > 0
      /\ length' = [length EXCEPT ![timer[t].channel] = length[timer[t].channel] - 1]
      /\ UNCHANGED <<runningHandlers, topics, broker, entries, deployed, channelOf, closed,
                     timer, out, executor, undeployer>>
  BY DEF IInv, TypeOK, ChannelsOK, Begun, TimerEvent
<1>2. length[timer[t].channel] - 1 \in 0 .. Cap
  BY <1>1, CapAssumption
<1>3. /\ length' \in [Channels -> 0 .. Cap]
      /\ \A c \in Channels : length'[c] <= length[c]
  BY <1>1, <1>2, CapAssumption DEF IInv, TypeOK
<1>4. TypeOK'
  BY <1>1, <1>3 DEF IInv, TypeOK, broker
<1>5. EmitOK'
  <2>1. channelOf # None => channelOf \in Channels
    BY DEF IInv, TypeOK
  <2>. QED BY <1>1, <1>3, <2>1, CapAssumption DEF IInv, TypeOK, EmitOK
<1>6. OnceEach(runningHandlers)' /\ ChargeOK' /\ TopicOK' /\ ChannelsOK'
  BY <1>1 DEF IInv, ChargeOK, TopicOK, ChannelsOK, InCharge, broker
<1>. QED BY <1>4, <1>5, <1>6 DEF IInv

\* A timer that expires dismantles the interest, the channel excepted: it stays
\* in charge until it has taken the job out of the slice.
LEMMA DismantleSteps ==
    ASSUME IInv, NEW t \in Timers, TimerExpires(t) \/ TimerDeRegisterTopic(t) \/ TimerUnlist(t)
    PROVE  IInv'
<1> DEFINE next == IF timer[t].pc = "wait" THEN "topic" ELSE IF timer[t].pc = "topic" THEN "unlist" ELSE "close"
<1>1. /\ timer[t].pc \in {"wait", "topic", "unlist"} /\ timer' = [timer EXCEPT ![t].pc = next]
      /\ UNCHANGED <<connection, handler, entries, deployed, channels, out, executor, undeployer>>
      /\ topics' \in BOOLEAN /\ subscribed' \in BOOLEAN /\ unheeded' \in BOOLEAN
  BY DEF IInv, TypeOK, TimerExpires, TimerDeRegisterTopic, TimerUnlist, DeRegisterTopic, broker
<1>2. TypeOK /\ timer[t] \in TimerStates /\ runningHandlers \in Seq(Jobs) /\ OnceEach(runningHandlers)
  BY DEF IInv, TypeOK, TimerStates, Jobs
<1>3. /\ next \in {"topic", "unlist", "close"}
      /\ [timer[t] EXCEPT !.pc = next] \in TimerStates
      /\ [timer[t] EXCEPT !.pc = next].pc = next
      /\ [timer[t] EXCEPT !.pc = next].channel = timer[t].channel
  BY <1>1, <1>2 DEF TimerStates
<1>4. /\ timer' \in [Timers -> TimerStates]
      /\ timer'[t].pc = next /\ timer'[t].channel = timer[t].channel
      /\ \A u \in Timers \ {t} : timer'[u] = timer[u]
  BY <1>1, <1>2, <1>3, TimerMoves
<1>5. InCharge = {t} /\ Listed(runningHandlers, Job)
  <2>1. t \in InCharge
    BY <1>1 DEF InCharge
  <2>. QED BY <2>1 DEF IInv, ChargeOK, InCharge
<1>6. \A u \in Timers : timer'[u].pc \notin Lives
  <2>1. \A u \in Timers \ {t} : timer[u].pc \notin Lives
    BY <1>5 DEF InCharge, Lives
  <2>2. next \notin Lives
    BY DEF Lives
  <2>. QED BY <1>4, <2>1, <2>2
<1>7. TopicOK' /\ EmitOK'
  BY <1>1, <1>6 DEF IInv, TopicOK, EmitOK, channels
<1>8. ChannelsOK'
  <2>1. timer[t].pc \in Begun /\ next \in Begun /\ next # "clear"
    BY <1>1 DEF Begun
  <2>. QED BY <1>1, <1>4, <2>1 DEF IInv, ChannelsOK, channels
<1>9. /\ runningHandlers' \in Seq(Jobs) /\ OnceEach(runningHandlers') /\ ChargeOK'
  <2>1. CASE TimerUnlist(t)
    <3>1. /\ runningHandlers' = RemoveElem(runningHandlers, Job)
          /\ timer[t].pc = "unlist" /\ next = "close"
      BY <2>1 DEF TimerUnlist
    <3>2. /\ runningHandlers' \in Seq(Jobs) /\ OnceEach(runningHandlers')
          /\ ~Listed(runningHandlers', Job)
      BY <1>2, <1>5, <3>1, RemoveKeepsOnce
    <3>3. InCharge' = {}
      BY <1>4, <1>5, <3>1 DEF InCharge
    <3>. QED BY <3>2, <3>3 DEF ChargeOK
  <2>2. CASE TimerExpires(t) \/ TimerDeRegisterTopic(t)
    <3>1. runningHandlers' = runningHandlers /\ next \in {"topic", "unlist"}
      BY <2>2 DEF TimerExpires, TimerDeRegisterTopic
    <3>2. InCharge' = {t}
      BY <1>4, <1>5, <3>1 DEF InCharge
    <3>. QED BY <1>2, <1>5, <3>1, <3>2 DEF ChargeOK
  <2>. QED BY <2>1, <2>2
<1>10. TypeOK'
  BY <1>1, <1>2, <1>4, <1>9 DEF TypeOK, TimerStates, Jobs, channels
<1>. QED BY <1>7, <1>8, <1>9, <1>10 DEF IInv

\* DeRegister of the event manager closes the channel the job has now, which
\* another timer may receive from.
LEMMA TimerCloseStep ==
    ASSUME IInv, NEW t \in Timers, TimerClose(t)
    PROVE  IInv'
<1>1. /\ timer[t].pc = "close" /\ out.pc # "send"
      /\ closed' = closed \cup ({channelOf} \ {None}) /\ channelOf' = None
      /\ timer' = [timer EXCEPT ![t].pc = "clear"]
      /\ UNCHANGED <<runningHandlers, topics, broker, entries, deployed, length, out,
                     executor, undeployer>>
  BY DEF TimerClose, EventLockFree, DeRegister
<1>2. TypeOK /\ timer[t] \in TimerStates /\ channelOf \in Channels \cup {None}
  BY DEF IInv, TypeOK, TimerStates
<1>3. /\ [timer[t] EXCEPT !.pc = "clear"] \in TimerStates
      /\ [timer[t] EXCEPT !.pc = "clear"].pc = "clear"
      /\ [timer[t] EXCEPT !.pc = "clear"].channel = timer[t].channel
  BY <1>2 DEF TimerStates
<1>4. /\ timer' \in [Timers -> TimerStates]
      /\ timer'[t].pc = "clear" /\ timer'[t].channel = timer[t].channel
      /\ \A u \in Timers \ {t} : timer'[u] = timer[u]
  BY <1>1, <1>2, <1>3, TimerMoves
<1>5. TypeOK'
  BY <1>1, <1>2, <1>4 DEF TypeOK, TimerStates, broker
<1>6. ChargeOK' /\ TopicOK' /\ EmitOK'
  <2>1. InCharge' = InCharge /\ \A u \in Timers : timer'[u].pc \in Lives <=> timer[u].pc \in Lives
    BY <1>1, <1>4 DEF InCharge, Lives
  <2>. QED BY <1>1, <2>1 DEF IInv, ChargeOK, TopicOK, EmitOK, broker
<1>7. ChannelsOK'
  <2>1. \A c \in closed' : \E u \in Timers : timer[u].channel = c
    BY <1>1 DEF IInv, ChannelsOK
  <2>2. \A u \in Timers : timer'[u].channel = timer[u].channel
                       /\ (timer'[u].pc \in Begun <=> timer[u].pc \in Begun)
    BY <1>1, <1>4 DEF Begun
  <2>. QED BY <1>1, <2>1, <2>2 DEF IInv, ChannelsOK
<1>. QED BY <1>1, <1>5, <1>6, <1>7 DEF IInv

\* The goroutine ends, and with the last one that refers to it a closed channel.
LEMMA TimerClearStep ==
    ASSUME IInv, NEW t \in Timers, TimerClear(t)
    PROVE  IInv'
<1>1. /\ timer[t].pc = "clear" /\ entries' = FALSE
      /\ timer' = [timer EXCEPT ![t] = NoTimer]
      /\ closed' = closed \cap {timer[s].channel : s \in Timers \ {t}}
      /\ length' = [c \in Channels |-> IF c \in closed \ closed' THEN 0 ELSE length[c]]
      /\ UNCHANGED <<runningHandlers, topics, broker, deployed, channelOf, out, executor, undeployer>>
  BY DEF TimerClear
<1>2. TypeOK /\ NoTimer \in TimerStates
  BY DEF IInv, NoTimer, TimerStates
<1>3. /\ timer' \in [Timers -> TimerStates] /\ timer'[t] = NoTimer
      /\ \A u \in Timers \ {t} : timer'[u] = timer[u]
  BY <1>1, <1>2, TimerMoves
<1>4. TypeOK'
  <2>1. length' \in [Channels -> 0 .. Cap]
    BY <1>1, <1>2, CapAssumption DEF TypeOK
  <2>2. closed' \subseteq Channels /\ entries' \in BOOLEAN
    BY <1>1, <1>2 DEF TypeOK
  <2>3. UNCHANGED <<runningHandlers, topics, connection, subscribed, unheeded, handler, deployed,
                    channelOf, out, executor, undeployer>>
    BY <1>1 DEF broker
  <2>. QED BY <1>2, <1>3, <2>1, <2>2, <2>3 DEF TypeOK, TimerStates
<1>5. ChargeOK' /\ TopicOK'
  <2>1. InCharge' = InCharge /\ \A u \in Timers : timer'[u].pc \in Lives <=> timer[u].pc \in Lives
    BY <1>1, <1>3 DEF InCharge, Lives, NoTimer
  <2>. QED BY <1>1, <2>1 DEF IInv, ChargeOK, TopicOK, broker
<1>6. EmitOK'
  BY <1>1, <1>2 DEF IInv, TypeOK, EmitOK, ChannelsOK
<1>7. ChannelsOK'
  <2>1. NoTimer.pc \notin Begun /\ NoTimer.channel = None
    BY DEF NoTimer, Begun
  <2>2. \A u \in Timers : timer'[u].pc \in Begun <=> timer'[u].channel # None
    BY <1>3, <2>1 DEF IInv, ChannelsOK
  <2>3. \A c \in closed' : \E u \in Timers : timer'[u].channel = c
    BY <1>1, <1>3
  <2>. QED BY <1>1, <1>3, <2>2, <2>3 DEF IInv, ChannelsOK
<1>. QED BY <1>1, <1>4, <1>5, <1>6, <1>7 DEF IInv

-----------------------------------------------------------------------------
(* The invariant and the theorems.                                          *)

LEMMA InitIInv == Init => IInv
<1> SUFFICES ASSUME Init PROVE IInv
  OBVIOUS
<1>1. /\ runningHandlers \in Seq(Jobs) /\ OnceEach(runningHandlers) /\ ~Listed(runningHandlers, Job)
  BY StartedOnce DEF Init
<1>2. timer = [t \in Timers |-> NoTimer] /\ channelOf = None /\ closed = {} /\ out.pc = "idle"
  BY DEF Init, NotSending
<1>3. TypeOK
  <2>1. /\ length \in [Channels -> 0 .. Cap] /\ timer \in [Timers -> TimerStates]
    BY <1>2, CapAssumption DEF Init, NoTimer, TimerStates
  <2>2. /\ topics = FALSE /\ connection = "up" /\ subscribed = FALSE /\ unheeded = FALSE
        /\ handler = NoHandler
        /\ entries = FALSE /\ deployed = FALSE /\ out = NotSending
        /\ executor = "idle" /\ undeployer = "idle"
    BY DEF Init
  <2>. QED BY <1>1, <1>2, <2>1, <2>2 DEF TypeOK, Jobs, NoHandler, NotSending, TimerStates
<1>4. ChargeOK /\ TopicOK /\ ChannelsOK /\ EmitOK
  BY <1>1, <1>2 DEF ChargeOK, TopicOK, ChannelsOK, EmitOK, InCharge, NoTimer, Lives, Begun
<1>. QED BY <1>1, <1>3, <1>4 DEF IInv

LEMMA NextIInv == IInv /\ [Next]_vars => IInv'
<1> SUFFICES ASSUME IInv, [Next]_vars PROVE IInv'
  OBVIOUS
<1>1. CASE UNCHANGED vars
  BY <1>1 DEF IInv, TypeOK, OnceEach, ChargeOK, TopicOK, ChannelsOK, EmitOK, InCharge, Listed, vars, broker
<1>2. CASE Packet \/ OutStep
  BY <1>2, TableSteps, EmitSendStep, RegisterSteps DEF OutStep
<1>3. CASE Deploy \/ ExecutorStep
  BY <1>3, TableSteps, RegisterSteps DEF ExecutorStep
<1>4. CASE Undeploy \/ UndeployStep
  BY <1>4, TableSteps DEF UndeployStep
<1>5. CASE BrokerStep
  BY <1>5, BrokerSteps, ConcurrentMapWriteStep DEF BrokerStep
<1>6. ASSUME NEW t \in Timers, TimerStep(t) PROVE IInv'
  BY <1>6, TimerStartStep, TimerEventStep, DismantleSteps, TimerCloseStep, TimerClearStep DEF TimerStep
<1>. QED BY <1>1, <1>2, <1>3, <1>4, <1>5, <1>6 DEF Next

LEMMA SpecIInv == Spec => []IInv
BY InitIInv, NextIInv, PTL DEF Spec

\* The type invariant of the slice, the topics, the channels and the timers.
THEOREM TypeCorrect == Spec => []TypeOK
<1>1. IInv => TypeOK
  BY DEF IInv
<1>. QED BY <1>1, SpecIInv, PTL

\* An interest has one timer, and without an interest there is none, however
\* the registrations (MqttRegisterInterest looks for one under the lock) and
\* the expiries interleave; the interests in other jobs stay.
THEOREM OneTimer == Spec => []OneTimerPerInterest
<1>1. IInv => OneTimerPerInterest
  <2> SUFFICES ASSUME IInv PROVE OneTimerPerInterest
    OBVIOUS
  <2>1. runningHandlers \in Seq(Jobs) /\ OnceEach(runningHandlers)
    BY DEF IInv, TypeOK, Jobs
  <2>2. registered <=> InCharge # {}
    BY <2>1, ExistsIsListed DEF registered, IInv, ChargeOK
  <2>3. \A j \in Others : Exists(runningHandlers, j)
    BY <2>1, ExistsIsListed DEF OnceEach, Listed
  <2>4. InCharge # {} => \E t \in InCharge : InCharge = {t}
    BY DEF IInv, ChargeOK
  <2>. QED BY <2>2, <2>3, <2>4 DEF OneTimerPerInterest
<1>. QED BY <1>1, SpecIInv, PTL

\* The updates of a job whose timer lives arrive whenever there is a connection
\* and its connect handler has ended, although that one goes through the map
\* of topics without the lock (MqttMainClient.go).
THEOREM SubscribedWhileAlive == Spec => []InterestIsSubscribed
<1>1. IInv => InterestIsSubscribed
  BY DEF IInv, TopicOK, InterestIsSubscribed, Lives
<1>. QED BY <1>1, SpecIInv, PTL

\* Emit sends on a channel that is open and has room: the event manager's lock
\* is held from the check to the send (EventManager.go).
THEOREM SendsAreSafe == Spec => []SendIsSafe
<1>1. IInv => SendIsSafe
  BY DEF IInv, EmitOK, ChannelsOK, SendIsSafe
<1>. QED BY <1>1, SpecIInv, PTL

=============================================================================
