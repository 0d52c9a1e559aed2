-------------------------- MODULE TableQueryProofs --------------------------
(***************************************************************************)
(* Proofs about TableQuery, for all jobs, addresses, answers and calls,    *)
(* whatever is lost: a waiting request stays registered under its key, and *)
(* an answered one got an answer about its job.                            *)
(*                                                                         *)
(* Both rest on what travels between the two managers: an answer mentions  *)
(* at least one key, and only keys of the job it was asked about.  The     *)
(* handler then never looks for a key that is not there, and what it sends *)
(* to a channel belongs to the request registered under it.                *)
(***************************************************************************)
EXTENDS TableQuery, SequenceTheorems, TLAPS

\* The keys of the job of k: its name and the addresses that belong to it.
Related(k) == {l \in Keys : JobOfKey(l) = JobOfKey(k)}

\* The answers the cluster can give.
RealAnswers == {a \in Answers : a.querykeys \in Seq(Related(a.key)) /\ a.querykeys # <<>>}

\* What may be on its way to the worker when the cluster is at version v.
Messages(v) == RealAnswers \cup {Notification(i) : i \in 0 .. v}

\* What travels is a real answer or a notification of the past.
MessagesOK ==
    /\ resolving \in RealAnswers \cup {None}
    /\ toNode \in Seq(Messages(version))

\* The handler has a key left, and all that are left are of the answer's job.
DispatchOK ==
    dispatching # None =>
        /\ dispatching.answer \in RealAnswers
        /\ dispatching.left \in Seq(Related(dispatching.answer.key))
        /\ dispatching.left # <<>>

\* A request is registered under its own key only.
RegisteredUnderOwnKey ==
    \A k \in Keys : siprequests[k] # None =>
        request[siprequests[k]].pc \notin {"new", "refused"} /\ request[siprequests[k]].key = k

\* What is in a channel is an answer about the job of the request's key, and a
\* request that has ended with an answer has one in its channel.
ChannelOK(r) ==
    /\ request[r].pc \notin {"new", "refused"} => request[r].key \in Keys
    /\ request[r].channel # None =>
          JobOfKey(request[r].channel.key) = JobOfKey(request[r].key)
    /\ request[r].pc \in {"new", "refused"} => request[r].channel = None
    /\ request[r].pc = "answered" => request[r].channel # None

ChannelsOK == \A r \in Requests : ChannelOK(r)

IInv ==
    /\ TypeOK
    /\ MessagesOK
    /\ DispatchOK
    /\ RegisteredUnderOwnKey
    /\ ChannelsOK
    /\ WaiterStaysRegistered


-----------------------------------------------------------------------------
(* Sequences and keys.                                                      *)

\* A sequence is one over any set that has its elements.
LEMMA SeqInto ==
    ASSUME NEW S, NEW T, NEW s \in Seq(S), \A i \in 1 .. Len(s) : s[i] \in T
    PROVE  s \in Seq(T)
<1>1. Len(s) \in Nat /\ s \in [1 .. Len(s) -> S]
  BY LenProperties
<1>2. s \in [1 .. Len(s) -> T]
  BY <1>1
<1>. QED BY <1>1, <1>2, SeqDef

\* The keys of an answer belong to one job.
LEMMA KeyProperties ==
    ASSUME NEW k \in Keys
    PROVE  /\ JobOfKey(k) \in Jobs
           /\ JobOfKey(JobOfKey(k)) = JobOfKey(k)
           /\ k \in Related(k) /\ JobOfKey(k) \in Related(k)
           /\ Related(k) \subseteq Keys
BY JobOfAssumption DEF Keys, JobOfKey, Related

\* Whatever the resolution of a query comes to, the answer mentions a key, and
\* none that is not of the job the query was about.
LEMMA AnswersAreReal ==
    ASSUME NEW k \in Keys, NEW qk \in QueryKeys(k), NEW v \in 0 .. MaxVersion
    PROVE  [key |-> k, querykeys |-> qk, version |-> v] \in RealAnswers
<1> DEFINE j == JobOfKey(k)
<1>1. /\ j \in Jobs /\ j \in Related(k) /\ k \in Related(k)
      /\ JobOfKey(j) = JobOfKey(k) /\ Related(k) \subseteq Keys
  BY KeyProperties
<1>2. SipList[j] \in Seq(Sips) /\ \A i \in DOMAIN SipList[j] : JobOf[SipList[j][i]] = j
  BY <1>1, SipListAssumption
<1>3. SipList[j] \in Seq(Related(k))
  <2> SUFFICES ASSUME NEW i \in 1 .. Len(SipList[j]) PROVE SipList[j][i] \in Related(k)
    BY <1>2, SeqInto
  <2>1. i \in DOMAIN SipList[j] /\ SipList[j][i] \in Sips
    BY <1>2, LenProperties, ElementOfSeq
  <2>2. JobOfKey(SipList[j][i]) = j
    BY <2>1, <1>2, KeysAssumption DEF JobOfKey
  <2>. QED BY <2>1, <2>2 DEF Related, Keys
<1>4. <<j, k>> \in Seq(Related(k)) /\ <<k>> \in Seq(Related(k))
  BY <1>1
<1> HIDE DEF j
<1>5. <<j, k>> \o SipList[j] \in Seq(Related(k)) /\ <<j, k>> \o SipList[j] # <<>>
  <2>1. <<j, k>> # <<>>
    OBVIOUS
  <2>. QED BY <2>1, <1>3, <1>4, ConcatProperties, ConcatEqualIffEmpty
<1>6. qk \in Seq(Related(k)) /\ qk # <<>>
  <2>1. \/ qk = <<j, k>> \/ qk = <<j, k>> \o SipList[j] \/ qk = <<k>>
    BY DEF QueryKeys, j
  <2>2. <<j, k>> # <<>> /\ <<k>> # <<>>
    OBVIOUS
  <2>. QED BY <2>1, <2>2, <1>4, <1>5
<1>7. qk \in Seq(Keys)
  BY <1>1, <1>6, SeqMonotonic
<1>. QED BY <1>6, <1>7 DEF RealAnswers, Answers

\* An answer and a notification are told apart by the key, and neither is nil.
LEMMA MessageKinds ==
    ASSUME NEW v \in 0 .. MaxVersion, NEW m \in Messages(v)
    PROVE  /\ m.key # None => m \in RealAnswers
           /\ m.key = None => m.version \in 0 .. v
           /\ m \in Answers \cup {Notification(i) : i \in 0 .. MaxVersion}
<1>1. CASE m \in RealAnswers
  BY <1>1, NoneAssumption DEF RealAnswers, Answers
<1>2. CASE m \in {Notification(i) : i \in 0 .. v}
  BY <1>2, MaxVersionAssumption DEF Notification
<1>. QED BY <1>1, <1>2 DEF Messages

-----------------------------------------------------------------------------
(* The worker's requests.                                                   *)

\* Nothing is registered, asked or answered at first.
LEMMA InitIInv == Init => IInv
<1> SUFFICES ASSUME Init PROVE IInv
  OBVIOUS
<1>1. TypeOK
  BY MaxVersionAssumption, EmptySeq DEF Init, TypeOK, NewRequest
<1>2. MessagesOK /\ DispatchOK
  BY EmptySeq DEF Init, MessagesOK, DispatchOK
<1>3. RegisteredUnderOwnKey /\ ChannelsOK /\ WaiterStaysRegistered
  BY DEF Init, RegisteredUnderOwnKey, ChannelsOK, ChannelOK, WaiterStaysRegistered, Waiting, NewRequest
<1>. QED BY <1>1, <1>2, <1>3 DEF IInv

\* The versions are numbers, and a request that is registered is one.
LEMMA Types ==
    ASSUME TypeOK
    PROVE  /\ version \in Nat /\ version <= MaxVersion
           /\ known \in Nat /\ known <= version
           /\ siprequests \in [Keys -> Requests \cup {None}]
           /\ \A k \in Keys : siprequests[k] # None => siprequests[k] \in Requests
<1>1. version \in 0 .. MaxVersion /\ known \in 0 .. version
  BY DEF TypeOK
<1>2. siprequests \in [Keys -> Requests \cup {None}]
  BY DEF TypeOK
<1>. QED BY <1>1, <1>2, MaxVersionAssumption

\* A call registers its channel where there is none.
LEMMA RegisterStep ==
    ASSUME IInv, NEW r \in Requests, NEW k \in Keys, Register(r, k)
    PROVE  IInv'
<1> USE DEF IInv
<1>1. /\ request[r].pc = "new" /\ siprequests[k] = None
      /\ siprequests' = [siprequests EXCEPT ![k] = r]
      /\ request' = [request EXCEPT ![r] =
            [pc |-> "registered", key |-> k, asked |-> known, channel |-> None]]
      /\ UNCHANGED <<cluster, toNode, dispatching, known, lost>>
  BY DEF Register, Unasked
<1>2. known \in 0 .. MaxVersion
  BY Types, MaxVersionAssumption
<1>3. TypeOK'
  BY <1>1, <1>2 DEF TypeOK, cluster
<1>4. MessagesOK' /\ DispatchOK'
  BY <1>1 DEF MessagesOK, DispatchOK, cluster
<1>5. /\ request'[r].pc = "registered" /\ request'[r].key = k /\ request'[r].channel = None
      /\ \A q \in Requests : q # r => request'[q] = request[q]
  BY <1>1 DEF TypeOK
<1>6. siprequests'[k] = r /\ \A l \in Keys : l # k => siprequests'[l] = siprequests[l]
  BY <1>1, Types
<1>7. \A l \in Keys : siprequests[l] # r
  BY <1>1, NoneAssumption DEF RegisteredUnderOwnKey
<1>8. RegisteredUnderOwnKey'
  <2> SUFFICES ASSUME NEW l \in Keys, siprequests'[l] # None
               PROVE  /\ request'[siprequests'[l]].pc \notin {"new", "refused"}
                      /\ request'[siprequests'[l]].key = l
    BY DEF RegisteredUnderOwnKey
  <2>1. CASE l = k
    BY <2>1, <1>5, <1>6
  <2>2. CASE l # k
    <3>1. siprequests'[l] = siprequests[l] /\ siprequests[l] \in Requests /\ siprequests[l] # r
      BY <2>2, <1>6, <1>7, Types
    <3>. QED BY <3>1, <1>5 DEF RegisteredUnderOwnKey
  <2>. QED BY <2>1, <2>2
<1>9. ChannelsOK'
  <2> SUFFICES ASSUME NEW q \in Requests PROVE ChannelOK(q)'
    BY DEF ChannelsOK
  <2>1. CASE q = r
    BY <2>1, <1>5 DEF ChannelOK
  <2>2. CASE q # r
    BY <2>2, <1>5 DEF ChannelsOK, ChannelOK
  <2>. QED BY <2>1, <2>2
<1>10. WaiterStaysRegistered'
  <2> SUFFICES ASSUME NEW q \in Requests, Waiting(q)' PROVE siprequests'[request'[q].key] = q
    BY DEF WaiterStaysRegistered
  <2>1. CASE q = r
    BY <2>1, <1>5, <1>6
  <2>2. CASE q # r
    <3>1. request'[q] = request[q] /\ siprequests[request[q].key] = q
      BY <2>2, <1>5 DEF WaiterStaysRegistered, Waiting
    <3>2. request[q].key \in Keys
      BY <2>2, <1>5 DEF ChannelsOK, ChannelOK, Waiting
    <3>3. request[q].key # k
      BY <3>1, <1>1, NoneAssumption
    <3>. QED BY <3>1, <3>2, <3>3, <1>6
  <2>. QED BY <2>1, <2>2
<1>. QED BY <1>3, <1>4, <1>8, <1>9, <1>10

\* A call that only moves on, or is refused, disturbs nothing.
LEMMA CallStep ==
    ASSUME IInv, NEW r \in Requests,
           (\E k \in Keys : Refuse(r, k)) \/ Publish(r) \/ Receive(r) \/ Timeout(r)
    PROVE  IInv'
<1> USE DEF IInv
<1>1. /\ siprequests' = siprequests
      /\ UNCHANGED <<looping, resolving, toNode, dispatching, version, known>>
  BY DEF Refuse, Publish, Receive, Timeout, cluster
<1> DEFINE Calls ==
          [pc : {"new", "refused", "registered", "waiting", "answered", "timed out"},
           key : Keys \cup {None}, asked : 0 .. MaxVersion, channel : Answers \cup {None}]
<1>2. /\ \A q \in Requests : q # r => request'[q] = request[q]
      /\ request'[r].asked = request[r].asked
      /\ request'[r].channel = request[r].channel
      /\ \/ /\ request[r].pc = "new" /\ request'[r].pc = "refused"
            /\ request'[r].key \in Keys
         \/ /\ request[r].pc \in {"registered", "waiting"}
            /\ request'[r].pc \in {"waiting", "answered", "timed out"}
            /\ request'[r].key = request[r].key
            /\ request'[r].pc = "answered" => request[r].channel # None
      /\ request' \in [Requests -> Calls]
  <2>1. request \in [Requests -> Calls] /\ request[r] \in Calls
    BY DEF TypeOK
  <2>2. \E c \in Calls :
           /\ request' = [request EXCEPT ![r] = c]
           /\ c.asked = request[r].asked /\ c.channel = request[r].channel
           /\ \/ request[r].pc = "new" /\ c.pc = "refused" /\ c.key \in Keys
              \/ /\ request[r].pc \in {"registered", "waiting"}
                 /\ c.pc \in {"waiting", "answered", "timed out"}
                 /\ c.key = request[r].key
                 /\ c.pc = "answered" => request[r].channel # None
    <3>1. ASSUME NEW k \in Keys, Refuse(r, k) PROVE <2>2!:
      <4> DEFINE c == [request[r] EXCEPT !.pc = "refused", !.key = k]
      <4>1. request' = [request EXCEPT ![r] = c] /\ request[r].pc = "new"
        BY <2>1, <3>1 DEF Refuse
      <4>2. c \in Calls
        BY <2>1
      <4>3. /\ c.pc = "refused" /\ c.key = k /\ c.asked = request[r].asked
            /\ c.channel = request[r].channel
        BY <2>1
      <4> HIDE DEF c, Calls
      <4>. QED BY <4>1, <4>2, <4>3
    <3>2. ASSUME NEW pc \in {"waiting", "answered", "timed out"},
                 request[r].pc \in {"registered", "waiting"},
                 pc = "answered" => request[r].channel # None,
                 request' = [request EXCEPT ![r].pc = pc]
          PROVE  <2>2!:
      <4> DEFINE c == [request[r] EXCEPT !.pc = pc]
      <4>1. request' = [request EXCEPT ![r] = c]
        BY <2>1, <3>2
      <4>2. c \in Calls
        BY <2>1
      <4>3. /\ c.pc = pc /\ c.key = request[r].key /\ c.asked = request[r].asked
            /\ c.channel = request[r].channel
        BY <2>1
      <4> HIDE DEF c, Calls
      <4>. QED BY <3>2, <4>1, <4>2, <4>3
    <3>3. CASE Publish(r)
      BY <3>2, <3>3 DEF Publish
    <3>4. CASE Receive(r)
      BY <3>2, <3>4 DEF Receive
    <3>5. CASE Timeout(r)
      BY <3>2, <3>5 DEF Timeout
    <3>. QED BY <3>1, <3>3, <3>4, <3>5
  <2> HIDE DEF Calls
  <2>. QED BY <2>1, <2>2
<1>3. TypeOK'
  <2>1. request' \in [Requests -> Calls]
    BY <1>2
  <2>2. toCluster' \in Seq(Keys) /\ lost' \subseteq Keys
    <3>1. request[r].pc = "registered" => request[r].key \in Keys
      BY DEF ChannelsOK, ChannelOK
    <3>2. toCluster \in Seq(Keys) /\ lost \subseteq Keys
      BY DEF TypeOK
    <3>3. CASE Publish(r)
      <4>1. request[r].key \in Keys
        BY <3>1, <3>3 DEF Publish
      <4>2. Append(toCluster, request[r].key) \in Seq(Keys)
        BY <4>1, <3>2, AppendProperties
      <4>3. toCluster' \in {toCluster, Append(toCluster, request[r].key)}
            /\ lost' \in {lost, lost \cup {request[r].key}}
        BY <3>3 DEF Publish, Sent
      <4>. QED BY <4>1, <4>2, <4>3, <3>2
    <3>4. CASE ~Publish(r)
      BY <3>2, <3>4 DEF Refuse, Receive, Timeout, cluster
    <3>. QED BY <3>3, <3>4
  <2>. QED BY <1>1, <2>1, <2>2 DEF TypeOK
<1>4. MessagesOK' /\ DispatchOK'
  BY <1>1 DEF MessagesOK, DispatchOK
<1>5. RegisteredUnderOwnKey'
  <2> SUFFICES ASSUME NEW k \in Keys, siprequests[k] # None
               PROVE  /\ request'[siprequests[k]].pc \notin {"new", "refused"}
                      /\ request'[siprequests[k]].key = k
    BY <1>1 DEF RegisteredUnderOwnKey
  <2>1. /\ siprequests[k] \in Requests
        /\ request[siprequests[k]].pc \notin {"new", "refused"} /\ request[siprequests[k]].key = k
    BY Types DEF RegisteredUnderOwnKey
  <2>2. CASE siprequests[k] = r
    BY <2>1, <2>2, <1>2
  <2>3. CASE siprequests[k] # r
    BY <2>1, <2>3, <1>2
  <2>. QED BY <2>2, <2>3
<1>6. ChannelsOK'
  <2> SUFFICES ASSUME NEW q \in Requests PROVE ChannelOK(q)'
    BY DEF ChannelsOK
  <2>1. ChannelOK(q)
    BY DEF ChannelsOK
  <2>2. CASE q = r
    BY <2>1, <2>2, <1>2 DEF ChannelOK
  <2>3. CASE q # r
    BY <2>1, <2>3, <1>2 DEF ChannelOK
  <2>. QED BY <2>2, <2>3
<1>7. WaiterStaysRegistered'
  <2> SUFFICES ASSUME NEW q \in Requests, Waiting(q)' PROVE siprequests'[request'[q].key] = q
    BY DEF WaiterStaysRegistered
  <2>1. Waiting(q) /\ request'[q].key = request[q].key
    <3>1. CASE q = r
      BY <3>1, <1>2 DEF Waiting
    <3>2. CASE q # r
      BY <3>2, <1>2 DEF Waiting
    <3>. QED BY <3>1, <3>2
  <2>. QED BY <2>1, <1>1 DEF WaiterStaysRegistered
<1>. QED BY <1>3, <1>4, <1>5, <1>6, <1>7

-----------------------------------------------------------------------------
(* The cluster.                                                             *)

\* The resolution ends with a real answer.
LEMMA ResolveStep == ASSUME IInv, Resolve PROVE IInv'
<1> USE DEF IInv
<1>1. /\ toCluster # <<>>
      /\ toCluster' = Tail(toCluster)
      /\ UNCHANGED <<siprequests, request, looping, toNode, dispatching, version, known, lost>>
  BY DEF Resolve, node
<1>2. PICK qk \in QueryKeys(Head(toCluster)) :
         resolving' = [key |-> Head(toCluster), querykeys |-> qk, version |-> version]
  BY DEF Resolve
<1>3. Head(toCluster) \in Keys /\ Tail(toCluster) \in Seq(Keys)
  BY <1>1, HeadTailProperties DEF TypeOK
<1>4. resolving' \in RealAnswers
  BY <1>2, <1>3, AnswersAreReal DEF TypeOK
<1>5. TypeOK'
  BY <1>1, <1>3, <1>4 DEF TypeOK, RealAnswers
<1>6. MessagesOK' /\ DispatchOK'
  BY <1>1, <1>4 DEF MessagesOK, DispatchOK
<1>7. RegisteredUnderOwnKey' /\ ChannelsOK' /\ WaiterStaysRegistered'
  BY <1>1 DEF RegisteredUnderOwnKey, ChannelsOK, ChannelOK, WaiterStaysRegistered, Waiting
<1>. QED BY <1>5, <1>6, <1>7

\* What the cluster sends is an answer it has resolved, or the notification of
\* the version it has reached.
LEMMA SendStep == ASSUME IInv, Respond \/ Change PROVE IInv'
<1> USE DEF IInv
<1>1. UNCHANGED <<siprequests, request, looping, toCluster, dispatching, known>>
  BY DEF Respond, Change, node
<1>2. version' \in 0 .. MaxVersion /\ version \in Nat /\ version <= version'
  <2>1. version \in Nat /\ version <= MaxVersion
    BY Types
  <2>. QED BY <2>1, MaxVersionAssumption DEF Respond, Change
<1>3. Messages(version) \subseteq Messages(version')
  <2>1. 0 .. version \subseteq 0 .. version'
    BY <1>2, MaxVersionAssumption
  <2>. QED BY <2>1 DEF Messages
<1>4. toNode \in Seq(Messages(version'))
  BY <1>3, SeqMonotonic DEF MessagesOK
<1>5. toNode' \in Seq(Messages(version')) /\ resolving' \in RealAnswers \cup {None}
      /\ lost' \subseteq Keys
  <2>1. CASE Respond
    <3>1. resolving \in RealAnswers /\ resolving.key \in Keys /\ version' = version
      BY <2>1 DEF Respond, MessagesOK, RealAnswers, Answers
    <3>2. Append(toNode, resolving) \in Seq(Messages(version'))
      BY <3>1, <1>4, AppendProperties DEF Messages
    <3>3. toNode' \in {toNode, Append(toNode, resolving)} /\ resolving' = None
          /\ lost' \in {lost, lost \cup {resolving.key}}
      BY <2>1 DEF Respond, Sent
    <3>. QED BY <3>1, <3>2, <3>3, <1>4 DEF TypeOK
  <2>2. CASE Change
    <3>1. Notification(version + 1) \in Messages(version')
      BY <2>2, <1>2 DEF Change, Messages
    <3>2. Append(toNode, Notification(version + 1)) \in Seq(Messages(version'))
      BY <3>1, <1>4, AppendProperties
    <3>3. toNode' \in {toNode, Append(toNode, Notification(version + 1))}
          /\ UNCHANGED <<resolving, lost>>
      BY <2>2 DEF Change, Sent
    <3>. QED BY <3>2, <3>3, <1>4 DEF MessagesOK, TypeOK
  <2>. QED BY <2>1, <2>2
<1>6. toNode' \in Seq(Answers \cup {Notification(i) : i \in 0 .. MaxVersion})
  <2>1. Messages(version') \subseteq Answers \cup {Notification(i) : i \in 0 .. MaxVersion}
    BY <1>2, MessageKinds
  <2>. QED BY <2>1, <1>5, SeqMonotonic
<1>7. known' \in 0 .. version'
  BY <1>1, <1>2, Types
<1>8. TypeOK'
  BY <1>1, <1>2, <1>5, <1>6, <1>7 DEF TypeOK, RealAnswers
<1>9. MessagesOK' /\ DispatchOK'
  BY <1>1, <1>5 DEF MessagesOK, DispatchOK
<1>10. RegisteredUnderOwnKey' /\ ChannelsOK' /\ WaiterStaysRegistered'
  BY <1>1 DEF RegisteredUnderOwnKey, ChannelsOK, ChannelOK, WaiterStaysRegistered, Waiting
<1>. QED BY <1>8, <1>9, <1>10

\* What the loop leaves when it ends is nothing; the keys it had were asked for.
LEMMA LoopStep == ASSUME IInv, LoopEnds \/ Restart PROVE IInv'
<1> USE DEF IInv
<1>1. /\ UNCHANGED <<siprequests, request, dispatching, known, version, toNode>>
      /\ looping' \in BOOLEAN
      /\ toCluster' \in {toCluster, <<>>} /\ resolving' \in {resolving, None}
      /\ lost' \in {lost, lost \cup Unserved}
  BY DEF LoopEnds, Restart, node
<1>2. Unserved \subseteq Keys
  <2>1. \A i \in DOMAIN toCluster : toCluster[i] \in Keys
    <3>1. toCluster \in Seq(Keys)
      BY DEF TypeOK
    <3>2. DOMAIN toCluster = 1 .. Len(toCluster)
      BY <3>1, LenProperties
    <3>. QED BY <3>1, <3>2, ElementOfSeq
  <2>2. resolving # None => resolving.key \in Keys
    BY DEF MessagesOK, RealAnswers, Answers
  <2>. QED BY <2>1, <2>2 DEF Unserved
<1>3. TypeOK'
  <2>1. toCluster' \in Seq(Keys)
    BY <1>1, EmptySeq DEF TypeOK
  <2>2. resolving' \in Answers \cup {None} /\ lost' \subseteq Keys
    BY <1>1, <1>2 DEF TypeOK
  <2>. QED BY <1>1, <2>1, <2>2 DEF TypeOK
<1>4. MessagesOK' /\ DispatchOK'
  BY <1>1 DEF MessagesOK, DispatchOK
<1>5. RegisteredUnderOwnKey' /\ ChannelsOK' /\ WaiterStaysRegistered'
  BY <1>1 DEF RegisteredUnderOwnKey, ChannelsOK, ChannelOK, WaiterStaysRegistered, Waiting
<1>. QED BY <1>3, <1>4, <1>5

-----------------------------------------------------------------------------
(* The worker's handlers.                                                   *)

\* A message is taken from the queue; an answer is then worked on.
LEMMA HandleStep == ASSUME IInv, HandleNotification \/ HandleResult PROVE IInv'
<1> USE DEF IInv
<1>1. /\ toNode # <<>>
      /\ toNode' = Tail(toNode)
      /\ UNCHANGED <<siprequests, request, looping, toCluster, resolving, version, lost>>
  BY DEF HandleNotification, HandleResult, cluster
<1>2. /\ Head(toNode) \in Messages(version)
      /\ Tail(toNode) \in Seq(Messages(version))
      /\ Tail(toNode) \in Seq(Answers \cup {Notification(i) : i \in 0 .. MaxVersion})
  BY <1>1, HeadTailProperties DEF MessagesOK, TypeOK
<1>3. /\ Head(toNode).key # None => Head(toNode) \in RealAnswers
      /\ Head(toNode).key = None => Head(toNode).version \in 0 .. version
  BY <1>2, MessageKinds DEF TypeOK
<1>4. /\ known' \in 0 .. version
      /\ dispatching' \in [answer : Answers, left : Seq(Keys)] \cup {None}
      /\ DispatchOK'
  <2>1. CASE HandleNotification
    BY <2>1, <1>3 DEF HandleNotification, TypeOK, DispatchOK
  <2>2. CASE HandleResult
    BY <2>2, <1>3 DEF HandleResult, TypeOK, DispatchOK, RealAnswers, Answers
  <2>. QED BY <2>1, <2>2
<1>5. TypeOK' /\ MessagesOK'
  BY <1>1, <1>2, <1>4 DEF TypeOK, MessagesOK
<1>6. RegisteredUnderOwnKey' /\ ChannelsOK' /\ WaiterStaysRegistered'
  BY <1>1 DEF RegisteredUnderOwnKey, ChannelsOK, ChannelOK, WaiterStaysRegistered, Waiting
<1>. QED BY <1>4, <1>5, <1>6

\* Whoever waits under a key of the answer is sent the answer, and is no longer
\* registered; the key is its own, so the answer is about its job.
LEMMA NotifyStep == ASSUME IInv, NotifyKey PROVE IInv'
<1> USE DEF IInv
<1> DEFINE k == Head(dispatching.left)
           a == dispatching.answer
<1>1. /\ dispatching # None
      /\ siprequests' = [siprequests EXCEPT ![k] = None]
      /\ request' = [r \in Requests |-> IF siprequests[k] = r
            THEN [request[r] EXCEPT !.channel = a] ELSE request[r]]
      /\ NextKey
      /\ UNCHANGED <<looping, toCluster, resolving, toNode, version, known, lost>>
  BY DEF NotifyKey, Served, Cleared, cluster
<1>2. /\ a \in RealAnswers
      /\ dispatching.left \in Seq(Related(a.key)) /\ dispatching.left # <<>>
      /\ dispatching \in [answer : Answers, left : Seq(Keys)]
  BY <1>1 DEF DispatchOK, TypeOK
<1>3. /\ k \in Related(a.key)
      /\ Tail(dispatching.left) \in Seq(Related(a.key))
      /\ Tail(dispatching.left) \in Seq(Keys)
      /\ Len(Tail(dispatching.left)) = Len(dispatching.left) - 1
      /\ Len(dispatching.left) \in Nat \ {0}
  BY <1>2, HeadTailProperties, EmptySeq
<1>4. k \in Keys /\ JobOfKey(k) = JobOfKey(a.key) /\ a \in Answers /\ a # None
  BY <1>2, <1>3, NoneAssumption DEF Related, RealAnswers
<1>5. \/ dispatching' = None
      \/ /\ dispatching' = [answer |-> a, left |-> Tail(dispatching.left)]
         /\ Tail(dispatching.left) # <<>>
  <2>1. CASE Len(dispatching.left) = 1
    BY <1>1, <2>1 DEF NextKey
  <2>2. CASE Len(dispatching.left) # 1
    <3>1. Len(Tail(dispatching.left)) # 0
      BY <2>2, <1>3
    <3>2. dispatching' = [dispatching EXCEPT !.left = Tail(@)]
      BY <1>1, <2>2 DEF NextKey
    <3>3. Tail(dispatching.left) # <<>>
      BY <3>1, EmptySeq
    <3>. QED BY <3>2, <3>3, <1>2
  <2>. QED BY <2>1, <2>2
<1> HIDE DEF k, a
<1>6. DispatchOK' /\ dispatching' \in [answer : Answers, left : Seq(Keys)] \cup {None}
  <2>1. CASE dispatching' = None
    BY <2>1 DEF DispatchOK
  <2>2. CASE dispatching' = [answer |-> a, left |-> Tail(dispatching.left)]
             /\ Tail(dispatching.left) # <<>>
    <3>1. dispatching'.answer = a /\ dispatching'.left = Tail(dispatching.left)
      BY <2>2
    <3>2. dispatching' \in [answer : Answers, left : Seq(Keys)]
      BY <2>2, <1>3, <1>4
    <3>. QED BY <2>2, <3>1, <3>2, <1>2, <1>3 DEF DispatchOK
  <2>. QED BY <2>1, <2>2, <1>5
<1>7. \A r \in Requests :
         /\ request'[r].pc = request[r].pc /\ request'[r].key = request[r].key
         /\ request'[r].channel = IF siprequests[k] = r THEN a ELSE request[r].channel
  <2> SUFFICES ASSUME NEW r \in Requests PROVE <1>7!(r)
    OBVIOUS
  <2>1. request'[r] = IF siprequests[k] = r THEN [request[r] EXCEPT !.channel = a] ELSE request[r]
    BY <1>1
  <2>2. request[r] \in [pc : {"new", "refused", "registered", "waiting", "answered", "timed out"},
                        key : Keys \cup {None}, asked : 0 .. MaxVersion,
                        channel : Answers \cup {None}]
    BY DEF TypeOK
  <2>. QED BY <2>1, <2>2
<1>8. TypeOK'
  <2>1. request' \in [Requests ->
          [pc : {"new", "refused", "registered", "waiting", "answered", "timed out"},
           key : Keys \cup {None}, asked : 0 .. MaxVersion,
           channel : Answers \cup {None}]]
    <3> DEFINE Calls == [pc : {"new", "refused", "registered", "waiting", "answered", "timed out"},
                         key : Keys \cup {None}, asked : 0 .. MaxVersion,
                         channel : Answers \cup {None}]
    <3>1. ASSUME NEW r \in Requests
          PROVE  request[r] \in Calls /\ [request[r] EXCEPT !.channel = a] \in Calls
      <4>1. request[r] \in Calls
        BY DEF TypeOK
      <4>. QED BY <4>1, <1>4
    <3> HIDE DEF Calls
    <3>2. request' \in [Requests -> Calls]
      BY <1>1, <3>1
    <3>. QED BY <3>2 DEF Calls
  <2>. QED BY <1>1, <1>6, <2>1 DEF TypeOK
<1>9. MessagesOK'
  BY <1>1 DEF MessagesOK
<1>10. RegisteredUnderOwnKey'
  BY <1>1, <1>4, <1>7, Types DEF RegisteredUnderOwnKey
<1>11. ASSUME NEW r \in Requests, siprequests[k] = r
       PROVE  request[r].pc \notin {"new", "refused"} /\ request[r].key = k
  BY <1>4, <1>11, NoneAssumption DEF RegisteredUnderOwnKey
<1>12. ChannelsOK'
  <2> SUFFICES ASSUME NEW r \in Requests PROVE ChannelOK(r)'
    BY DEF ChannelsOK
  <2>1. ChannelOK(r)
    BY DEF ChannelsOK
  <2>2. CASE siprequests[k] = r
    BY <2>1, <2>2, <1>4, <1>7, <1>11 DEF ChannelOK
  <2>3. CASE siprequests[k] # r
    BY <2>1, <2>3, <1>7 DEF ChannelOK
  <2>. QED BY <2>2, <2>3
<1>13. WaiterStaysRegistered'
  <2> SUFFICES ASSUME NEW r \in Requests, Waiting(r)' PROVE siprequests'[request'[r].key] = r
    BY DEF WaiterStaysRegistered
  <2>1. siprequests[k] # r /\ Waiting(r) /\ request'[r].key = request[r].key
    BY <1>4, <1>7 DEF Waiting
  <2>2. siprequests[request[r].key] = r /\ request[r].key \in Keys
    BY <2>1 DEF WaiterStaysRegistered, ChannelsOK, ChannelOK, Waiting
  <2>3. \A l \in Keys : l # k => siprequests'[l] = siprequests[l]
    BY <1>1, Types
  <2>. QED BY <2>1, <2>2, <2>3
<1>. QED BY <1>6, <1>8, <1>9, <1>10, <1>12, <1>13

-----------------------------------------------------------------------------
\* One step per action.
LEMMA NextIInv == IInv /\ [Next]_vars => IInv'
<1>1. ASSUME IInv, UNCHANGED vars PROVE IInv'
  BY <1>1 DEF IInv, TypeOK, MessagesOK, DispatchOK, RegisteredUnderOwnKey, ChannelsOK, ChannelOK,
              WaiterStaysRegistered, Waiting, vars, node, cluster
<1>. QED BY <1>1, RegisterStep, CallStep, ResolveStep, SendStep, LoopStep, HandleStep, NotifyStep DEF Next

\* What the worker and the cluster keep and send has its type: in particular a
\* notification never names a version that is not there yet.
THEOREM TypeCorrect == Spec => []TypeOK
<1>1. IInv => TypeOK
  BY DEF IInv
<1>. QED BY <1>1, InitIInv, NextIInv, PTL DEF Spec

\* No request, answer or time-out takes the place of a request that waits in
\* siprequests before an answer has been sent to its channel.
THEOREM WaiterRegistered == Spec => []WaiterStaysRegistered
<1>1. IInv => WaiterStaysRegistered
  BY DEF IInv
<1>. QED BY <1>1, InitIInv, NextIInv, PTL DEF Spec

\* TablequeryResultMqttHandler serves requests by whatever keys an answer
\* mentions, and still no request is answered about another job.
THEOREM AnsweredAboutTheKey == Spec => []AnswerIsAboutTheKey
<1>1. IInv => AnswerIsAboutTheKey
  BY DEF IInv, ChannelsOK, ChannelOK, AnswerIsAboutTheKey
<1>. QED BY <1>1, InitIInv, NextIInv, PTL DEF Spec

=============================================================================
