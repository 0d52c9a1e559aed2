----------------------------- MODULE TableQuery -----------------------------
(***************************************************************************)
(* Table queries of a worker (mqtt/Tablequery.go) and their answers by the *)
(* cluster service manager (interfaces/mqtt_client.py).                    *)
(*                                                                         *)
(* A query for a key (a job name or a service address) registers a channel *)
(* under the key, publishes a request and waits at most five seconds.  The *)
(* handler of the answers sends an answer to the channels of every key the *)
(* answer mentions and clears these keys.  A message may be lost: its      *)
(* publication may fail unnoticed, and the broker forgets what is sent to  *)
(* a client that is not connected.  None is delivered twice here.          *)
(*                                                                         *)
(* The cluster handles its messages in one loop, which an exception that   *)
(* the handlers do not catch ends for good; the service manager may be     *)
(* started again.                                                          *)
(*                                                                         *)
(* The cluster's view of the jobs is abstracted to a version, raised by    *)
(* every change, of which the worker is notified.  The broker keeps the    *)
(* order of the messages the cluster sends, answers and notifications.     *)
(***************************************************************************)
EXTENDS Naturals, Sequences

CONSTANTS
    Jobs,       \* job names
    Sips,       \* service and instance addresses
    JobOf,      \* the job an address belongs to
    SipList,    \* per job, the addresses an answer lists, instance by instance
    Requests,   \* calls of tableQueryRequestBlocking
    MaxVersion, \* bound on the changes at the cluster
    Lossy,      \* whether messages may be lost
    None        \* no channel, no answer

ASSUME JobOfAssumption == JobOf \in [Sips -> Jobs]
ASSUME SipListAssumption ==
    /\ SipList \in [Jobs -> Seq(Sips)]
    /\ \A j \in Jobs : \A i \in DOMAIN SipList[j] : JobOf[SipList[j][i]] = j
ASSUME KeysAssumption == Jobs \cap Sips = {}
ASSUME LossyAssumption == Lossy \in BOOLEAN
ASSUME MaxVersionAssumption == MaxVersion \in Nat

VARIABLES
    siprequests, \* the request whose channel is registered under a key
    request,     \* state of the requests
    looping,     \* whether the cluster's MQTT loop runs
    toCluster,   \* messages nodes/<id>/net/tablequery/request
    resolving,   \* the answer the cluster is preparing
    toNode,      \* messages nodes/<id>/net/tablequery/result and
                 \* jobs/<name>/updates_available
    dispatching, \* the answer the worker's handler is working on
    version,     \* the cluster's view of the jobs
    known,       \* the last version the worker was notified of
    lost         \* history: the keys of which a request or answer was lost
                 \* on its way or with the cluster's loop

node == <<siprequests, request, dispatching, known>>
cluster == <<looping, toCluster, resolving, version>>
vars == <<node, cluster, toNode, lost>>

Keys == Jobs \cup Sips
JobOfKey(k) == IF k \in Jobs THEN k ELSE JobOf[k]

\* An answer: the key that was asked for, the keys it mentions in the order
\* the worker's handler goes through them (the job's name, the key, and with
\* every instance the addresses of the service, so that keys repeat), and the
\* version it shows.
Answers == [key : Keys, querykeys : Seq(Keys), version : 0 .. MaxVersion]

ASSUME NoneAssumption == None \notin Requests \cup Keys \cup Answers

NewRequest == [pc |-> "new", key |-> None, asked |-> 0, channel |-> None]

Init ==
    /\ siprequests = [k \in Keys |-> None]
    /\ request = [r \in Requests |-> NewRequest]
    /\ looping = TRUE
    /\ toCluster = <<>>
    /\ resolving = None
    /\ toNode = <<>>
    /\ dispatching = None
    /\ version = 0
    /\ known = 0
    /\ lost = {}

\* What a queue of messages may be after m was sent.
Sent(queue, m) ==
    {Append(queue, m)} \cup (IF Lossy THEN {queue} ELSE {})

-----------------------------------------------------------------------------
(* The worker's requests.                                                   *)

\* Faulty variant: a query under way is not noticed.
UnaskedAlways(k) == TRUE

\* No query for the key is under way.
Unasked(k) == siprequests[k] = None

\* tableQueryRequestBlocking up to the unlock.  The first early return, for
\* a registered interest, leaves no trace and is no step.
Register(r, k) ==
    /\ request[r].pc = "new"
    /\ Unasked(k)
    /\ siprequests' = [siprequests EXCEPT ![k] = r]
    /\ request' = [request EXCEPT ![r] =
          [pc |-> "registered", key |-> k, asked |-> known, channel |-> None]]
    /\ UNCHANGED <<cluster, toNode, dispatching, known, lost>>

\* "Table query already happening for this address".
Refuse(r, k) ==
    /\ request[r].pc = "new"
    /\ ~Unasked(k)
    /\ request' = [request EXCEPT ![r].pc = "refused", ![r].key = k]
    /\ UNCHANGED <<siprequests, cluster, toNode, dispatching, known, lost>>

\* PublishToBroker, whose failures are ignored.  Without its loop the cluster's
\* client is gone, and the broker sends it nothing.
Publish(r) ==
    /\ request[r].pc = "registered"
    /\ request' = [request EXCEPT ![r].pc = "waiting"]
    /\ toCluster' \in IF looping THEN Sent(toCluster, request[r].key) ELSE {toCluster}
    /\ lost' = IF toCluster' = toCluster THEN lost \cup {request[r].key} ELSE lost
    /\ UNCHANGED <<siprequests, looping, resolving, version, toNode, dispatching, known>>

\* The two cases of the select.  A request that times out leaves its channel
\* registered.
Receive(r) ==
    /\ request[r].pc = "waiting"
    /\ request[r].channel # None
    /\ request' = [request EXCEPT ![r].pc = "answered"]
    /\ UNCHANGED <<siprequests, cluster, toNode, dispatching, known, lost>>

\* Faulty variant: only an answered request ends.
TimeoutNever(r) ==
    /\ request[r].pc = "waiting"
    /\ request[r].channel # None
    /\ request' = [request EXCEPT ![r].pc = "timed out"]
    /\ UNCHANGED <<siprequests, cluster, toNode, dispatching, known, lost>>

Timeout(r) ==
    /\ request[r].pc = "waiting"
    /\ request' = [request EXCEPT ![r].pc = "timed out"]
    /\ UNCHANGED <<siprequests, cluster, toNode, dispatching, known, lost>>

-----------------------------------------------------------------------------
(* The cluster: _tablequery_handler.                                        *)

\* The keys an answer to a query for k mentions.  If the resolution fails, the
\* answer has the name that was asked for, or none; there may be no instance.
QueryKeys(k) ==
    LET j == JobOfKey(k)
    IN  {<<j, k>>, <<j, k>> \o SipList[j]} \cup {<<s>> : s \in {k} \cap Sips}

\* The resolution.  An exception of it is caught, and answered without
\* instances.
Resolve ==
    /\ toCluster # <<>>
    /\ resolving = None
    /\ toCluster' = Tail(toCluster)
    /\ \E qk \in QueryKeys(Head(toCluster)) :
          resolving' = [key |-> Head(toCluster), querykeys |-> qk,
                        version |-> version]
    /\ UNCHANGED <<node, looping, version, toNode, lost>>

\* The interest is noted, and the instances formatted and published.
Respond ==
    /\ resolving # None
    /\ resolving' = None
    /\ toNode' \in Sent(toNode, resolving)
    /\ lost' = IF toNode' = toNode THEN lost \cup {resolving.key} ELSE lost
    /\ UNCHANGED <<node, looping, toCluster, version>>

\* The queries that the cluster has yet to answer.
Unserved == {toCluster[i] : i \in DOMAIN toCluster}
            \cup (IF resolving = None THEN {} ELSE {resolving.key})

\* Nobody catches the exceptions of add_interest and of the formatting (a
\* document found by an address may have no list), nor those of some handlers
\* of other messages: the loop ends, and answers nobody.
LoopEnds ==
    /\ looping
    /\ looping' = FALSE
    /\ toCluster' = <<>>
    /\ resolving' = None
    /\ lost' = lost \cup Unserved
    /\ UNCHANGED <<node, version, toNode>>

\* The service manager is started again; it gets what is sent from now on.
Restart ==
    /\ ~looping
    /\ looping' = TRUE
    /\ UNCHANGED <<node, toCluster, resolving, version, toNode, lost>>

\* An instance is deployed, moved or undeployed and the workers with an
\* interest are notified (mqtt_notify_service_change), as far as there is a
\* loop that sends what other threads publish.
Notification(v) == [key |-> None, querykeys |-> <<>>, version |-> v]

Change ==
    /\ version < MaxVersion
    /\ version' = version + 1
    /\ toNode' \in IF looping THEN Sent(toNode, Notification(version + 1)) ELSE {toNode}
    /\ UNCHANGED <<node, looping, toCluster, resolving, lost>>

-----------------------------------------------------------------------------
(* The worker's handler of the answers: TablequeryResultMqttHandler.  The   *)
(* table of the requests is locked for one key at a time.                  *)

\* The handler of a notification only starts a refresh: see Register.
HandleNotification ==
    /\ toNode # <<>>
    /\ dispatching = None
    /\ Head(toNode).key = None
    /\ toNode' = Tail(toNode)
    /\ known' = Head(toNode).version
    /\ UNCHANGED <<siprequests, request, dispatching, cluster, lost>>

HandleResult ==
    /\ toNode # <<>>
    /\ Head(toNode).key # None
    /\ dispatching = None
    /\ toNode' = Tail(toNode)
    /\ dispatching' = [answer |-> Head(toNode), left |-> Head(toNode).querykeys]
    /\ UNCHANGED <<siprequests, request, known, cluster, lost>>

\* One key is done; after the last one the handler returns.
NextKey ==
    dispatching' = IF Len(dispatching.left) = 1 THEN None
                   ELSE [dispatching EXCEPT !.left = Tail(@)]

\* Faulty variant: whoever waits is served, under whatever key.
ServedAny(k) ==
    [r \in Requests |-> IF \E j \in Keys : siprequests[j] = r
        THEN [request[r] EXCEPT !.channel = dispatching.answer] ELSE request[r]]

\* The request whose channel is registered under key k gets the answer.
Served(k) ==
    [r \in Requests |-> IF siprequests[k] = r
        THEN [request[r] EXCEPT !.channel = dispatching.answer] ELSE request[r]]

\* Faulty variant: the key is not cleared.
ClearedNot(k) == siprequests

Cleared(k) == [siprequests EXCEPT ![k] = None]

\* One iteration of the loop over querykeys.
NotifyKey ==
    /\ dispatching # None
    /\ request' = Served(Head(dispatching.left))
    /\ siprequests' = Cleared(Head(dispatching.left))
    /\ NextKey
    /\ UNCHANGED <<known, cluster, toNode, lost>>

-----------------------------------------------------------------------------
Next ==
    \/ \E r \in Requests, k \in Keys : Register(r, k) \/ Refuse(r, k)
    \/ \E r \in Requests : Publish(r) \/ Receive(r) \/ Timeout(r)
    \/ Resolve \/ Respond \/ LoopEnds \/ Restart \/ Change
    \/ HandleNotification \/ HandleResult \/ NotifyKey

Spec == Init /\ [][Next]_vars

\* What has begun goes on: goroutines run, timers expire, the broker and the
\* cluster's loop work, unless an exception ends the loop.  Nobody has to ask,
\* nothing has to change, and the cluster need not be started again.
FairSpec ==
    /\ Spec
    /\ \A r \in Requests : WF_vars(Publish(r)) /\ WF_vars(Receive(r) \/ Timeout(r))
    /\ WF_vars(Resolve) /\ WF_vars(Respond)
    /\ WF_vars(HandleNotification \/ HandleResult) /\ WF_vars(NotifyKey)

-----------------------------------------------------------------------------
(* Properties.                                                              *)

\* The type invariant: a key has one waiting request at most, and what travels
\* between node and cluster are queries, answers and notifications.
TypeOK ==
    /\ siprequests \in [Keys -> Requests \cup {None}]
    /\ request \in [Requests ->
          [pc : {"new", "refused", "registered", "waiting", "answered", "timed out"},
           key : Keys \cup {None}, asked : 0 .. MaxVersion,
           channel : Answers \cup {None}]]
    /\ looping \in BOOLEAN
    /\ toCluster \in Seq(Keys)
    /\ resolving \in Answers \cup {None}
    /\ toNode \in Seq(Answers \cup {Notification(v) : v \in 0 .. MaxVersion})
    /\ dispatching \in [answer : Answers, left : Seq(Keys)] \cup {None}
    /\ version \in 0 .. MaxVersion
    /\ known \in 0 .. version
    /\ lost \subseteq Keys

Waiting(r) == request[r].pc \in {"registered", "waiting"} /\ request[r].channel = None

\* Until an answer is sent to its channel, a waiting request stays registered
\* under its key: no other request, answer or timeout takes its place, so
\* that the answer will find it.
WaiterStaysRegistered ==
    \A r \in Requests : Waiting(r) => siprequests[request[r].key] = r

\* A request that is answered got the answer to a question about the job it
\* asked about, although the handler serves requests by the addresses an
\* answer happens to mention.
AnswerIsAboutTheKey ==
    \A r \in Requests : request[r].pc = "answered" =>
       JobOfKey(request[r].channel.key) = JobOfKey(request[r].key)

\* "The call is blocking and awaits the response for a maximum of 5 seconds":
\* every call returns, whatever is lost.
CallsReturn ==
    \A r \in Requests : request[r].pc = "registered" ~>
                           request[r].pc \in {"answered", "timed out"}

\* A key under which a query was made can be queried again, unless a request
\* or an answer about it was lost on its way, or with the loop of the cluster
\* that an exception ended (_tablequery_handler catches but those of the
\* resolution).  An answer that comes after the time-out releases its key, and
\* so does an answer about another key that mentions it.
OnlyLossBlocksKeys ==
    \A k \in Keys : siprequests[k] # None ~> (siprequests[k] = None \/ k \in lost)

\* "waiting for maximum 5 seconds the mqtt handler to receive a response.
\* Otherwise fail the tableQuery": the query fails and is over, so its key can
\* be queried again some time, whatever was lost.
KeysAreReleased ==
    \A k \in Keys : siprequests[k] # None ~> siprequests[k] = None

\* A refresh is made because something changed ("Used in case of incoming
\* updates notification"): the answer a request gets is not older than the
\* last change the worker had been notified of when it asked.
AnswerIsFresh ==
    \A r \in Requests : request[r].pc = "answered" =>
       request[r].channel.version >= request[r].asked

=============================================================================
