--------------------------- MODULE NodeRegistration ---------------------------
(***************************************************************************)
(* The registration of worker nodes: the endpoint /register of the network *)
(* manager (server/server.go), the request for a subnetwork through the    *)
(* MQTT broker (mqtt/NetworkManagementHandlers.go), the cluster service    *)
(* manager's handler of these requests (interfaces/mqtt_client.py), which  *)
(* takes a subnetwork from the root and records it for the node, and what  *)
(* the network manager then sets up on its host: the TUN device            *)
(* (proxy/ProxySetup.go), the bridge (env/EnvironmentManager.go) and the   *)
(* firewall (network/Nat.go), which outlive it.                            *)
(*                                                                         *)
(* The HTTP server runs every call of /register in a goroutine of its own. *)
(* A network manager that ends (log.Fatal) is started again and knows      *)
(* nothing of its earlier life; messages sent to a node that is not        *)
(* subscribed are dropped by the broker.  The root's pool is abstracted to *)
(* a counter: SubnetPool shows that it never hands out a subnetwork twice. *)
(***************************************************************************)
EXTENDS Naturals, Sequences

CONSTANTS
    Nodes,      \* worker nodes
    Calls,      \* calls of /register
    Callers,    \* per node, those made in one life of its network manager
    MaxSubnets, \* subnetworks of the root (a bound)
    MaxLives,   \* per node, a bound on the lives in which it is called
    Unreliable, \* whether the broker, the root or the host may fail
    AddressGiven, \* nodes whose public address is configured, or in the calls
    Wanted,     \* NetConfig.DefaultInterface, None if it is empty
    RouteLists, \* the default routes of a host at some time, as the interfaces
                \* they lead to (None: it went away)
    None        \* no channel, no subnetwork, no interface

ASSUME BoundsAssumption == MaxSubnets \in Nat /\ MaxLives \in [Nodes -> Nat \ {0}]
ASSUME CallersAssumption == Callers \in [Nodes -> SUBSET Calls]
ASSUME UnreliableAssumption == Unreliable \in BOOLEAN
ASSUME AddressGivenAssumption == AddressGiven \subseteq Nodes
ASSUME NoneAssumption == None \notin Calls \cup Nat

VARIABLES
    node,       \* the network managers
    host,       \* what there is on their hosts
    call,       \* what a call of /register does next
    requests,   \* messages nodes/<id>/net/subnet, per node
    results,    \* messages nodes/<id>/net/subnetwork/result, per node
    record,     \* the subnetwork the cluster's database has for a node
    nextSubnet  \* the root's next subnetwork

vars == <<node, host, call, requests, results, record, nextSubnet>>

clusterVars == <<requests, results, record, nextSubnet>>

Subnets == 1 .. MaxSubnets

\* A network manager that has just started: WorkerID is empty, no client of
\* the broker, no TUN device, no channel for the answer, no environment.
\* buffer is what the channel made by a call holds, blocked the channel and
\* the answer the MQTT handler is about to send.
Started(life) ==
    [life |-> life, registered |-> FALSE, once |-> "no", connected |-> FALSE, subscribed |-> FALSE,
     tun |-> FALSE, listening |-> FALSE, channel |-> None, subnet |-> None, buffer |-> [r \in Calls |-> <<>>], handling |-> <<>>,
     env |-> None, stage |-> "init"]

\* A host: the subnetwork of the bridge, whether the chain OAKESTRA exists, the
\* life in which the rules in it were made (0: there are none), the chains that
\* jump to it and the subnetworks that are masqueraded.
NewHost == [bridge |-> None, chain |-> FALSE, ports |-> 0, jumps |-> {}, masqueraded |-> {}]

Init ==
    /\ node = [n \in Nodes |-> Started(1)]
    /\ host = [n \in Nodes |-> NewHost]
    /\ call = [n \in Nodes |-> [r \in Calls |-> "none"]]
    /\ requests = [n \in Nodes |-> 0]
    /\ results = [n \in Nodes |-> <<>>]
    /\ record = [n \in Nodes |-> None]
    /\ nextSubnet = 1

Goto(n, r, l) == call' = [call EXCEPT ![n][r] = l]

\* Faulty variant: iptables -X alone, which refuses a chain in use.
DeleteChainOnly(h) == IF h.jumps = {} /\ h.ports = 0 THEN [h EXCEPT !.chain = FALSE] ELSE h

\* ClearAndDeleteChain: the rules go, the chain too unless it is jumped to.
DeleteChain(h) == [h EXCEPT !.ports = 0, !.chain = @ /\ h.jumps # {}]

\* What the next life does first.
IptableFlushAll(h) ==
    [DeleteChain(h) EXCEPT !.jumps = @ \ {"PREROUTING", "POSTROUTING"}]

\* The process ends with all its calls (log.Fatal, a panic in a goroutine that
\* does not serve HTTP) and is started again on the host left.
DiesLeaving(n, left) ==
    /\ node' = [node EXCEPT ![n] = Started(node[n].life + 1)]
    /\ host' = [host EXCEPT ![n] = IptableFlushAll(left)]
    /\ call' = [call EXCEPT ![n] = [r \in Calls |-> "none"]]
    /\ results' = [results EXCEPT ![n] = <<>>]
    /\ UNCHANGED <<requests, record, nextSubnet>>

Dies(n) == DiesLeaving(n, host[n])

(***************************************************************************)
(* register                                                                *)
(***************************************************************************)
\* A call arrives and reads WorkerID: a node that has one is taken to be
\* initialized, and the answer is 200.
Arrive(n, r) ==
    /\ r \in Callers[n]
    /\ call[n][r] = "none"
    /\ node[n].life <= MaxLives[n]
    /\ Goto(n, r, IF node[n].registered THEN "ok" ELSE "unregistered")
    /\ UNCHANGED <<node, host, clusterVars>>

\* WorkerID is set only when the node's own address has been found out.
SetWorkerID(n, r) ==
    /\ call[n][r] = "unregistered"
    /\ node' = [node EXCEPT ![n].registered = TRUE]
    /\ Goto(n, r, "connect")
    /\ UNCHANGED <<host, clusterVars>>

\* The call panics and the HTTP server recovers: no answer.
Abort(n, r) ==
    /\ Goto(n, r, "aborted")
    /\ UNCHANGED <<node, host, clusterVars>>

\* GetOutboundIP: without a route the process ends; when the public address
\* cannot be asked for, the missing answer is read all the same.
GetOutboundIPFails(n, r) ==
    /\ Unreliable /\ n \notin AddressGiven
    /\ call[n][r] = "unregistered"
    /\ Dies(n) \/ Abort(n, r)

\* update asks again every two minutes, in a goroutine of its own.
UpdateFails(n) ==
    /\ Unreliable /\ n \notin AddressGiven
    /\ node[n].registered
    /\ Dies(n)

\* InitNetMqttClient runs once; other calls wait for the one that runs it.
InitMqtt(n, r) ==
    /\ call[n][r] = "connect"
    /\ \/ /\ node[n].once = "no"
          /\ node' = [node EXCEPT ![n].once = "running"]
          /\ Goto(n, r, "connecting")
       \/ /\ node[n].once = "done"
          /\ Goto(n, r, "proxy")
          /\ UNCHANGED node
    /\ UNCHANGED <<host, clusterVars>>

Connected(n, r) ==
    /\ call[n][r] = "connecting"
    /\ node' = [node EXCEPT ![n].once = "done", ![n].connected = TRUE]
    /\ Goto(n, r, "proxy")
    /\ UNCHANGED <<host, clusterVars>>

\* The broker cannot be reached: runMqttClient panics, the HTTP server
\* recovers, and sync.Once will not run the function again.
ConnectFails(n, r) ==
    /\ Unreliable
    /\ call[n][r] = "connecting"
    /\ node' = [node EXCEPT ![n].once = "done"]
    /\ Goto(n, r, "aborted")
    /\ UNCHANGED <<host, clusterVars>>

\* connectHandler subscribes in a goroutine of its own.
Subscribe(n) ==
    /\ node[n].connected /\ ~node[n].subscribed
    /\ node' = [node EXCEPT ![n].subscribed = TRUE]
    /\ UNCHANGED <<host, call, clusterVars>>

\* A TUN device of the name exists only once.
TunIsNew(n) == ~node[n].tun

\* createTun.
CreateTun(n, r) ==
    /\ call[n][r] = "proxy"
    /\ TunIsNew(n)
    /\ node' = [node EXCEPT ![n].tun = TRUE]
    /\ Goto(n, r, "listen")
    /\ UNCHANGED <<host, clusterVars>>

CreateTunFails(n, r) ==
    /\ call[n][r] = "proxy"
    /\ ~TunIsNew(n) \/ Unreliable
    /\ Dies(n)

\* Listen: both goroutines of the proxy run, and have no environment yet.
Listen(n, r) ==
    /\ call[n][r] = "listen"
    /\ node' = [node EXCEPT ![n].listening = TRUE]
    /\ Goto(n, r, "request")
    /\ UNCHANGED <<host, clusterVars>>

\* The interface that can be told to be the default one, if any: the one
\* configured if there are several routes, the only one otherwise, which then
\* must be the one configured, if any.
DefaultRoute(routes) ==
    CASE Len(routes) = 1 /\ Wanted \in {None, routes[1]} -> routes[1]
      [] Len(routes) > 1 /\ \E i \in DOMAIN routes : routes[i] = Wanted -> Wanted
      [] OTHER -> None

\* GetLocalIPandIface panics unless there is a default interface.
RouteIsUnclear(n, r) ==
    /\ call[n][r] \in {"listen", "bridge"}
    /\ \E routes \in RouteLists : DefaultRoute(routes) = None
    /\ Abort(n, r)

\* outgoingMessage asks the environment for the route of a packet, which a
\* container of an earlier life may send at any time: without an environment
\* the goroutine panics.
PacketTooEarly(n) ==
    /\ node[n].listening
    /\ node[n].env = None
    /\ Dies(n)

\* RequestSubnetworkMqttBlocking: a channel for the answer, then the request,
\* which is lost if there is no connection.
RequestSubnet(n, r) ==
    /\ call[n][r] = "request"
    /\ node' = [node EXCEPT ![n].channel = r]
    /\ requests' = IF node[n].connected THEN [requests EXCEPT ![n] = @ + 1] ELSE requests
    /\ Goto(n, r, "waiting")
    /\ UNCHANGED <<host, results, record, nextSubnet>>

\* The answer.
Configured(n, r) ==
    /\ call[n][r] = "waiting"
    /\ node[n].buffer[r] # <<>>
    /\ node' = [node EXCEPT ![n].subnet = Head(node[n].buffer[r]), ![n].buffer[r] = <<>>]
    /\ Goto(n, r, "bridge")
    /\ UNCHANGED <<host, clusterVars>>

\* Faulty variant, the docstring's: the bridge that is there is kept.
BridgedOnce(h, subnet) ==
    [h EXCEPT !.bridge = IF @ = None THEN subnet ELSE @]

\* CreateHostBridge: a bridge that is there is destroyed.
Bridged(h, subnet) == [h EXCEPT !.bridge = subnet]

\* EnableForwarding: the chain is made again or at least cleared, and jumped
\* to from the chains of hooked.
Forwarded(h, hooked) ==
    [DeleteChain(h) EXCEPT !.chain = TRUE, !.jumps = @ \cup hooked]

\* EnableMasquerading, for the subnetwork.
Masqueraded(h, subnet) == [h EXCEPT !.masqueraded = @ \cup {subnet}]

Hooks == {"PREROUTING", "OUTPUT"}

\* NewCustom: a command each of these steps runs may fail, which ends the
\* process.
SetUp(n, r, from, to, after) ==
    /\ call[n][r] = from
    /\ host' = [host EXCEPT ![n] = after]
    /\ Goto(n, r, to)
    /\ UNCHANGED <<node, clusterVars>>

CreateHostBridge(n, r) ==
    SetUp(n, r, "bridge", "forwarding", Bridged(host[n], node[n].subnet))
EnableForwarding(n, r) ==
    SetUp(n, r, "forwarding", "masquerading", Forwarded(host[n], Hooks))
EnableMasquerading(n, r) ==
    SetUp(n, r, "masquerading", "environment", Masqueraded(host[n], node[n].subnet))

\* The environment is created and given to the proxy, the call answered, and
\* the first server is shut down.
SetEnvironment(n, r) ==
    /\ call[n][r] = "environment"
    /\ node' = [node EXCEPT ![n].env = node[n].subnet]
    /\ Goto(n, r, "ok")
    /\ UNCHANGED <<host, clusterVars>>

SetUpFails(n, r) ==
    /\ Unreliable
    /\ \/ call[n][r] = "bridge" /\ \E b \in {None, node[n].subnet} :
             DiesLeaving(n, Bridged(host[n], b))
       \/ call[n][r] = "forwarding" /\ \E hooked \in SUBSET Hooks :
             DiesLeaving(n, Forwarded(host[n], hooked))

\* Faulty variant: the request waits for ever.
TimeoutNever(n, r) == FALSE /\ UNCHANGED vars

\* Ten seconds without an answer: the environment cannot be created.
Timeout(n, r) ==
    /\ call[n][r] = "waiting"
    /\ node[n].buffer[r] = <<>>
    /\ Dies(n)

\* Faulty variant: the first server is shut down when the proxy listens.
MayServeListening(n) == node[n].listening

\* The call that shuts the first server down has set the environment.
MayServe(n) == node[n].env # None

\* HandleRequests goes on to the server that takes deployments.
ServeMain(n) ==
    /\ node[n].stage = "init"
    /\ MayServe(n)
    /\ node' = [node EXCEPT ![n].stage = "main"]
    /\ UNCHANGED <<host, call, clusterVars>>

\* A deployment opens ports (NetworkAttachment has the detail).
OpenPorts(n) ==
    /\ node[n].stage = "main"
    /\ host' = [host EXCEPT ![n].ports = node[n].life]
    /\ UNCHANGED <<node, call, clusterVars>>

(***************************************************************************)
(* subnetworkAssignmentMqttHandler                                         *)
(***************************************************************************)
\* The handler takes an answer and the channel of that moment.
Deliver(n) ==
    /\ node[n].subscribed
    /\ node[n].handling = <<>>
    /\ results[n] # <<>>
    /\ node' = [node EXCEPT ![n].handling = <<[channel |-> node[n].channel, subnet |-> Head(results[n])]>>]
    /\ results' = [results EXCEPT ![n] = Tail(@)]
    /\ UNCHANGED <<host, call, requests, record, nextSubnet>>

\* The send succeeds when the channel has room; it blocks for ever on a
\* channel that was not made yet.
Send(n) ==
    /\ node[n].handling # <<>>
    /\ LET m == Head(node[n].handling) IN
       /\ m.channel # None
       /\ node[n].buffer[m.channel] = <<>>
       /\ node' = [node EXCEPT ![n].buffer[m.channel] = <<m.subnet>>, ![n].handling = <<>>]
    /\ UNCHANGED <<host, call, clusterVars>>

(***************************************************************************)
(* _subnet_handler of the cluster service manager                          *)
(***************************************************************************)
\* Faulty variant: the answer goes to every node.
RecipientsAll(n) == Nodes

\* The topic nodes/<id>/net/subnetwork/result is that of one node.
Recipients(n) == {n}

Publish(n, s) ==
    results' = [m \in Nodes |-> IF m \in Recipients(n) /\ node[m].subscribed
                                THEN Append(results[m], s) ELSE results[m]]

\* A subnetwork is taken from the root, recorded and published.
SubnetHandler(n) ==
    /\ requests[n] > 0
    /\ requests' = [requests EXCEPT ![n] = @ - 1]
    /\ nextSubnet \in Subnets
    /\ nextSubnet' = nextSubnet + 1
    /\ record' = [record EXCEPT ![n] = nextSubnet]
    /\ Publish(n, nextSubnet)
    /\ UNCHANGED <<node, host, call>>

\* The root has no subnetwork or cannot be reached, or the broker loses the
\* request: no answer.
SubnetFails(n) ==
    /\ requests[n] > 0
    /\ nextSubnet \notin Subnets \/ Unreliable
    /\ requests' = [requests EXCEPT ![n] = @ - 1]
    /\ UNCHANGED <<node, host, call, results, record, nextSubnet>>

\* The broker delivers a request again (quality of service 1).
SubnetAgain(n) ==
    /\ Unreliable
    /\ requests[n] = 1
    /\ nextSubnet \in Subnets
    /\ nextSubnet' = nextSubnet + 1
    /\ record' = [record EXCEPT ![n] = nextSubnet]
    /\ Publish(n, nextSubnet)
    /\ UNCHANGED <<node, host, call, requests>>

-----------------------------------------------------------------------------
RegisterStep(n, r) ==
    \/ SetWorkerID(n, r)
    \/ GetOutboundIPFails(n, r)
    \/ InitMqtt(n, r)
    \/ Connected(n, r)
    \/ ConnectFails(n, r)
    \/ CreateTun(n, r)
    \/ CreateTunFails(n, r)
    \/ Listen(n, r)
    \/ RouteIsUnclear(n, r)
    \/ RequestSubnet(n, r)
    \/ Configured(n, r)
    \/ CreateHostBridge(n, r)
    \/ EnableForwarding(n, r)
    \/ EnableMasquerading(n, r)
    \/ SetEnvironment(n, r)
    \/ SetUpFails(n, r)
    \/ Timeout(n, r)

NodeStep(n) ==
    Subscribe(n) \/ ServeMain(n) \/ Deliver(n) \/ Send(n) \/ OpenPorts(n)
    \/ PacketTooEarly(n) \/ UpdateFails(n)

ClusterStep(n) == SubnetHandler(n) \/ SubnetFails(n) \/ SubnetAgain(n)

Next ==
    \E n \in Nodes :
        \/ \E r \in Calls : Arrive(n, r) \/ RegisterStep(n, r)
        \/ NodeStep(n)
        \/ ClusterStep(n)

Spec == Init /\ [][Next]_vars

\* The scheduler of a network manager runs one of the goroutines of register
\* that can go on; they have finitely many steps, so that none has to be
\* favoured.  Nothing is assumed of the cluster, the broker or the callers.
FairSpec ==
    /\ Spec
    /\ \A n \in Nodes : WF_vars(\E r \in Calls : RegisterStep(n, r))

-----------------------------------------------------------------------------
\* What a network manager and a host may be; a channel holds one answer at most
\* (make(chan mqttSubnetworkResponse, 1)).
NodeStates ==
    [life : Nat, registered : BOOLEAN, once : {"no", "running", "done"},
     connected : BOOLEAN, subscribed : BOOLEAN, tun : BOOLEAN, listening : BOOLEAN,
     channel : Calls \cup {None}, subnet : Subnets \cup {None},
     buffer : [Calls -> {<<>>} \cup {<<s>> : s \in Subnets}],
     handling : {<<>>} \cup {<<m>> : m \in [channel : Calls \cup {None}, subnet : Subnets]},
     env : Subnets \cup {None}, stage : {"init", "main"}]

HostStates ==
    [bridge : Subnets \cup {None}, chain : BOOLEAN, ports : Nat, jumps : SUBSET Hooks,
     masqueraded : SUBSET Subnets]

\* The type invariant of the network managers, their calls and the messages.
TypeOK ==
    /\ node \in [Nodes -> NodeStates]
    /\ host \in [Nodes -> HostStates]
    /\ \A n \in Nodes : node[n].life \in 1 .. MaxLives[n] + 1
    /\ call \in [Nodes -> [Calls -> {"none", "unregistered", "connect", "connecting", "proxy", "listen",
                                     "request", "waiting", "bridge", "forwarding", "masquerading",
                                     "environment", "ok", "aborted"}]]
    /\ requests \in [Nodes -> Nat]
    /\ results \in [Nodes -> Seq(Subnets)]
    /\ record \in [Nodes -> Subnets \cup {None}]
    /\ nextSubnet \in 1 .. MaxSubnets + 1

\* No two nodes configure the same subnetwork, whatever requests are repeated
\* and whatever late answers reach a network manager that was restarted.
SubnetsDisjoint ==
    \A n, m \in Nodes : node[n].env # None /\ node[n].env = node[m].env => n = m

\* The server that takes deployments runs only on a node whose host is set up
\* for its subnetwork, whatever earlier lives left there and wherever they
\* ended: the proxy listens, the client is subscribed, the bridge has the
\* subnetwork's addresses, and the chain exists and is jumped to.
ServingMeansReady ==
    \A n \in Nodes : node[n].stage = "main" =>
        /\ node[n].env # None /\ node[n].listening /\ node[n].subscribed
        /\ host[n].bridge = node[n].env
        /\ host[n].chain /\ host[n].jumps = Hooks
        /\ node[n].env \in host[n].masqueraded

\* A node that serves has no DNAT rules of an earlier life, whose addresses it
\* no longer knows (EnableForwarding clears the chain).
NoOldRules ==
    \A n \in Nodes : node[n].stage = "main" => host[n].ports \in {0, node[n].life}

\* Once a node serves, nothing of the registration ends its process but a
\* second call that had passed the check before the first set WorkerID and
\* cannot create the TUN device again: no late answer, no time-out and no
\* early packet.  (A node that has to find out its address may end whenever it
\* looks for it.)
ServingNodeStays ==
    [][\A n \in AddressGiven : node[n].stage = "main" /\ node'[n].life # node[n].life =>
          \E r \in Calls : call[n][r] = "proxy"]_vars

\* The calls of /register are answered, or fail with their process, also when
\* no answer of the cluster ever comes: callers that keep calling for a while
\* come to a moment at which no call of theirs is pending.
CallsEnd ==
    \A n \in Nodes :
        (\E r \in Calls : call[n][r] = "unregistered") ~>
            \A r \in Calls : call[n][r] \in {"none", "ok", "aborted"}

\* "Node already initialized": a node that answers so is initialized, or about
\* to be.
RegisteredIsInitialized ==
    \A n \in Nodes :
        (\E r \in Calls : call[n][r] = "ok") =>
            node[n].env # None \/ \E r \in Calls : call[n][r] \notin {"none", "ok", "aborted"}

\* The subnetwork the cluster records for a node is the one the node uses,
\* once no message is on its way.
RecordIsUsed ==
    \A n \in Nodes :
        node[n].env # None /\ requests[n] = 0 /\ results[n] = <<>> /\ node[n].handling = <<>>
            => record[n] = node[n].env

\* "drop the request if the node is already initialized": no two calls
\* initialize the same node.
InitializedOnce ==
    \A n \in Nodes : \A r, q \in Calls :
        {call[n][r], call[n][q]} \subseteq {"connect", "connecting", "proxy", "listen", "request", "waiting", "bridge"}
            => r = q

=============================================================================
