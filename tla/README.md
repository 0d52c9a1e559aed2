# A TLA+ development of the Oakestra network component

Oakestra-net gives containers that run on many worker nodes, in several
clusters, a common address space. Three programs do it together:

* the **root service manager** (`root-service-manager`, Python, Flask, MongoDB)
  owns the address pools and the truth about services and their instances;
* a **cluster service manager** per cluster (`cluster-service-manager`, Python,
  HTTP and MQTT, MongoDB) caches the services its workers are interested in;
* a **node net manager** per worker (`node-net-manager`, Go) attaches
  containers, translates their packets and tunnels them to other workers.

This directory holds TLA+ modules of the parts with state and concurrency, TLC
configurations for small instances, and proofs checked by TLAPS. `PROJECT.json`
is the machine-readable index: components, runs, mutants, the map from
definitions to source lines, findings, hazards and theorems.

Paths below are relative to `src/`; `N/`, `C/` and `R/` stand for
`node-net-manager/`, `cluster-service-manager/service-manager/` and
`root-service-manager/service-manager/`.

## 1. The system

### Node net manager

| Part | State | Operations | What is hard |
|---|---|---|---|
| Proxy cache, `N/proxy/proxyCache.go` | per source port a ring of conversions, next index, last use | `Add`, two lookups, eviction job | the ring wraps; an entry is found by destination port alone on write and by more on read; eviction races with traffic |
| Proxy tunnel, `N/proxy/ProxyTunnel.go` | two channels, connection buffer, the cache | outgoing goroutine (search, convert, look up, choose, locate, forward), ingoing goroutine, UDP reader | each step reads shared state that others change; the two goroutines are linked by a bounded channel |
| Packets, `N/proxy/iputils` | none | decode, defragment, serialise | fragments, cut headers, empty messages, ports of no transport |
| Translation table, `N/TableEntryCache` | a slice of entries | `Add` with its validation, `RemoveByNsip`, `RemoveByJobName`, searches | removal while iterating over the slice; refreshes that remove and add in two critical sections |
| Containers and unikernels, `N/env`, `N/handlers`, `N/network/Nat.go` | address counters and caches, deployed services, veth numbers, NAT rules, a task queue; pairs and namespaces on the host | deploy (executor goroutine), undeploy (HTTP goroutines), per runtime | unlocked address caches, failures half way, a process that dies and a host that remembers |
| Table query client, `N/mqtt/Tablequery.go` | waiting channel per key | query, answer handler, timeout | lost, late and shared answers |
| Interests, `N/mqtt/MqttJobUpdates.go`, `N/events` | list of handlers, topics, event channels | register, self-destruct timer, update callback, emit, connect handler | dismantling in several steps beside registration; reconnection while topics change |
| Registration and start-up, `N/server/server.go`, `N/mqtt/NetworkManagementHandlers.go`, `N/proxy/ProxySetup.go`, `N/network` | worker id, MQTT client, TUN device, bridge, firewall chain, environment, serving stage | `/register`, subnetwork request | concurrent calls, time-outs, `log.Fatal`, restarts, late answers |
| CLI, logging | – | – | not modelled (section 7) |

### Cluster service manager

Its state is the Mongo collection of jobs (service, instance list, interested
workers) and of nodes. Three kinds of threads act on it with no lock: the MQTT
loop (`C/interfaces/mqtt_client.py`), the HTTP server (`C/service_manager.py`,
no monkey patching, so requests are served one at a time), and one thread per
update of an instance (`C/operations/instances_management.py`). An operation is
several Mongo calls, and only each call is atomic.

### Root service manager

Its state is the jobs and clusters collections and the address pools
(`R/interfaces/mongodb_requests.py`, `R/network/subnetwork_management.py`).
Requests are served one at a time; a deployment notifies the clusters
interested in the service (`R/network/routes_interests.py`), each with a
time-out of two seconds.

### Interactions

* Worker to cluster (MQTT): subnetwork request, table query, interest removal,
  deployment report. Cluster to worker (MQTT): answers and "this service
  changed". Messages may be lost and answers may be late.
* Cluster to root (HTTP, no time-out): table query (which also registers the
  cluster's interest), interest removal, subnetwork, deployment status.
* Root to cluster (HTTP, two seconds): instance deployed or undeployed.
* Inside a worker: goroutines share the translation table, the proxy cache, the
  list of interests and the address caches.

## 2. The modules

| Module | Models | State and actions |
|---|---|---|
| `ProxyCache` | proxy conversion cache | `conversionList`, `nextEntry`, `idle` (age of the last use); `Add`, `RetrieveByServiceIP`, `RetrieveByInstanceIp`, `EvictOldEntries`, `Tick` |
| `Packets` | decoding and writing packets | operators only: what `decodePacket`, the defragmenters and `packetToByte` make of a kind of packet |
| `ProxyTunnel` | both proxy goroutines, the UDP reader, the table writers | `ProxyCache`, the table, the packet in hand with its step, `incomingChannel`, `connectionBuffer`; one action per step between two accesses to shared state |
| `TranslationTable` | the table and its removal loop | one action per iteration of the loop, so that its index arithmetic is visible |
| `NetworkAttachment` | deployment and undeployment of containers and unikernels | address counters and caches per family, deployed services, veth numbers, queue; on the host NAT rules, pairs and namespaces; a program counter per goroutine; the death and restart of the process |
| `TableQuery` | the query client and the cluster's answers | key to waiting request, messages on both ways, versions of the instance list; the cluster's loop, which an uncaught exception ends |
| `RouteSync` | how the routes of a job follow the cluster's list | entries per instance, the cluster's list version, queries, answers and updates on their way, the goroutines that refresh, miss and deploy, the interest and its timer, the undeployments, which take entries out |
| `JobInterest` | the interest of a node in one job | handler list, topic, event channel, timers, executor, undeployer, the proxy's goroutine, the connection with its connect handler |
| `NodeRegistration` | `/register` and all it sets up, the subnetwork request, the cluster's handler | per node the network manager (worker id, client, TUN device, channel, stage, life) and the host (bridge, chain, jumps, masquerading), per call a program counter |
| `ClusterJobs` | the cluster's cache of one job and the root's side of it | the Mongo document, root's job and interest, a program counter per thread |
| `AddressAllocator` | abstract: an address has at most one holder | `Allocate`, `GiveBack` |
| `SubnetPool`, `SubnetPoolV6` | the root's subnetworks for nodes, per family | counter, free cache, holders; each refines `AddressAllocator` |
| `Subnetworks` | the request that takes one block of each family | both pools |
| `ServiceAddresses` | the root's service addresses and jobs | per pool a counter and a free cache, the jobs, the addresses users asked for; every request of the root that touches them |
| `MC…` | instances for TLC | constants, history variables |
| `…Proofs` | theorems | section 6 |

Composition: `ProxyTunnel` extends `ProxyCache` and `Packets`; its steps that use
the cache conjoin the cache's actions.
`SubnetPool` and `SubnetPoolV6` instantiate `AddressAllocator` under the
refinement `held`; `Subnetworks` extends the first and instantiates the second,
because `subnet_request` calls one after the other and the first block is lost
if the second pool raises. `RouteSync` composes what `TranslationTable`,
`TableQuery` and `JobInterest` have in detail, each reduced to what the others
see of it: the table is a number of entries per instance, a query its key and
the version of the answer, the timer its expiry. `NodeRegistration` takes from
`SubnetPool` that the root's subnetworks differ, and stands for the root by a
counter. `ClusterJobs` holds cluster and root together, since each waits for
the other.

What is one step: in Go, the code between two accesses to state that another
goroutine may change, or a whole critical section; in the cluster, one Mongo
call; at the root, one request, because nothing interleaves with it there.

Definitions whose comment begins "Faulty variant" or "A mutant of" model no
code: each is one definition with a plausible bug, and shows that the property
named with it in `PROJECT.json` would notice.

## 3. The runs that pass

One run per component; each line gives what the run shows and the bounds.

* `proxy_cache` (one source port, two clients, four destination ports, ring of
  three): no two slots for one port, reverse and forward lookups agree, only
  quiet lists are evicted and idle ones are released. With more ports than
  slots the index wraps; port 0 is included because an unwritten slot looks
  like it. `MCProxyCache` adds `quiet`, the time without traffic as an observer
  sees it, so that the eviction is not judged by the field it reads.
* `proxy_tunnel` (two clients on the same ports, one talking to two services
  and one to one; four possible table entries, one of which moves a namespace
  address from one service to the other; packets that are fragments, cut off,
  of another transport or impossible to write among them; capacities and
  retries of one): a translated packet goes only to an address that was an
  instance of the service when the table was read, an answer carries the
  service address last used by that flow, and every packet is forwarded or
  dropped. The table may list two entries of one namespace address, since
  `Add` compares nothing. Capacity one makes the full channel and the exhausted
  retry common.
* `translation_table` (up to four entries, two jobs, two addresses): all tables
  with several matches, adjacent ones and one at the end among them.
* `network_attachment` (a container and a unikernel, one undeployer, two
  addresses in each family, three deployments, one failing call of iptables or
  of a tap device, one restart): every address is in exactly one place; the
  ports of what is deployed are open and, at rest, no others but those of which
  a failing iptables call left the rule (`history.rules`: a failed opening keeps
  the rules it has appended, a closing ignores its error); a port leads to an
  address that another service has by now only while an undeployment is about
  to close it; a failure leaves no pair or namespace behind but those named in
  `history`; deployments and undeployments end. The families are exhausted at
  different times, because a unikernel takes no IPv6 address. Every key is a
  service of its own. A pair is named by its service, the next number and a
  hash of the time (`clock`), so that it never has the name of a pair that an
  earlier life or a leak has left. `MaxRestarts` bounds the deaths of the
  process, of which `AttachDies` is the one in the code itself: without a pair
  `cleanup` is given `nil` and dereferences it. The overlap of an undeployment
  with a deployment is allowed, and `history.stale` says when one of them has
  written a slice on the grounds of an outdated copy.
* `table_query` (two jobs, a service address, two requests, one change,
  messages lost): a waiter stays registered, an answer concerns the key it is
  handed to, calls return, and a key stays blocked only if a message about it
  was lost on its way, or with the cluster's loop. The handler of a query
  catches what the resolution raises, and answers then too; what `add_interest`
  and the formatting of the answer raise it does not, nor do some handlers of
  other messages: the loop ends (`LoopEnds`), what waits for it is lost, and
  nothing is answered until the service manager is started again (`Restart`).
  `lost` remembers the keys and is not state of the program. `ClusterJobs` has
  the causes in detail.
* `route_sync` (a list of two containers, then the second of them and a
  unikernel; the first container is deployed here; two refreshers beside the
  proxy and the executor; three misses, deployments, expiries and time-outs in
  all): when nothing is in flight the table has what the cluster lists.
  `excuses` collects why it may not. `"disturbed"`: a refresh was refused or
  timed out, an update was lost, two goroutines stored at once, an older answer
  was stored later, the list changed before the subscription, an undeployment
  took an entry out, or the entries were removed while someone was storing or
  had registered anew. `"overlap"`, two goroutines storing at once, is what two
  entries of one instance need, and `"expired"`, an interest that ended while
  someone was at work, is what routes without an interest need. An undisturbed
  refresh empties `excuses` again, so that the property is not given up for the
  rest of the behaviour. Two refreshers and the other two are enough for every
  pair of storing goroutines to overlap; they are alike, so they are permuted.
* `job_interest` (two timers, two event channels of capacity one): one timer
  per interest, a topic behind every interest and, through reconnections, a
  subscription behind the topic unless `Subscribe` itself has failed on the
  present connection (`unheeded`: nobody looks at its result), no send on a
  closed or full channel. Two timers
  are enough for an old one and a new one; a third could only begin when the
  first has gone. `JobInterestEnds.cfg` adds that dismantling ends.
* `subnet_pool` (two workers; IPv4: two second bytes, a radix of 2, blocks of
  half a byte; IPv6: two prefixes of two blocks): each family runs to
  exhaustion through its carries, at different times; both implement
  `AddressAllocator`.
* `service_addresses` (two names, two ids, two instances; pools of two rows of
  two, one row of three and two blocks of two; users may ask for an IPv4 address
  of the pool and for an IPv6 address beyond it, in two spellings): two users
  have an address only if some user asked for it (`chosen`), and then either in
  two spellings or inside a pool; what is offered is not in use, but for such
  addresses. Both exceptions are needed, as `EveryAddressOwnedOnce` shows in
  section 4. Each pool can be exhausted when another is not, so that requests
  fail between their two addresses. `MaxCopies` bounds how often the cache may
  hold an address that a user asked for and gave back again and again; two
  copies are enough to hand one to two users.
* `cluster_jobs` (two instances, two workers, two update threads, four
  requests, one restart, the root may fail): a worker is listed once; a
  document without instance list has a thread about to fill it; the root
  forgets the cluster only when the cluster has just found nobody interested;
  updates are announced unless the cluster restarts, and HTTP requests end even
  while root and cluster wait for each other. Four requests are a deployment,
  a query, a removal and one more that meets them half way.
* `node_registration` (two nodes, one called in two lives by two calls at a
  time, the other in one by one; broker, root and host unreliable): subnetworks
  of nodes differ; the second serving stage implies that client, proxy, bridge,
  chain and masquerading are there for the node's present subnetwork, whatever
  an earlier life left on the host; no rule of an earlier life is in the chain;
  a node that serves stays so but for a second call already under way; calls
  end. One node that restarts beside one that does not is enough for late
  answers to meet the wrong life and for two nodes to compete for the last
  subnetwork.

Every module has a `TypeOK` (`CacheTypeOK` in `ProxyCache`, `TableTypeOK` in
`TranslationTable`, `ServiceTypeOK` in `ServiceAddresses`), which holds with
the configuration of its run (add it as an `INVARIANT`); no run checks it, since
types say little here. Ten of them are proved (section 6).
`JobInterestEnds.cfg` passes too and is not among the runs of `PROJECT.json`.

`CHECK_DEADLOCK FALSE` appears where the system may really stop: pools are
exhausted, or the bounded number of requests (`MaxRequests`, `MaxEvents`,
`Requests`, `Calls` with `MaxLives`) has been made.

## 4. Where code and comments disagree

Each line below is a statement that a comment, docstring or test
of the repository makes, and TLC's trace shows the code do otherwise. The first
is a run of `PROJECT.json` (`network_attachment_overlap`), which quotes the
line. The others can be run in the same way; the hazards of `PROJECT.json` name
them. Where a configuration lists several statements, TLC stops at the first
that fails; remove it from the configuration to see the next.

| Configuration | Statement | What the trace shows |
|---|---|---|
| `NetworkAttachmentOverlap` | `AddressesDiffer` | an undeployment beside a deployment: two services get one address (unlocked slices, `N/env/EnvironmentManager.go:597`) |
| `NetworkAttachmentClaims` | `RulesLeadHome` | a port opening that fails half way leaves rules for an address that is reused (`N/env/ContainerNetDeployment.go:139`) |
| `NetworkAttachmentClaims` | `UnikernelHasNat` | the tap cannot be attached, `nil` is returned as the error and the unikernel is deployed without NAT (`N/env/UnikernelNetDeployment.go:128-131`) |
| `TableQueryClaims` | `KeysAreReleased` | one lost answer blocks its key for ever (`N/mqtt/Tablequery.go:125`, comment at 120) |
| `TableQueryClaims` | `AnswerIsFresh` | a query made because of an update gets the answer of an older query (`N/mqtt/Tablequery.go:174`, comment at 83) |
| `RouteSyncUnikernel` | `LocalServicesHaveEntries` | the entry of a unikernel deployed here is refused, because it has no IPv6 address (`N/TableEntryCache/serviceTranslationTable.go:210`, docstring at `N/env/EnvironmentManager.go:516`) |
| `ProxyCacheAddDoc` | `AddUpdatesOwnFlowOnly` | `Add` replaces another container's entry: it compares only the destination port (`N/proxy/proxyCache.go:135`, comment at 114) |
| `ProxyTunnelClaims` | `SourceIsTheSender` | a tunnelled packet is shown to come from a service its sender does not belong to (`N/proxy/ProxyTunnel.go:241`, comment at 228) |
| `ProxyTunnelClaims` | `DatagramsArriveIntact` | a fragment is forwarded by itself, its data overwritten by a header of its own (`N/proxy/iputils/v4Packet.go:87`) |
| `ProxyTunnelClaims` | `EmptyIsNotForwarded` | a packet that cannot be written is forwarded as no bytes, of which the other side reads the first (`N/proxy/ProxyTunnel.go:455-459` and 486) |
| `JobInterestClaims` | `RoutesAreCovered` | a query during a dismantling leaves entries no interest covers (`N/env/EnvironmentManager.go:492`, comment at 472) |
| `JobInterestClaims` | `DeployedIsCovered` | a deployment during a dismantling ends without an interest (`N/handlers/deployment.go:118`, comment at 116) |
| `JobInterestUnused` | `UnusedInterestIsRemoved` | a timer's event channel is closed by its predecessor; it then never times out (`N/mqtt/MqttJobUpdates.go:63`, comment at 74) |
| `JobInterestClaims` | `TopicsAreLocked` | the connect handler reads the map of topics while another goroutine writes it (`N/mqtt/MqttMainClient.go:69`) |
| `SubnetworksClaims`, `MCServiceAddressesGiveBack` | `GiveBackAccepted`, `AddressGiveBackAccepted` | addresses before the counter are refused (last byte 192 missing, digits compared as one number, IPv6 blocks not compared; `R/network/subnetwork_management.py:148`, 113 and 287) |
| `SubnetworksClaims` | `LastSubnetIsAvailable` | the last IPv6 block is never handed out (`R/network/subnetwork_management.py:446`, comment at 449) |
| `MCServiceAddressesCustom` | `EveryAddressOwnedOnce` | an address a user asked for is handed out: the owner is looked up by list, stored by string (`R/network/subnetwork_management.py:89`) |
| `MCServiceAddressesSpelling` | `EveryAddressOwnedOnce` | two services choose one IPv6 address in two spellings: the one the user wrote is looked up and stored (`R/network/subnetwork_management.py:189-193`, comment at 184) |
| `MCServiceAddressesAnnounced` | `AnnouncedIsAvailable` | the last address is announced but cannot be allocated (`R/network/subnetwork_management.py:47`) |
| `ClusterJobsClaims` | `OneEntryPerInstance` | find-then-push stores an instance twice (`C/interfaces/mongodb_requests.py:103`) |
| `ClusterJobsClaims` | `CachedListIsComplete` | a job stored again without its instances hides those the root has (`C/interfaces/mongodb_requests.py:98`) |
| `ClusterJobsClaims` | `InterestReachesRoot` | a worker is interested, the root has forgotten the cluster (`C/network/tablequery/interests.py:11`) |
| `ClusterJobsClaims` | `HandlerSurvives` | an interest removal of an unlisted worker ends the MQTT loop (`C/interfaces/mongodb_requests.py:250`) |
| `NodeRegistrationClaims` | `RegisteredIsInitialized` | after a failed first call the retry is answered "already initialized" (`N/server/server.go:155`) |
| `NodeRegistrationClaims` | `RecordIsUsed` | the cluster records a subnetwork the node does not use (`C/interfaces/mqtt_client.py:185`) |
| `NodeRegistrationClaims` | `InitializedOnce` | two calls initialise the node together (`N/server/server.go:131`) |

## 5. Fairness

* Goroutines, threads and MQTT or HTTP loops that are ready to run get to run:
  weak fairness per goroutine (`OutgoingStep`, `MqttStep`, `UpdateStep`, the
  actors of `NetworkAttachment`, …). In `NodeRegistration` it is enough that
  one of a node's goroutines that can go on does.
* Timers fire: weak fairness of the time-out actions (`Timeout`,
  `RootTimeout`, `Tick`, `EvictOldEntries`).
* Strong fairness twice. `ForwardLocally` sends on a bounded channel, and Go
  serves blocked senders in order. `TimerStep` (in `JobInterestEnds.cfg` and
  `JobInterestUnused.cfg` only) needs the event manager's `RWMutex`, which
  keeps later readers from starving a waiting writer.
* Nothing makes requests, packets, deployments, deaths or restarts happen, and
  nothing keeps a lossy broker from losing every message, nor the cluster's
  loop from ending, after which nobody has to start it again. The key of a lost
  answer is therefore not released, while a call still returns by its time-out.
* `job_interest`, `route_sync`, `translation_table`, `subnet_pool` and
  `service_addresses` state no fairness: their properties are of safety.

## 6. What is proved

All proofs are checked by `tlapm` for every value of the constants that meets
the named assumptions, which state what the code's literals satisfy (a ring of
at least one slot, a step that divides the byte, …).

**`ProxyProofs`** has two parts. The first is about `ProxyCache`, whose
specification is called `CacheSpec` so that `ProxyTunnel` can extend it:
`CacheTypeCorrect`, `WrittenPrefixHolds`, `OneSlotPerPortHolds`, `ReverseAgrees`
and the action property `EvictsOnlyQuiet`. No property is inductive alone:
`Add` writes at `nextEntry`, which is a free slot only if the written slots are
a prefix that ends there, and the reverse lookup needs ports to be unique.
`CacheIInv` adds to the types `ListOK`: in every ring an empty slot is at or
after `nextEntry` and followed only by empty ones, and ports of written slots
differ.
The lemma `AddKeepsListOK` carries the argument (overwriting a slot with the
same port, or appending with or without wrap). The eviction needs
`RecordsTheTraffic` besides: for a list in use, what the cache records agrees
with what an observer of the traffic sees.

The second is about `ProxyTunnel`: `TunnelTypeCorrect`,
`TunnelSendsOnlyToInstances` and `TunnelAnswersFollow`, for any traffic, any
table and any capacities. `TunnelIInv` says what each stage of the outgoing
goroutine has established of the packet in hand (`OutOK`), which no other
goroutine can disturb, because the entries found are a copy; and it says of the
cache that every written slot holds the destination of the last packet of its
source address and ports (`RecordsLast`). A hit keeps that because the slot hit
is the only one of its port (`LookupStep`), an `Add` because it writes over the
slot of the port if there is one (`ChooseStep`). Both need `ListOK`, which holds
here because every use the tunnel makes of the cache is a step of `CacheNext`;
for an answer that is so because a slot that matches is written (`HitIsFlow`).

**`RootPoolsProofs`** has two parts. The first is about the subnetworks of
nodes: of the IPv4 pool alone `TypeCorrect`, `OwnedOnce`, `BeforeNext`,
`CounterAdvances` and `Refinement`; of both families behind the request for one
block of each (`RequestSpec`, the specification the run checks)
`RequestOwnedOnce`, `RequestRefinement` and `RefinementV6`. Ownership needs
that the next block has never been handed out, that is, that everything handed
out is before the counter; and that needs the counter's step, with its carries,
to be strictly increasing in the order in which the counter visits the blocks
(`IncreaseAdvances`, `V6Increase`). `IInv` and `V6Inv` are the conjunctions of
types, ownership and that. Refinement shows every step an `Allocate`, a
`GiveBack` or a stutter of `AddressAllocator`; `RequestIsStep` says that a
request takes such a step in each family, or none.

The second is about `ServiceAddresses`, whose specification is called
`ServiceSpec` so that one module can extend both: `ServiceTypeCorrect`,
`ServiceAddressesOwnedOnce` and `ServiceOfferedIsUnused`, for any jobs,
instances and sizes of the three pools, and for any addresses users ask for:
inside the pools or beyond them, in any spelling. The lookup that should
keep used addresses from being handed out compares a list with strings and
finds nothing (`ListsAreNotFound`), so a function returns a cached address or
the one at the counter (`AvailableParts`). What keeps these from having an
owner is `OnePlace`: an address of a pool that nobody has asked for is cached,
and once, or retired, or in use, never two of them, and none of them unless the
counter has passed it.
A request takes at most one address of each pool (`Offered`); `Taking` says
what that does to caches and counters, and `Placing` what is then left to show
of the job documents: an address is retired or used only if it was or was
taken, and never both. `OneUser` says that a stored address has one user unless a user
asked for it inside a pool, and `OneJob` that an id has one document, which a
retired address needs when a document is replaced, loses an instance or is
deleted. `ChosenOrPooled` says that every other address is of a pool and spelled
as the program spells it, so that beyond the pools the lookup does find the
spelling that is asked for; `Remembering`, that an address once asked for stays
an exception for the rest of the behaviour.

**`RouteSyncProofs`** has two parts. The first is about `TranslationTable`,
whose specification is called `TableSpec` so that one module can extend both:
`TableTypeCorrect`, `InRange`, `Exact`. `LoopInv` says
that `elems` is the length of the slice, that what the loop has passed has no
entry of the job, and that every entry of another job is there as often as when
the loop began; that moving the last entry keeps the copies of all but the
removed one is `RemoveByIndexKeepsCopies`. The second is about `RouteSync`: `TypeCorrect`,
`FollowsTheList`, `NoDuplicatesAlone` and `Covered`, for any sequence of lists,
any instances and any number of refreshing goroutines. None is inductive, and
the first speaks of states at rest only; `NothingMissed` says why they are
reached as they should be. While there is no excuse and an interest, either a
refresh for the present list is still to come – an update on its way, a
goroutine that has yet to ask, or one that asked after the last change
(`Updating`) – or what is being stored is that list (`StoresCurrent`: no route
it lacks, and every instance it has is stored or in the hands of a goroutine
that stores). Without an interest nobody refreshes but the executor of a
deployment, there are no routes but those it has stored and those a timer is
about to remove, and what the proxy was given is of the present list or it came
to nothing (`NobodyInterested`). Removals by a timer and by an undeployment are
one argument (`EntriesRemoved`): an excuse is noted, or nobody was storing and
nobody is interested. The hard steps are the two that begin to store:
if the answer is not of the present list, the goroutine asked before the last
change, so the refresh that is to come is another one's (`OthersRefresh`).
`OneStores` adds that without an overlap one goroutine stores at a time and
the entry it is about to add has been removed.

**`TableQueryProofs`** – `TypeCorrect`, `WaiterRegistered`,
`AnsweredAboutTheKey`. The handler deletes the key of every answer from the
map of waiting requests, so a waiter could lose its registration to an answer
about another key. That it does not needs to know what travels: `MessagesOK`
and `DispatchOK` say that an answer names at least one key and only keys of
one job, `RegisteredUnderOwnKey` that the map leads from a key to a request
for it, and `ChannelsOK` that the answer in a request's channel is about the
job of its key. The case split of `HandleResult` and `NotifyKey` is the heart
of it. That the cluster's loop may end asks for nothing of its own: it only
takes messages away (`LoopStep`).

**`NodeRegistrationProofs`** – `TypeCorrect`, `NodesHaveTheirOwn`,
`ServesWhenReady`, `NoRulesOfEarlierLives` and the action property
`ServingNodesStay`. The difficulty is that several registration calls run in a
node at once. `OneCallInCharge`: at most one has created the TUN device and
not yet set the environment, and nobody has set it then. So what that call
prepared on the host (`HostFollowsCall`, one conjunct per stage) is not undone
by another, and is all there when the environment is set (`HostIsReady`). For
the subnetworks, `Given(n)` collects those on their way to a node, in its
buffers or in use, whichever life they were asked for in: `GivenOnce` says
that those of two nodes differ and are before the root's counter. Steps of one
node leave the others alone (`OneNodeSteps`), which reduces every action to
its node.

**`JobInterestProofs`** – `TypeCorrect`, `OneTimer`, `SubscribedWhileAlive`,
`SendsAreSafe`, for any number of timers and other jobs and any capacity.
`removeLocked` overwrites the entry it removes with the last one, so it is
right only while every job is in the slice once (`OnceEach`,
`RemoveKeepsOnce`); `ChargeOK` relates the slice to the timers. `TopicOK`
relates the map of topics to the subscriptions, to the failures nobody heeded
and to what the connect handler has found in the map. `ChannelsOK` follows the
event channels: a closed one belongs to a timer that closed it and is the job's
no longer, and `EmitOK` says that the one `Emit` sends on is the job's, open and
with room.

**`NetworkAttachmentProofs`** – `TypeCorrect`, `AddressesAccounted`,
`PortsStayOpen`, `PortsMatchEntries`, `StrayRulesClosed`, `HostIsClean`. `IInv`
is `TypeOK`, `Flow`, `NamesOld` and, unless `history.stale`, `Order`. `Flow` says
of each goroutine what it has at the point where it is (which families of
addresses are still to come, that its copy of a slice is not empty). `Order` is
about things that must be in one place. Addresses, pairs and namespaces are each free, in an entry, in
the hands of a goroutine, or left behind, and `Exclusive` says so of all three
with one definition. Seven lemmas (`TakeNew`, `LeaveNew`, `Release`,
`GiveBack`, `TakeFree`, `Delete`, `Write`) say which moves keep it, and each
action is shown to be one of them, for each kind of thing. Rules are counted
instead, because a rule is deleted by address and port only: of every rule
there are at least as many as there are entries and goroutines that answer for
one (`RulesCounted`), and exactly as many of a rule that no failure of iptables
has left; so what the ports of one service do at the address of another is
being undone by an undeployment. `NamesOld` says that every pair there is was
named earlier than the next one will be, so that a pair that is made is new.

**`ClusterJobsProofs`** – `WorkersListedOnce`, `ListsAreFilled` and the action
property `ForgottenWhenUnwanted`. All three are about a check in one database
call and a write in another. `MqttOK` says what the MQTT loop still knows: the
worker is not in the list it has read, and before the root is told to forget
the cluster the list is empty. It holds because only this loop writes the
interested workers; all that another thread can do to them is to remove the
whole document (`EraseStep`, `RestartStep`). The remaining actions leave them
alone (`InstanceStep`). Types of instance lists and of the root's job play no
part in the argument and are not proved.

The assumptions on constants beside those of numbers say that a thing that
means "none" is none of the others (`NoneAssumption` of several modules), that
the two runtimes deploy under different names (`RuntimeAssumption`), that an
undeployer is not the executor (`UndeployersAssumption`), nor a refreshing
goroutine the executor or the proxy (`RefreshersAssumption`), that what is
deployed here are instances of the job (`LocalsAssumption`), that a job is not a
service address (`KeysAssumption` of `TableQuery`), that "rr" is no instance
number (`InstancesAssumption` of `ServiceAddresses`), and that there are as many
names for event channels as timers, so that one is always left for a new
channel (`ChannelsAssumption` of `JobInterest`).

Only model-checked: liveness (`IdleListsAreReleased`, `PacketsAreDealtWith`,
`RequestsEnd`, `CallsReturn`, `OnlyLossBlocksKeys`, `DismantlingEnds`,
`DeploymentsAnnounced`, `HttpRequestsEnd`, `CallsEnd`), which is out of this
prover's reach, because `ENABLED` and fairness are.

## 7. What is not modelled, and why

* Byte layout and checksums of packets: `Packets` says which kinds of packet
  are decoded, written and kept whole, not how.
* Reading and writing the TUN device (pure I/O). The goroutine that reads it
  sends its errors to a channel nobody receives from
  (`N/proxy/ProxyTunnel.go:276`); a device that fails is left out.
* Rules that accumulate on the host and that nothing depends on: the FORWARD
  rules of a pair (`setVethFirewallRules`) are appended at every deployment and
  removed by nobody, the INPUT rule of the proxy port at every start.
  `NodeRegistration` has the jumps to the OAKESTRA chain, which is what the
  rules of services need.
* The unlocked read of the map of services in a unikernel's undeployment
  (`N/env/UnikernelNetDeployment.go:210`) is in `NetworkAttachment` as a death
  of the process that may happen, not as a wrong value.
* TLS, the broker's and the paho library's own goroutines. One connect handler
  runs at a time.
* The debug route of the server, `NotifyAddressChange`
  (`N/server/server.go:52`), and the commands of the command line.
* Request validation, tokens, read-only reports, start-up, logging.
* Several clusters at the root, and cluster registration: planned.
* Messages the broker delivers twice: `TableQuery` loses messages and delays
  them, but has none twice.
* Two pairs whose hashes of four characters are the same
  (`N/network/NetUtils.go:52`), which needs a service, a number and a collision.
* Giving back a round-robin IPv6 address: no function of the program does.
  Giving back any other address is modelled, although only tests do it.
* Updates that change an identifier of a job registered again.
* The container address families are symmetric in the proxy; the proxy modules
  have one set of addresses, and `Packets` the version where the code differs.

Read with the models in mind, three more places differ from their comments:
`isValid` (`N/TableEntryCache/serviceTranslationTable.go:162`) accepts names
longer than its comment says and an instance or cluster number of zero; a user
cannot choose the addresses that `get_next_available_ip_v6` announces, because
they are of the instances' pool; and `IptableFlushAll`
(`N/network/Nat.go:30`) deletes jumps from PREROUTING and POSTROUTING where
`EnableForwarding` appends to PREROUTING and OUTPUT.

## 8. Plan

Done: pools and proxy cache (pure cores with proofs), network attachment, table
query, interest, table, tunnel and packets, cluster, registration, route
synchronisation, IPv6 pools.

Every safety property of the passing runs is proved.

Next:

1. Several clusters and cluster registration at the root: an exception in one
   notification ends the rest (`R/network/routes_interests.py:28`).
2. The query client and the interest behind `RouteSync`: that it takes from
   `TableQuery` and `JobInterest` what they promise is argued in section 2 and
   not proved.

## 9. Running

    tlc -config MCProxyCache.cfg MCProxyCache.tla
    tlapm ProxyProofs.tla

A configuration belongs to the module whose name begins its own. Where there is
a module `MC…` it is that one: `MCProxyCache`, `MCProxyTunnel`, `MCTableQuery`,
`MCRouteSync`, `MCNodeRegistration` and `MCServiceAddresses` for
`ProxyTunnel…`, `TableQuery…`, `RouteSync…` and so on; `ProxyCacheAddDoc` is of
the plain module.
