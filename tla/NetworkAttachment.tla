------------------------- MODULE NetworkAttachment --------------------------
(***************************************************************************)
(* Network attachment of containers and unikernels on a worker: the task   *)
(* queue and its executor (handlers/deployment.go), DeployNetwork and the  *)
(* undeployments of both runtimes (env/ContainerNetDeployment.go,          *)
(* env/UnikernelNetDeployment.go), the local address pools and the veth    *)
(* pairs (env/EnvironmentManager.go) and the DNAT rules (network/Nat.go).  *)
(*                                                                         *)
(* Deployments are run one after the other by one goroutine, undeployments *)
(* by the goroutine of their HTTP request.  The map deployedServices is    *)
(* locked (but for the read of a unikernel's undeployment, which may kill  *)
(* the process); the address caches are not: taking an address and giving  *)
(* one back are a read of the slice and a later write of the new slice.    *)
(*                                                                         *)
(* The process may die, by a veth pair that cannot be created or for any   *)
(* other reason.  Its state is lost, the interfaces and namespaces of the  *)
(* host are not.  The name of a veth pair is made from the service, a      *)
(* number and a hash of the time (NameUniqueHash), so that no two pairs    *)
(* have the same; that two hashes of four characters may collide is left   *)
(* out.                                                                    *)
(*                                                                         *)
(* The translation table and the interests, which both handlers also       *)
(* touch, are the subject of RouteSync and JobInterest.                    *)
(***************************************************************************)
EXTENDS Naturals, Sequences, FiniteSets

CONSTANTS
    Containers,     \* "sname.instance" of the containers
    Unikernels,     \* "sname.instance.instance" of the unikernels
    Undeployers,    \* goroutines that may serve an undeployment
    LimitV4,        \* 62, the largest host number of a /26 a service gets
    LimitV6,        \* 255, the same for the /120 of IPv6
    MaxRequests,    \* bound on the deployments that are requested
    MaxPortFaults,  \* bound on the failures of iptables
    MaxRestarts,    \* bound on the deaths of the process
    NoAddr,         \* an address that has not been generated
    NoService,      \* no entry in deployedServices
    BadName         \* a service name that has not four parts

ASSUME LimitAssumption == LimitV4 \in Nat \ {0} /\ LimitV6 \in Nat \ {0}
ASSUME RuntimeAssumption == Containers \cap Unikernels = {} /\ BadName \notin Containers \cup Unikernels
ASSUME BoundAssumption ==
    MaxRequests \in Nat /\ MaxPortFaults \in Nat /\ MaxRestarts \in Nat

VARIABLES
    totNextAddr,     \* per family, the number of the last address generated
    addrCache,       \* per family, the addresses given back, oldest first
    deployedServices,\* per key, the addresses of the service and
                     \* what was set up for it
    nextVethNumber,  \* the number in the name of the next veth pair
    rules,           \* how many DNAT rules lead from a key's ports to an address
    veths,           \* the host's veth pairs: a key, and a number and a time
    spaces,          \* the named network namespaces of the host
    clock,           \* what time.Now() gives: later each time it matters
    queue,           \* the deployments waiting for the executor
    actor,           \* the goroutines
    requests,        \* deployments requested, bounded
    faults,          \* failures of iptables, bounded
    restarts,        \* deaths of the process, bounded
    history          \* what went wrong so far (not state of the program)

program == <<totNextAddr, addrCache, deployedServices, nextVethNumber, queue>>
host == <<rules, veths, spaces, clock>>
bounds == <<requests, faults, restarts>>
vars == <<program, host, actor, bounds, history>>

-----------------------------------------------------------------------------
Families == {"v4", "v6"}
Limit == [f \in Families |-> IF f = "v4" THEN LimitV4 ELSE LimitV6]

\* Host numbers: 1 is the bridge; NextIPv4 and NextIPv6 add one.
HostNumbers(f) == 2 .. Limit[f]
nextContainerIP(f) == totNextAddr[f] + 1

Keys == Containers \cup Unikernels
Rules == UNION {{f} \X HostNumbers(f) \X Keys : f \in Families}

\* The addresses a runtime's DeployNetwork generates: a unikernel has no IPv6.
FamiliesOf(k) == IF k \in Containers THEN <<"v4", "v6">> ELSE <<"v4">>

\* The calls that set the service's namespace up, each of which may fail.
addPeerLinkNetwork(f) == <<"address", f>>
addPeerLinkNetworkByNsName == <<"address", "v4">>
disableDAD == <<"no duplicate address detection", "v6">>
setContainerRoutes == <<"route", "v4">>
setIPv6ContainerRoutes == <<"route", "v6">>
setVethFirewallRules == <<"forward", "v4">>

\* Within a unikernel's namespace: the bridge with its address and the tap
\* device, then the default route and the NAT rules.
bridgeAndTap == <<<<"bridge", "v4">>, <<"tap", "v4">>>>
routeAndNat == <<<<"route", "v4">>, <<"nat", "v4">>>>

\* GetNetDeployment: what each runtime's DeployNetwork calls, in this order.
CallsOf(k) ==
    IF k \in Containers
       THEN <<addPeerLinkNetwork("v4"), disableDAD, addPeerLinkNetwork("v6"),
              setContainerRoutes, setIPv6ContainerRoutes, setVethFirewallRules>>
       ELSE <<addPeerLinkNetworkByNsName>> \o bridgeAndTap \o routeAndNat
              \o <<setVethFirewallRules>>

Done(calls) == {calls[i] : i \in DOMAIN calls}

\* service, an entry of deployedServices; one that is read is never mistaken
\* for none.
Services == [ip : [Families -> Nat \cup {NoAddr}], veth : Nat \X Nat,
             config : SUBSET UNION {Done(CallsOf(k)) : k \in Keys}]

ASSUME NoneAssumption ==
    NoService \notin Services /\ \A f \in Families : NoAddr \notin HostNumbers(f)

Executor == "taskExecutor"
Actors == {Executor} \cup Undeployers

ASSUME UndeployersAssumption == Executor \notin Undeployers /\ IsFiniteSet(Undeployers)

NoIP == [f \in Families |-> NoAddr]

\* A goroutine: where it is, the key it works for, the entry it makes or has
\* read, the families it has yet to deal with and the slice it read last.
Idle == [pc |-> "idle", key |-> NoService,
         entry |-> [ip |-> NoIP, veth |-> <<0, 0>>, config |-> {}],
         todo |-> <<>>, slice |-> <<>>]

\* What cannot be seen in the state: the addresses and veth pairs of entries
\* that were overwritten, pairs, namespaces and rules no one will remove, and
\* whether someone wrote on the grounds of a copy that was out of date.
NoHistory == [addrs |-> {}, veths |-> {}, spaces |-> {}, rules |-> {}, stale |-> FALSE]

Init ==
    /\ totNextAddr = [f \in Families |-> 1]
    /\ addrCache = [f \in Families |-> <<>>]
    /\ deployedServices = [k \in Keys |-> NoService]
    /\ nextVethNumber = 0
    /\ queue = <<>>
    /\ actor = [a \in Actors |-> Idle]
    /\ rules = [r \in Rules |-> 0]
    /\ veths = {}
    /\ spaces = {}
    /\ clock = 0
    /\ requests = 0
    /\ faults = 0
    /\ restarts = 0
    /\ history = NoHistory

At(a, pc) == actor[a].pc = pc
Key(a) == actor[a].key
Fam(a) == Head(actor[a].todo)
Deployed(k) == deployedServices[k] # NoService

\* Actor a goes to pc with the families todo.
Goto(a, pc, todo) ==
    actor' = [actor EXCEPT ![a].pc = pc, ![a].todo = todo]

\* Actor a is done with the first family of todo and goes to the next one, or
\* to pc after the last.
NextFamily(a, pc) ==
    IF Len(actor[a].todo) > 1 THEN Goto(a, actor[a].pc, Tail(actor[a].todo))
                              ELSE Goto(a, pc, FamiliesOf(Key(a)))

\* The name of the executor's pair.
Pair == <<Key(Executor), actor[Executor].entry.veth>>

-----------------------------------------------------------------------------
(* Death and restart of the process: NewCustom on a host that keeps what    *)
(* the process before left there, but for the OAKESTRA chain, which         *)
(* EnableForwarding clears.  left: the pairs on the host.                   *)

ChainCleared == [r \in Rules |-> 0]

Dies(left) ==
    /\ totNextAddr' = [f \in Families |-> 1]
    /\ addrCache' = [f \in Families |-> <<>>]
    /\ deployedServices' = [k \in Keys |-> NoService]
    /\ nextVethNumber' = 0
    /\ queue' = <<>>
    /\ actor' = [a \in Actors |-> Idle]
    /\ rules' = ChainCleared
    /\ veths' = left
    /\ clock' = clock + 1
    /\ history' = [NoHistory EXCEPT !.veths = left, !.spaces = spaces]
    /\ UNCHANGED <<spaces, requests, faults>>

MayDie == restarts < MaxRestarts /\ restarts' = restarts + 1

Crash == MayDie /\ Dies(veths)

-----------------------------------------------------------------------------
(* Giving addresses back: freeContainerAddress, which sorts them by family. *)

FreeRead(a) ==
    /\ At(a, "free")
    /\ actor' = [actor EXCEPT ![a].pc = "freeing", ![a].slice = addrCache[Fam(a)]]
    /\ UNCHANGED <<program, host, bounds, history>>

\* The new slice is stored, on the grounds of the slice read before.
Store(a, cache) ==
    /\ addrCache' = [addrCache EXCEPT ![Fam(a)] = cache]
    /\ history' = [history EXCEPT !.stale = @ \/ actor[a].slice # addrCache[Fam(a)]]
    /\ UNCHANGED <<totNextAddr, deployedServices, nextVethNumber, queue, host, bounds>>

\* Faulty variants: the ports stay open; the error is sent to a channel nobody
\* receives from.
AfterFreeOpen(a) == IF a = Executor THEN "answer" ELSE "unlink"
AfterFreeBlocked(a) == IF a = Executor THEN "blocked" ELSE "close"

\* What follows the last address: the error is reported, or the ports of the
\* undeployed service are closed.
AfterFree(a) == IF a = Executor THEN "answer" ELSE "close"

FreeWrite(a) ==
    /\ At(a, "freeing")
    /\ Store(a, Append(actor[a].slice, actor[a].entry.ip[Fam(a)]))
    /\ IF Len(actor[a].todo) > 1
          THEN Goto(a, "free", Tail(actor[a].todo))
          ELSE Goto(a, AfterFree(a), FamiliesOf(Key(a)))

-----------------------------------------------------------------------------
(* Deployment.                                                              *)

\* NewTask blocks while the channel is full, and blocked senders are served in
\* order: the queue needs no bound.
NewTask(k) ==
    /\ requests < MaxRequests
    /\ requests' = requests + 1
    /\ queue' = Append(queue, k)
    /\ UNCHANGED <<totNextAddr, addrCache, deployedServices, nextVethNumber, host, actor,
                   faults, restarts, history>>

\* The handlers of /container/deploy and /unikernel/deploy.  A body that is not
\* JSON ends the first; the second answers 400 and goes on, without a name.
containerDeploy == \E k \in Containers \cup {BadName} : NewTask(k)
CreateUnikernelNamesapce == \E k \in Unikernels \cup {BadName} : NewTask(k)

\* The executor takes a task; deploymentHandler refuses a name that has not
\* four parts.
TakeTask ==
    /\ At(Executor, "idle")
    /\ queue # <<>>
    /\ queue' = Tail(queue)
    /\ actor' = [actor EXCEPT ![Executor] = [Idle EXCEPT !.key = Head(queue),
          !.pc = IF Head(queue) = BadName THEN "answer" ELSE "attach"]]
    /\ UNCHANGED <<totNextAddr, addrCache, deployedServices, nextVethNumber, host, bounds,
                   history>>

\* The name createVethsPairAndAttachToBridge gives: the number and the hash.
NameUniqueHash == <<nextVethNumber, clock>>
NewPair == <<Key(Executor), NameUniqueHash>>

\* It returns no pair when it fails, before or after the pair is made, and the
\* cleanup dereferences nil: the process dies.
AttachDies ==
    /\ At(Executor, "attach")
    /\ MayDie
    /\ \E left \in {veths, veths \cup {NewPair}} : Dies(left)

\* ip netns add: the namespace of the name must be new.
NamespaceIsNew(k) == k \in Unikernels => k \notin spaces

\* The pair is there, its peer in the namespace of the service.
Attach ==
    /\ At(Executor, "attach")
    /\ NamespaceIsNew(Key(Executor))
    /\ veths' = veths \cup {NewPair}
    /\ clock' = clock + 1
    /\ spaces' = spaces \cup ({Key(Executor)} \cap Unikernels)
    /\ actor' = [actor EXCEPT ![Executor].pc = "generate",
                              ![Executor].entry.veth = NameUniqueHash,
                              ![Executor].todo = FamiliesOf(Key(Executor))]
    /\ UNCHANGED <<program, rules, bounds, history>>

\* The peer is not found, cannot be moved, or the namespace not be made: the
\* pair is deleted, and a namespace that is new.  Nothing is left.
AttachFails ==
    /\ At(Executor, "attach")
    /\ Goto(Executor, "answer", <<>>)
    /\ UNCHANGED <<program, host, bounds, history>>

\* The new namespace cannot be opened (GetFromName): nothing is cleaned up.
AttachLeaks ==
    /\ At(Executor, "attach")
    /\ Key(Executor) \in Unikernels \ spaces
    /\ veths' = veths \cup {NewPair}
    /\ clock' = clock + 1
    /\ spaces' = spaces \cup {Key(Executor)}
    /\ history' = [history EXCEPT !.veths = @ \cup {NewPair},
                                 !.spaces = @ \cup {Key(Executor)}]
    /\ Goto(Executor, "answer", <<>>)
    /\ UNCHANGED <<program, rules, bounds>>

\* Faulty variant: the function assigned to cleanup at first, for the pair only.
CleanUpPair(k) == veths' = veths \ {Pair} /\ UNCHANGED <<spaces, clock>>

\* cleanup, once there is a namespace.
CleanUp(k) == veths' = veths \ {Pair} /\ spaces' = spaces \ {k} /\ UNCHANGED clock

\* generateAddress and generateIPv6Address: the head of the cache, ...
GenerateRead ==
    /\ At(Executor, "generate")
    /\ addrCache[Fam(Executor)] # <<>>
    /\ actor' = [actor EXCEPT ![Executor].pc = "popping",
                              ![Executor].slice = addrCache[Fam(Executor)]]
    /\ UNCHANGED <<program, host, bounds, history>>

\* The address x goes into the executor's hands.
Generated(x) ==
    LET all  == FamiliesOf(Key(Executor))
        more == Len(actor[Executor].todo) > 1
    IN  actor' = [actor EXCEPT ![Executor].entry.ip[Fam(Executor)] = x,
            ![Executor].slice = <<>>,
            ![Executor].pc = IF more THEN "generate" ELSE "configure",
            ![Executor].todo = IF more THEN Tail(@) ELSE all]

GeneratePop ==
    /\ At(Executor, "popping")
    /\ Store(Executor, Tail(actor[Executor].slice))
    /\ Generated(Head(actor[Executor].slice))

MayCount(f) == totNextAddr[f] < Limit[f]

\* ... or the counter, ...
GenerateNext ==
    /\ At(Executor, "generate")
    /\ addrCache[Fam(Executor)] = <<>>
    /\ MayCount(Fam(Executor))
    /\ Generated(nextContainerIP(Fam(Executor)))
    /\ totNextAddr' = [totNextAddr EXCEPT ![Fam(Executor)] = @ + 1]
    /\ UNCHANGED <<addrCache, deployedServices, nextVethNumber, queue, host, bounds, history>>

\* ... or an error; without an IPv6 address the IPv4 address is given back.
GenerateExhausted ==
    /\ At(Executor, "generate")
    /\ addrCache[Fam(Executor)] = <<>>
    /\ ~MayCount(Fam(Executor))
    /\ CleanUp(Key(Executor))
    /\ IF Fam(Executor) = "v4" THEN Goto(Executor, "answer", <<>>)
                               ELSE Goto(Executor, "free", <<"v4">>)
    /\ UNCHANGED <<program, rules, bounds, history>>

\* Faulty variant: the IPv6 address is forgotten.
GivenBackV4(k) == <<"v4">>

\* What is given back when a later step fails.
GivenBack(k) == FamiliesOf(k)

BookVethNumber == nextVethNumber' = nextVethNumber + 1

Configured(done) ==
    /\ actor' = [actor EXCEPT ![Executor].pc = "open",
                              ![Executor].entry.config = done]
    /\ BookVethNumber
    /\ UNCHANGED <<totNextAddr, addrCache, deployedServices, queue>>

Configure ==
    /\ At(Executor, "configure")
    /\ Configured(Done(CallsOf(Key(Executor))))
    /\ UNCHANGED <<host, bounds, history>>

\* Any of the calls fails, the last one after the number was booked; the
\* addresses are given back.
ConfigureFails ==
    /\ At(Executor, "configure")
    /\ CleanUp(Key(Executor))
    /\ Goto(Executor, "free", GivenBack(Key(Executor)))
    /\ UNCHANGED nextVethNumber \/ BookVethNumber
    /\ UNCHANGED <<totNextAddr, addrCache, deployedServices, queue, rules, bounds, history>>

\* The tap device cannot be attached to the bridge: the function returns an
\* error variable that is nil, before the route and the NAT rules.
ConfigureHalf ==
    /\ At(Executor, "configure")
    /\ Key(Executor) \in Unikernels
    /\ faults < MaxPortFaults
    /\ faults' = faults + 1
    /\ Configured(Done(CallsOf(Key(Executor))) \ Done(routeAndNat))
    /\ UNCHANGED <<host, requests, restarts, history>>

Rule(a) == <<Fam(a), actor[a].entry.ip[Fam(a)], Key(a)>>

Appended(r, n) == [rules EXCEPT ![r] = @ + n]

\* ManageContainerPorts(OpenPorts) for one family.
OpenPorts ==
    /\ At(Executor, "open")
    /\ rules' = Appended(Rule(Executor), 1)
    /\ NextFamily(Executor, "register")
    /\ UNCHANGED <<program, veths, spaces, clock, bounds, history>>

\* The rules of the families the executor has dealt with.
Opened == {<<f, actor[Executor].entry.ip[f], Key(Executor)>> :
             f \in Done(FamiliesOf(Key(Executor))) \ Done(actor[Executor].todo)}

\* It stops at the first mapping that is invalid or that it cannot install;
\* the rules of the mappings before, if any, and of the family before remain.
OpenPortsFails ==
    /\ At(Executor, "open")
    /\ faults < MaxPortFaults
    /\ faults' = faults + 1
    /\ \E installed \in {0, 1} :
          /\ rules' = Appended(Rule(Executor), installed)
          /\ history' = [history EXCEPT !.rules =
                @ \cup Opened \cup (IF installed = 0 THEN {} ELSE {Rule(Executor)})]
    /\ CleanUp(Key(Executor))
    /\ Goto(Executor, "free", GivenBack(Key(Executor)))
    /\ UNCHANGED <<program, requests, restarts>>

Held(s) == IF s = NoService THEN {}
           ELSE {<<f, s.ip[f]>> : f \in {g \in Families : s.ip[g] # NoAddr}}

\* The pair an entry has.
PairOf(k) == IF Deployed(k) THEN {<<k, deployedServices[k].veth>>} ELSE {}

\* The entry; then NotifyDeploymentStatus, whose publication cannot fail.
Register ==
    /\ At(Executor, "register")
    /\ deployedServices' = [deployedServices EXCEPT ![Key(Executor)] = actor[Executor].entry]
    /\ history' = [history EXCEPT
          !.addrs = @ \cup Held(deployedServices[Key(Executor)]),
          !.veths = @ \cup PairOf(Key(Executor))]
    /\ Goto(Executor, "answer", <<>>)
    /\ UNCHANGED <<totNextAddr, addrCache, nextVethNumber, queue, host, bounds>>

\* task.Finish: the handler always waits for it.
Answer ==
    /\ At(Executor, "answer")
    /\ actor' = [actor EXCEPT ![Executor] = Idle]
    /\ UNCHANGED <<program, host, bounds, history>>

-----------------------------------------------------------------------------
(* Undeployment: DetachContainer and DeleteUnikernelNamespace.  A key that  *)
(* is not deployed is no step.                                              *)

\* The entry is read ...
ReadEntry(u, k) ==
    /\ At(u, "idle")
    /\ Deployed(k)
    /\ actor' = [actor EXCEPT ![u] = [Idle EXCEPT
          !.pc = "delete", !.key = k, !.entry = deployedServices[k]]]
    /\ UNCHANGED <<program, host, bounds, history>>

DetachContainer(u) == \E k \in Containers : ReadEntry(u, k)

\* A body that is not JSON does not end this handler: it has no name then, and
\* nothing is deployed under it.
DeleteUnikernelNamespace(u) == \E k \in Unikernels : ReadEntry(u, k)

\* ... and deleted, whatever it is by now.
DetachDelete(u) ==
    /\ At(u, "delete")
    /\ deployedServices' = [deployedServices EXCEPT ![Key(u)] = NoService]
    /\ history' = [history EXCEPT !.stale =
          @ \/ deployedServices[Key(u)] # actor[u].entry]
    /\ Goto(u, "free", FamiliesOf(Key(u)))
    /\ UNCHANGED <<totNextAddr, addrCache, nextVethNumber, queue, host, bounds>>

\* Faulty variant: the chain is flushed.
ClosedAll(r) == [q \in Rules |-> IF q[1] = r[1] THEN 0 ELSE rules[q]]

\* ManageContainerPorts(ClosePorts): one rule is deleted, if there is one.
Closed(r) == [rules EXCEPT ![r] = IF @ = 0 THEN 0 ELSE @ - 1]

ClosePorts(u) ==
    /\ At(u, "close")
    /\ rules' = Closed(Rule(u))
    /\ NextFamily(u, "unlink")
    /\ UNCHANGED <<program, veths, spaces, clock, bounds, history>>

\* It stops at the first rule that it cannot delete, and nobody looks at the
\* error: the rule remains, or some of the rules of several mappings.
ClosePortsFails(u) ==
    /\ At(u, "close")
    /\ faults < MaxPortFaults
    /\ faults' = faults + 1
    /\ history' = [history EXCEPT !.rules = @ \cup {Rule(u)}]
    /\ NextFamily(u, "unlink")
    /\ UNCHANGED <<program, host, requests, restarts>>

\* The pair and, for a unikernel, the namespace of the name are deleted.
Unlink(u) ==
    /\ At(u, "unlink")
    /\ veths' = veths \ {<<Key(u), actor[u].entry.veth>>}
    /\ spaces' = spaces \ {Key(u)}
    /\ actor' = [actor EXCEPT ![u] = Idle]
    /\ UNCHANGED <<program, rules, clock, bounds, history>>

-----------------------------------------------------------------------------
Step(a) ==
    \/ FreeRead(a)
    \/ FreeWrite(a)
    \/ /\ a = Executor
       /\ \/ TakeTask
          \/ Attach \/ AttachFails \/ AttachLeaks
          \/ GenerateRead \/ GeneratePop \/ GenerateNext \/ GenerateExhausted
          \/ Configure \/ ConfigureFails \/ ConfigureHalf
          \/ OpenPorts \/ OpenPortsFails
          \/ Register
          \/ Answer
    \/ /\ a \in Undeployers
       /\ DetachDelete(a) \/ ClosePorts(a) \/ ClosePortsFails(a) \/ Unlink(a)

Next ==
    \/ containerDeploy \/ CreateUnikernelNamesapce
    \/ \E u \in Undeployers : DetachContainer(u) \/ DeleteUnikernelNamespace(u)
    \/ \E a \in Actors : Step(a)
    \/ AttachDies
    \/ Crash

Spec == Init /\ [][Next]_vars

\* Goroutines are scheduled fairly; the client need not ask for anything, and
\* the process need not die.
FairSpec == Spec /\ \A a \in Actors : WF_vars(Step(a))

-----------------------------------------------------------------------------
(* Properties.                                                              *)

\* What a goroutine may have in hand.
Goroutines == [pc : {"idle", "attach", "generate", "popping", "configure", "open", "register",
                     "answer", "free", "freeing", "delete", "close", "unlink"},
               key : Keys \cup {NoService, BadName},
               entry : Services,
               todo : {<<>>, <<"v4">>, <<"v6">>, <<"v4", "v6">>},
               slice : Seq(Nat)]

\* What may have happened.
Histories == [addrs : SUBSET (Families \X Nat), veths : SUBSET (Keys \X (Nat \X Nat)),
              spaces : SUBSET Unikernels, rules : SUBSET Rules, stale : BOOLEAN]

\* The type invariant: the counters, the address caches, the entries, the
\* goroutines and what is on the host are what the handlers of both runtimes
\* store.
TypeOK ==
    /\ totNextAddr \in [Families -> Nat]
    /\ \A f \in Families : totNextAddr[f] \in 1 .. Limit[f]
    /\ addrCache \in [Families -> Seq(Nat)]
    /\ \A f \in Families : addrCache[f] \in Seq(HostNumbers(f))
    /\ deployedServices \in [Keys -> Services \cup {NoService}]
    /\ nextVethNumber \in Nat
    /\ rules \in [Rules -> Nat]
    /\ veths \subseteq Keys \X (Nat \X Nat)
    /\ spaces \subseteq Unikernels
    /\ clock \in Nat
    /\ queue \in Seq(Keys \cup {BadName})
    /\ actor \in [Actors -> Goroutines]
    /\ requests \in Nat /\ faults \in Nat /\ restarts \in Nat
    /\ history \in Histories

\* The places where an address may be: the cache, an entry, the hands of the
\* executor before it registers the service, the hands of whoever is about to
\* give it back.
InHands(a, f) ==
    /\ actor[a].entry.ip[f] # NoAddr
    /\ \/ \E pc \in {"generate", "popping", "configure", "open", "register"} :
             At(a, pc)
       \/ (At(a, "free") \/ At(a, "freeing"))
             /\ \E i \in DOMAIN actor[a].todo : actor[a].todo[i] = f

Places(f, x) ==
    {<<"cache", i>> : i \in {j \in DOMAIN addrCache[f] : addrCache[f][j] = x}}
    \cup {<<"deployed", k>> : k \in {j \in Keys : <<f, x>> \in Held(deployedServices[j])}}
    \cup {<<"hands", a>> : a \in {b \in Actors : InHands(b, f) /\ actor[b].entry.ip[f] = x}}
    \cup {<<"overwritten", 0>> : l \in history.addrs \cap {<<f, x>>}}

\* Every address the counter has passed is in exactly one place: it is free,
\* or one service has it, and no error path of either runtime loses it.  Only
\* a goroutine that wrote on the grounds of an outdated copy can break this:
\* the comment on addrCache, "Cache used to store the free addresses available
\* for new containers".
AddressAccounting ==
    ~history.stale => \A f \in Families : \A x \in 2 .. totNextAddr[f] :
                         Cardinality(Places(f, x)) = 1

\* Two services never have the same address.
AddressesDiffer ==
    \A k, l \in Keys : k # l =>
       Held(deployedServices[k]) \cap Held(deployedServices[l]) = {}

\* The ports of a deployed service lead to it, although rules are deleted by
\* address and port only and addresses are free before the rules are gone.
DeployedPortsOpen ==
    ~history.stale => \A k \in Keys : \A h \in Held(deployedServices[k]) :
                         rules[<<h[1], h[2], k>>] > 0

\* ManageContainerPorts, "open or close container port with the nat rules":
\* the ports of one service never lead to another.
RulesLeadHome ==
    \A k, l \in Keys : k # l => \A h \in Held(deployedServices[k]) :
       rules[<<h[1], h[2], l>>] = 0

\* Nobody is at work.
Quiet == \A a \in Actors : At(a, "idle")

\* When nobody is at work, there is one rule for each address of a deployed
\* service, and no other but those of an entry that was overwritten and those
\* that a failure of iptables left: of the mappings a failed deployment had
\* opened, or that an undeployment could not close.
PortsFollowEntries ==
    Quiet /\ ~history.stale =>
       \A r \in Rules : <<r[1], r[2]>> \notin history.addrs /\ r \notin history.rules =>
          rules[r] = IF <<r[1], r[2]>> \in Held(deployedServices[r[3]]) THEN 1 ELSE 0

\* An undeployment that will close the rule r.
Closes(u, r) ==
    /\ \E pc \in {"free", "freeing", "close"} : At(u, pc)
    /\ r = <<r[1], actor[u].entry.ip[r[1]], Key(u)>>
    /\ At(u, "close") => r[1] \in Done(actor[u].todo)

\* The addresses of a service are free before the rules to them are closed, and
\* another service may get one: its address is then led to by ports of the
\* first only while the undeployment of the first is still at work, or if a
\* failure of iptables left the rule.
StrayRulesAreBeingClosed ==
    ~history.stale =>
       \A k, l \in Keys : \A h \in Held(deployedServices[k]) \ history.addrs :
          LET r == <<h[1], h[2], l>>
          IN  k # l /\ rules[r] > 0 /\ r \notin history.rules
                => \E u \in Undeployers : Closes(u, r)

\* When nobody is at work, the host has the pairs and the namespaces of the
\* deployed services (a refused second deployment does not take the namespace
\* of the first), and otherwise only what is known to be left: by an
\* earlier process, an overwritten entry or a namespace that did not open.
NothingLeftBehind ==
    Quiet /\ ~history.stale =>
       /\ veths = history.veths \cup UNION {PairOf(k) : k \in Keys}
       /\ spaces = history.spaces \cup {k \in Unikernels : Deployed(k)}

\* "Set NAT for Unikernel": a deployed unikernel has its rules.
UnikernelHasNat == \A k \in Unikernels : Deployed(k) => <<"nat", "v4">> \in deployedServices[k].config

\* Whoever begins a deployment or an undeployment ends it, whatever fails,
\* unless the process dies.
RequestsEnd == \A a \in Actors : ~At(a, "idle") ~> At(a, "idle")

=============================================================================
