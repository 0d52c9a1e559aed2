------------------------------ MODULE RouteSync ------------------------------
(***************************************************************************)
(* How a worker keeps the routes of one job: the composition of its        *)
(* translation table, the table queries, the updates the cluster publishes *)
(* and the interest in the job.                                            *)
(*                                                                         *)
(* The goroutines that fill the table are those of RefreshServiceTable,    *)
(* one per update (mqtt/MqttJobUpdates.go), the task executor after a      *)
(* deployment (handlers/deployment.go) and the proxy's outgoing goroutine  *)
(* when it misses a route (GetTableEntryByServiceIP).  The timer of the    *)
(* interest empties it, and an undeployment (DetachContainer,              *)
(* DeleteUnikernelNamespace) takes the instance's own entry out of it.     *)
(* TranslationTable has the detail of the table, TableQuery that of the    *)
(* queries and their losses, JobInterest that of the timers and of the     *)
(* subscriptions; here the table is the number of its entries per          *)
(* instance, and the cluster's list has a version.                         *)
(***************************************************************************)
EXTENDS Naturals, Sequences, FiniteSets

CONSTANTS
    Nsips,      \* namespace addresses of the job's instances
    Lists,      \* per version, the instances an answer lists
    Reported,   \* what the cluster knows of an instance
    Locals,     \* the instances this worker is asked to deploy
    Refreshers, \* goroutines of RefreshServiceTable that may live at a time
    MaxEvents,  \* bound on misses, deployments, expiries and time-outs together
    None        \* nobody, no answer

ASSUME ListsAssumption == Lists \in Seq(Seq(Nsips)) /\ Lists # <<>>
ASSUME ReportedAssumption == Nsips \subseteq DOMAIN Reported
ASSUME LocalsAssumption == Locals \subseteq Nsips
ASSUME EventsAssumption == MaxEvents \in Nat
ASSUME RefreshersAssumption == Refreshers \cap {"outgoingChannel", "taskExecutor"} = {}

VARIABLES
    routes,    \* the translation table: how many entries an instance has
    version,   \* the cluster's list
    queries,   \* messages nodes/<id>/net/tablequery/request: the keys
    resolving, \* the answer the cluster is preparing
    toNode,    \* the answers and the updates on their way to the worker
    siprequests, \* per key, the goroutine whose channel is registered
    goroutine, \* the goroutines that fill the table
    interest,  \* the job is in runningHandlers and its topic is subscribed
    sipInterest, \* the same for the address the proxy asks for
    timer,     \* startSelfDestructTimeout of the job's interest
    deployed,  \* the instances of the job that are in deployedServices
    undeployer, \* per instance, the goroutine that undeploys it
    events,    \* how many of these there were
    newest,    \* history: the newest version anyone began to store
    excuses    \* history: why the table may differ from the cluster's list

cluster == <<version, queries, resolving>>
worker == <<interest, sipInterest, timer,
                   deployed, undeployer, events>>
vars == <<routes, cluster, toNode, siprequests, goroutine, worker, newest, excuses>>

-----------------------------------------------------------------------------
Proxy == "outgoingChannel"
Executor == "taskExecutor"
Goroutines == Refreshers \cup {Proxy, Executor}

\* A table query is made for the job's name or for an address.
QueryKeys == {"name", "sip"}
KeyOf(g) == IF g = Proxy THEN "sip" ELSE "name"

Update == [key |-> None, version |-> 0]
Idle == [pc |-> "idle", asked |-> 0, answer |-> None, left |-> <<>>]
NoRoutes == [n \in Nsips |-> 0]

Init ==
    /\ routes = NoRoutes
    /\ version = 1
    /\ queries = <<>>
    /\ resolving = None
    /\ toNode = <<>>
    /\ siprequests = [k \in QueryKeys |-> None]
    /\ goroutine = [g \in Goroutines |-> Idle]
    /\ interest = FALSE
    /\ sipInterest = FALSE
    /\ timer = "idle"
    /\ deployed = {}
    /\ undeployer = [n \in Locals |-> "idle"]
    /\ events = 0
    /\ newest = 0
    /\ excuses = {}

At(g, pc) == goroutine[g].pc = pc
Goto(g, pc) == goroutine' = [goroutine EXCEPT ![g].pc = pc]
Active == {g \in Goroutines : ~At(g, "idle")}
Storing == {g \in Goroutines : At(g, "remove") \/ At(g, "add")}

Excused(S) == excuses' = excuses \cup S

-----------------------------------------------------------------------------
(* The cluster: its list changes, and its workers with an interest are      *)
(* told; queries are resolved and answered (_tablequery_handler).           *)

\* The update is lost when the broker has no connection to the worker, or no
\* subscription, as the worker does not look at whether its Subscribe worked.
Change ==
    /\ version < Len(Lists)
    /\ version' = version + 1
    /\ \/ interest /\ toNode' = Append(toNode, Update) /\ UNCHANGED excuses
       \/ interest /\ UNCHANGED toNode /\ Excused({"disturbed"})
       \/ ~interest /\ UNCHANGED toNode
             /\ Excused(IF Active # {} THEN {"disturbed"} ELSE {})
    /\ UNCHANGED <<routes, queries, resolving, siprequests, goroutine, worker, newest>>

Resolve ==
    /\ queries # <<>>
    /\ resolving = None
    /\ queries' = Tail(queries)
    /\ resolving' = [key |-> Head(queries), version |-> version]
    /\ UNCHANGED <<routes, version, toNode, siprequests, goroutine, worker, newest, excuses>>

Respond ==
    /\ resolving # None
    /\ toNode' = Append(toNode, resolving)
    /\ resolving' = None
    /\ UNCHANGED <<routes, version, queries, siprequests, goroutine, worker, newest, excuses>>

-----------------------------------------------------------------------------
(* The worker's MQTT handlers.                                              *)

\* MessageHandler: a refresh in a goroutine of its own.  A topic that is no
\* longer subscribed has no handler.
HandleUpdate ==
    /\ toNode # <<>> /\ Head(toNode) = Update
    /\ toNode' = Tail(toNode)
    /\ IF interest
          THEN \E r \in Refreshers : At(r, "idle") /\ Goto(r, "ask")
          ELSE UNCHANGED goroutine
    /\ UNCHANGED <<routes, cluster, siprequests, worker, newest, excuses>>

\* The keys an answer may mention: the job's name, the key it was asked for,
\* and, if an instance that is listed has it, the address.
Mentions(a) ==
    {{"name", a.key}} \cup (IF Lists[a.version] # <<>> THEN {QueryKeys} ELSE {})

\* TablequeryResultMqttHandler.
HandleResult ==
    /\ toNode # <<>> /\ Head(toNode) # Update
    /\ toNode' = Tail(toNode)
    /\ \E mentioned \in Mentions(Head(toNode)) :
          /\ LET served == {siprequests[k] : k \in mentioned} IN
                goroutine' = [g \in Goroutines |-> IF g \in served /\ At(g, "wait")
                   THEN [goroutine[g] EXCEPT !.answer = Head(toNode)] ELSE goroutine[g]]
          /\ siprequests' = [k \in QueryKeys |->
                IF k \in mentioned THEN None ELSE siprequests[k]]
    /\ UNCHANGED <<routes, cluster, worker, newest, excuses>>

-----------------------------------------------------------------------------
(* The goroutines that fill the table.                                      *)

\* A packet to an address of the job that no entry of the table has: the
\* table may have entries with the other addresses.  The address is asked for
\* unless there is an interest in it.
Miss ==
    /\ At(Proxy, "idle")
    /\ ~sipInterest
    /\ Goto(Proxy, "ask")
    /\ events < MaxEvents
    /\ events' = events + 1
    /\ UNCHANGED <<routes, cluster, toNode, siprequests, interest, sipInterest, timer,
                   deployed, undeployer, newest, excuses>>

\* A deployment has ended, well or with an error:
\* updateInternalProxyDataStructures.
Deploy(n) ==
    /\ At(Executor, "idle")
    /\ \/ deployed' = deployed \cup {n}
       \/ UNCHANGED deployed
    /\ IF interest THEN UNCHANGED goroutine ELSE Goto(Executor, "ask")
    /\ events < MaxEvents
    /\ events' = events + 1
    /\ UNCHANGED <<routes, cluster, toNode, siprequests, interest, sipInterest,
                   timer, undeployer, newest, excuses>>

\* A query that fails ends the refresh; the executor registers its interest
\* all the same, and the proxy none.
Failed(g) ==
    goroutine' = [goroutine EXCEPT ![g] =
        [Idle EXCEPT !.pc = IF g = Executor THEN "register" ELSE "idle"]]

\* tableQueryRequestBlocking: the channel is registered, the request sent.
Ask(g) ==
    /\ At(g, "ask")
    /\ siprequests[KeyOf(g)] = None
    /\ siprequests' = [siprequests EXCEPT ![KeyOf(g)] = g]
    /\ queries' = Append(queries, KeyOf(g))
    /\ goroutine' = [goroutine EXCEPT ![g].pc = "wait", ![g].asked = version]
    /\ UNCHANGED <<routes, version, resolving, toNode, worker, newest, excuses>>

\* "Table query already happening for this address": the refresh is dropped.
Refuse(g) ==
    /\ At(g, "ask")
    /\ siprequests[KeyOf(g)] # None
    /\ Failed(g)
    /\ Excused({"disturbed"})
    /\ UNCHANGED <<routes, cluster, toNode, siprequests, worker, newest>>

\* Five seconds; the channel stays registered.
Timeout(g) ==
    /\ At(g, "wait")
    /\ goroutine[g].answer = None
    /\ Failed(g)
    /\ events < MaxEvents
    /\ events' = events + 1
    /\ Excused({"disturbed"})
    /\ UNCHANGED <<routes, cluster, toNode, siprequests, interest, sipInterest, timer,
                   deployed, undeployer, newest>>

\* responseParser: the instances, in the answer's order.
Listed(a) == Lists[a.version]

\* Why what g is about to store may leave the table different from the
\* cluster's list.  Nothing of what went wrong before matters if g empties the
\* table, alone, to store the current list.
ExcusesOf(g) ==
    LET v == goroutine[g].answer.version
        clean == Storing \subseteq {g} /\ v = version
                    /\ (g = Proxy => routes = NoRoutes)
    IN  (IF clean THEN (IF interest THEN {} ELSE excuses \cap {"expired"}) ELSE excuses)
        \cup (IF Storing \subseteq {g} THEN {} ELSE {"disturbed", "overlap"})
        \cup (IF v < newest \/ v < goroutine[g].asked THEN {"disturbed"} ELSE {})

Begin(g) ==
    /\ goroutine' = [goroutine EXCEPT ![g] =
          [Idle EXCEPT !.pc = "remove", !.left = Listed(goroutine[g].answer)]]
    /\ excuses' = ExcusesOf(g)
    /\ newest' = IF goroutine[g].answer.version > newest
                    THEN goroutine[g].answer.version ELSE newest

\* Faulty variant: the new entries replace those of the same address only.
EmptiedNot == routes

\* The routes a refresh leaves before it stores: RemoveServiceEntries.
Emptied == NoRoutes

\* RefreshServiceTable has its answer: the job's entries are removed.
BeginRefresh(g) ==
    /\ At(g, "wait")
    /\ goroutine[g].answer # None
    /\ g # Proxy
    /\ routes' = Emptied
    /\ Begin(g)
    /\ UNCHANGED <<cluster, toNode, siprequests, worker>>

MqttRegisterInterest == interest' = TRUE

\* Faulty variant: only a deployment registers an interest.
MissRegistersNot == UNCHANGED interest

\* The interest a miss leaves behind.
MissRegisters == MqttRegisterInterest

\* GetTableEntryByServiceIP has its answer: with the first instance, the
\* interest is registered; nothing is removed.
BeginAdding ==
    /\ At(Proxy, "wait")
    /\ goroutine[Proxy].answer # None
    /\ IF Listed(goroutine[Proxy].answer) = <<>>
          THEN UNCHANGED interest ELSE MissRegisters
    /\ Begin(Proxy)
    /\ UNCHANGED <<routes, cluster, toNode, siprequests, sipInterest, timer,
                   deployed, undeployer, events>>

First(g) == Head(goroutine[g].left)

\* Faulty variant: a refresh has emptied the table already.
WithoutNothing(n) == routes

\* RemoveByNsip: one entry with the address.
Without(n) == [routes EXCEPT ![n] = IF @ = 0 THEN 0 ELSE @ - 1]

\* AddTableQueryEntry: the first entry with the address is removed ...
StoreRemove(g) ==
    /\ At(g, "remove")
    /\ goroutine[g].left # <<>>
    /\ Goto(g, "add")
    /\ routes' = Without(First(g))
    /\ UNCHANGED <<cluster, toNode, siprequests, worker, newest, excuses>>

\* isValid: the fields an entry must have.  An instance that is listed before
\* it is deployed has no addresses yet, and a unikernel has none of version 6.
\* (Names and numbers are those the root has accepted.)
isValid(n) == {"nodeip", "nsip", "nsipv6", "serviceIP"} \subseteq Reported[n]

\* ... and the new one added, in a second critical section, if it is valid.
StoreAdd(g) ==
    /\ At(g, "add")
    /\ goroutine' = [goroutine EXCEPT ![g].pc = "remove", ![g].left = Tail(@)]
    /\ routes' = IF isValid(First(g)) THEN [routes EXCEPT ![First(g)] = @ + 1] ELSE routes
    /\ UNCHANGED <<cluster, toNode, siprequests, worker, newest, excuses>>

\* After the last entry: the executor goes on to register its interest, the
\* proxy registers one in the address.
Stored(g) ==
    /\ At(g, "remove")
    /\ goroutine[g].left = <<>>
    /\ goroutine' = [goroutine EXCEPT ![g] =
          [Idle EXCEPT !.pc = IF g = Executor THEN "register" ELSE "idle"]]
    /\ sipInterest' = (sipInterest \/ g = Proxy)
    /\ UNCHANGED <<routes, cluster, toNode, siprequests, interest, timer,
                   deployed, undeployer, events, newest, excuses>>

\* A deployment that found no interest registers one, after its refresh.
ExecutorRegister ==
    /\ At(Executor, "register")
    /\ MqttRegisterInterest
    /\ Goto(Executor, "idle")
    /\ UNCHANGED <<routes, cluster, toNode, siprequests, sipInterest, timer,
                   deployed, undeployer, events, newest, excuses>>

-----------------------------------------------------------------------------
(* The timers.                                                              *)

\* Ten seconds without a packet: the topic is given up, the interest unlisted;
Expire ==
    /\ timer = "idle"
    /\ interest
    /\ deployed = {}
    /\ interest' = FALSE
    /\ timer' = "clear"
    /\ events < MaxEvents
    /\ events' = events + 1
    /\ Excused(IF Active = {} THEN {} ELSE {"disturbed", "expired"})
    /\ UNCHANGED <<routes, cluster, toNode, siprequests, goroutine, sipInterest,
                   deployed, undeployer, newest>>

\* at last the entries are removed, whoever has registered or stored since.
ExpireClear ==
    /\ timer = "clear"
    /\ routes' = NoRoutes
    /\ timer' = "idle"
    /\ Excused(IF Active = {} /\ ~interest THEN {} ELSE {"disturbed"})
    /\ UNCHANGED <<cluster, toNode, siprequests, goroutine, interest, sipInterest,
                   deployed, undeployer, events, newest>>

\* The interest in the address ends by itself.
SipExpire ==
    /\ sipInterest
    /\ sipInterest' = FALSE
    /\ UNCHANGED <<routes, cluster, toNode, siprequests, goroutine, interest, timer,
                   deployed, undeployer, events, newest, excuses>>

-----------------------------------------------------------------------------
(* The undeployment of an instance that is in deployedServices.             *)

UndeployerGoto(n, pc) == undeployer' = [undeployer EXCEPT ![n] = pc]

\* RemoveByNsip: its own entry, whether or not the cluster still lists it, and
\* whoever is storing;
UndeployRemove(n) ==
    /\ undeployer[n] = "idle"
    /\ n \in deployed
    /\ routes' = Without(n)
    /\ Excused(IF routes[n] > 0 THEN {"disturbed"} ELSE {})
    /\ UndeployerGoto(n, "delete")
    /\ UNCHANGED <<cluster, toNode, siprequests, goroutine, interest, sipInterest, timer,
                   deployed, events, newest>>

\* it leaves deployedServices, which is all for a unikernel;
UndeployDelete(n) ==
    /\ undeployer[n] = "delete"
    /\ deployed' = deployed \ {n}
    /\ \E runtime \in {"container", "unikernel"} :
          UndeployerGoto(n, IF runtime = "container" THEN "check" ELSE "idle")
    /\ UNCHANGED <<routes, cluster, toNode, siprequests, goroutine, interest, sipInterest,
                   timer, events, newest, excuses>>

\* a container's undeployment looks whether there is an interest in the job,
UndeployCheck(n) ==
    /\ undeployer[n] = "check"
    /\ UndeployerGoto(n, IF interest THEN "idle" ELSE "clear")
    /\ UNCHANGED <<routes, cluster, toNode, siprequests, goroutine, interest, sipInterest,
                   timer, deployed, events, newest, excuses>>

\* and if there was none, removes its entries, whoever has stored since.
UndeployClear(n) ==
    /\ undeployer[n] = "clear"
    /\ routes' = NoRoutes
    /\ UndeployerGoto(n, "idle")
    /\ Excused(IF Active = {} /\ ~interest THEN {} ELSE {"disturbed"})
    /\ UNCHANGED <<cluster, toNode, siprequests, goroutine, interest, sipInterest, timer,
                   deployed, events, newest>>

Undeploy(n) ==
    UndeployRemove(n) \/ UndeployDelete(n) \/ UndeployCheck(n) \/ UndeployClear(n)

-----------------------------------------------------------------------------
Work(g) ==
    \/ Ask(g) \/ Refuse(g) \/ BeginRefresh(g)
    \/ StoreRemove(g) \/ StoreAdd(g) \/ Stored(g)
    \/ g = Proxy /\ BeginAdding
    \/ g = Executor /\ ExecutorRegister

Next ==
    \/ Change \/ Resolve \/ Respond
    \/ HandleUpdate \/ HandleResult
    \/ Miss
    \/ \E n \in Locals : Deploy(n) \/ Undeploy(n)
    \/ \E g \in Goroutines : Work(g) \/ Timeout(g)
    \/ Expire \/ ExpireClear \/ SipExpire

Spec == Init /\ [][Next]_vars

-----------------------------------------------------------------------------
(* Properties.                                                              *)

Answers == [key : QueryKeys, version : DOMAIN Lists]

\* The type invariant: queries are about the two keys, answers about versions
\* there were, and a goroutine stores what an answer lists.
TypeOK ==
    /\ routes \in [Nsips -> Nat]
    /\ version \in DOMAIN Lists /\ newest \in 0 .. version
    /\ queries \in Seq(QueryKeys)
    /\ resolving \in Answers \cup {None}
    /\ toNode \in Seq(Answers \cup {Update})
    /\ siprequests \in [QueryKeys -> Goroutines \cup {None}]
    /\ goroutine \in [Goroutines ->
          [pc : {"idle", "ask", "wait", "remove", "add", "register"},
           asked : 0 .. version, answer : Answers \cup {None}, left : Seq(Nsips)]]
    /\ {interest, sipInterest} \subseteq BOOLEAN
    /\ deployed \subseteq Locals
    /\ undeployer \in [Locals -> {"idle", "delete", "check", "clear"}]
    /\ timer \in {"idle", "clear"}
    /\ events \in 0 .. MaxEvents
    /\ excuses \subseteq {"disturbed", "overlap", "expired"}

\* Nothing is under way that would change the routes.
AtRest ==
    /\ Active = {}
    /\ timer = "idle"
    /\ \A n \in Locals : undeployer[n] = "idle"
    /\ \A i \in DOMAIN toNode : toNode[i] # Update

\* The routes are those of the list l.
Agrees(l) ==
    \A n \in Nsips : routes[n] > 0 <=> isValid(n) /\ \E i \in DOMAIN l : l[i] = n

\* At rest, with an interest, the table has the instances of the cluster's
\* list: however updates, misses, deployments and time-outs interleave, it can
\* only differ because an update was lost, a refresh was refused or timed out,
\* two goroutines stored at once, an older answer was stored after a newer
\* one, a change fell before the subscription, an undeployment took an entry
\* out or entries were removed for an interest that had ended while someone
\* was storing - and a later undisturbed refresh mends it.
TableFollowsTheList ==
    AtRest /\ interest /\ excuses = {} => Agrees(Lists[version])

\* The table has two entries of an instance only after two goroutines stored
\* at once, although AddTableQueryEntry removes and adds in two steps.
DuplicatesNeedOverlap ==
    "overlap" \notin excuses => \A n \in Nsips : routes[n] <= 1

\* The docstring of GetTableEntryByServiceIP, "If the entry is not present a
\* TableQuery is performed and the interest registered": routes at rest are
\* covered by an interest, unless it expired while they were being stored.
RoutesAreCovered ==
    AtRest /\ routes # NoRoutes /\ "expired" \notin excuses => interest

\* The docstring of GetTableEntryByNsIP, "This search is local because the
\* networking component MUST have all the entries for the local deployed
\* services": at rest, undisturbed, a deployed instance the cluster lists has
\* its entry here.
LocalServicesHaveEntries ==
    AtRest /\ interest /\ excuses = {} =>
        \A n \in deployed :
            (\E i \in DOMAIN Lists[version] : Lists[version][i] = n) => routes[n] > 0

==============================================================================
