----------------------------- MODULE ClusterJobs -----------------------------
(***************************************************************************)
(* The cluster service manager's cache of one job, kept in step with the   *)
(* root service manager.                                                   *)
(*                                                                         *)
(* Three kinds of threads of the cluster service manager work on the job's *)
(* document, one database call at a time and without a lock: the MQTT loop *)
(* (messages of the workers), the HTTP server (calls of the orchestrator   *)
(* and of the root, one at a time) and one thread per update notification  *)
(* of the root (operations/instances_management.py).  The root answers its *)
(* requests one at a time; while it notifies the cluster of changes it     *)
(* answers nobody.                                                         *)
(*                                                                         *)
(* An address stands for the namespace and host addresses of an instance.  *)
(* The root's list is shown in the order of the instance numbers, and the  *)
(* job keeps its identifier when it is removed and registered again.       *)
(***************************************************************************)
EXTENDS Integers, Sequences, FiniteSets, SequencesExt

CONSTANTS
    Instances,   \* instance numbers of the job
    Workers,     \* worker nodes of the cluster
    Addrs,       \* addresses an instance may have
    Threads,     \* slots for update threads (a bound)
    QueryKinds,  \* how workers ask for the job: by "name" or by "address"
    MaxRequests, \* bound on the requests and messages that arrive
    MaxRestarts, \* bound on the restarts of the cluster service manager
    RootFails,   \* whether a query to the root may fail
    None         \* no address, no worker

ASSUME InstancesAssumption == Instances \subseteq Nat /\ IsFiniteSet(Instances)
ASSUME ThreadsAssumption == {"mqtt", "http"} \cap Threads = {}
ASSUME QueryKindsAssumption == QueryKinds \subseteq {"name", "address"}
ASSUME NoneAssumption == None \notin Addrs \cup Workers
ASSUME BoundsAssumption == MaxRequests \in Nat /\ MaxRestarts \in Nat /\ RootFails \in BOOLEAN

VARIABLES
    root,         \* the root's job: whether it is known, and the address of
                  \* every deployed instance
    rootInterest, \* whether the root lists the cluster as interested
    rootCalls,    \* update notifications the root has still to send
    backlog,      \* notifications the HTTP server has not read, the root
                  \* having given up on them
    doc,          \* the job's document in the cluster's database
    pc,           \* what a thread does next
    loc,          \* what a thread remembers
    subscribed,   \* workers that hold an interest of their own
    requests,     \* requests and messages so far
    restarts      \* restarts so far

vars == <<root, rootInterest, rootCalls, backlog, doc, pc, loc, subscribed, requests, restarts>>

rootVars == <<root, rootInterest, rootCalls, backlog>>

bounds == <<requests, restarts>>

Procs == {"mqtt", "http"} \cup Threads

\* An element of instance_list; worker_id is only known to the cluster.
Entries == [num : Instances, addr : Addrs \cup {None}, worker : Workers \cup {None}]

\* A notification /api/net/job/update; the number -1 stands for all instances.
All == -1

Calls == [type : {"DEPLOYMENT", "UNDEPLOYMENT"}, num : Instances \cup {All}]

\* The document: a new one has no instance_list before it is given an empty one.
NoDoc == [stored |-> FALSE, listed |-> FALSE, list |-> <<>>, interested |-> <<>>]

Nothing == [snap |-> <<>>, who |-> None, nodes |-> <<>>, num |-> All, byAddress |-> FALSE,
            found |-> FALSE, broken |-> FALSE]

Init ==
    /\ root = [known |-> FALSE, addrs |-> <<>>]
    /\ rootInterest = FALSE
    /\ rootCalls = <<>>
    /\ backlog = <<>>
    /\ doc = NoDoc
    /\ pc = [p \in Procs |-> "idle"]
    /\ loc = [p \in Procs |-> Nothing]
    /\ subscribed = {}
    /\ requests = 0
    /\ restarts = 0

(***************************************************************************)
(* The root service manager                                                *)
(***************************************************************************)
\* The root serves a request only when it is through with its notifications.
RootFree == rootCalls = <<>>

Arrives == requests < MaxRequests /\ requests' = requests + 1

\* root.addrs is a function on the deployed instances.
Deployed == DOMAIN root.addrs

Numbers(S) == SetToSortSeq(S, <)

\* The notifications the root sends, if the cluster is interested.
Notify(type, nums) ==
    IF rootInterest
    THEN [i \in DOMAIN nums |-> [type |-> type, num |-> nums[i]]]
    ELSE <<>>

\* deploy_request of a service: a job that is already there loses its list.
RootDeployService ==
    /\ RootFree /\ Arrives
    /\ root' = [known |-> TRUE, addrs |-> <<>>]
    /\ UNCHANGED <<rootInterest, rootCalls, backlog, doc, pc, loc, subscribed, restarts>>

\* remove_service of the root: refused while instances are deployed.
RootRemoveService ==
    /\ RootFree /\ Arrives
    /\ root.known /\ Deployed = {}
    /\ root' = [root EXCEPT !.known = FALSE]
    /\ UNCHANGED <<rootInterest, rootCalls, backlog, doc, pc, loc, subscribed, restarts>>

\* deploy_request of an instance: listed without an address, one it had being
\* overwritten, and nobody notified.
RootDeployInstance(i) ==
    /\ RootFree /\ Arrives
    /\ root.known
    /\ root' = [root EXCEPT !.addrs = [j \in Deployed \cup {i} |-> IF j = i THEN None ELSE @[j]]]
    /\ UNCHANGED <<rootInterest, rootCalls, backlog, doc, pc, loc, subscribed, restarts>>

\* undeploy_request: one instance, or all of them, and the notification.
RootUndeploy(n) ==
    /\ RootFree /\ Arrives
    /\ root.known
    /\ root' = [root EXCEPT !.addrs = [j \in IF n = All THEN {} ELSE Deployed \ {n} |-> @[j]]]
    /\ rootCalls' = Notify("UNDEPLOYMENT", <<n>>)
    /\ UNCHANGED <<rootInterest, backlog, doc, pc, loc, subscribed, restarts>>

\* update_instance_local_addresses: refused if an address is missing (the
\* asserts) or the job is unknown; otherwise stored and notified.
RootNetStatus(entries) ==
    LET nums == {entries[i].num : i \in DOMAIN entries}
        addr(n) == entries[CHOOSE i \in DOMAIN entries : entries[i].num = n].addr IN
    IF root.known /\ \A i \in DOMAIN entries : entries[i].addr # None
    THEN /\ root' = [root EXCEPT !.addrs = [j \in Deployed |-> IF j \in nums THEN addr(j) ELSE @[j]]]
         /\ rootCalls' = Notify("DEPLOYMENT", Numbers(nums))
    ELSE UNCHANGED <<root, rootCalls>>

\* An instance in another cluster gets an address.
RemoteReport(i, a) ==
    /\ RootFree /\ Arrives
    /\ i \in Deployed
    /\ RootNetStatus(<<[num |-> i, addr |-> a, worker |-> None]>>)
    /\ UNCHANGED <<rootInterest, backlog, doc, pc, loc, subscribed, restarts>>

\* A mutant of RootTimeout: the root's call has no timeout.
RootTimeoutNever == FALSE /\ UNCHANGED vars

\* The HTTP server is busy for two seconds: the exception ends the root's
\* loop, the notifications that were to follow are never sent, and the one
\* sent waits for the server.
RootTimeout ==
    /\ ~RootFree
    /\ pc["http"] # "idle"
    /\ backlog' = Append(backlog, Head(rootCalls))
    /\ rootCalls' = <<>>
    /\ UNCHANGED <<root, rootInterest, doc, pc, loc, subscribed, requests, restarts>>

(***************************************************************************)
(* Storing what the root answered, common to the three kinds of threads    *)
(***************************************************************************)
Goto(p, l) == pc' = [pc EXCEPT ![p] = l]

Listed(n) == {i \in DOMAIN doc.list : doc.list[i].num = n}

FirstListed(n) == CHOOSE i \in Listed(n) : \A j \in Listed(n) : i <= j

RootList == [i \in 1 .. Cardinality(Deployed) |->
    LET n == Numbers(Deployed)[i] IN [num |-> n, addr |-> root.addrs[n], worker |-> None]]

\* A mutant of AfterStoring: a thread that finds no instances ends silently.
AfterStoringOrEnd(p) ==
    CASE p = "mqtt" -> "check"
      [] p = "http" \/ doc.list = <<>> -> "idle"
      [] OTHER -> "notify"

\* Where a thread goes when it has stored the instances.
AfterStoring(p) == CASE p = "mqtt" -> "check" [] p = "http" -> "idle" [] OTHER -> "notify"

\* mongo_register_cluster_job_interest, mongo_remove_cluster_job_interest
RegisterClusterInterest == rootInterest' = TRUE

RemoveClusterInterest == rootInterest' = FALSE

\* get_service_instances registers the cluster's interest and answers.
QueryRoot(p) ==
    /\ pc[p] = "query"
    /\ RootFree /\ root.known
    /\ RegisterClusterInterest
    /\ loc' = [loc EXCEPT ![p].snap = RootList, ![p].found = Deployed # {}]
    /\ Goto(p, IF p \in Threads THEN "update" ELSE "insert")
    /\ UNCHANGED <<root, rootCalls, backlog, doc, subscribed, bounds>>

\* No answer, or none about the job: the query of a worker is answered with
\* an empty list (one by address does not know the job to be interested in),
\* the request to create the service fails, and an update thread has nothing
\* to store.
QueryFails(p) ==
    /\ pc[p] = "query"
    /\ RootFree
    /\ ~root.known \/ RootFails
    /\ Goto(p, IF loc[p].byAddress THEN "answer" ELSE AfterStoring(p))
    /\ UNCHANGED <<rootVars, doc, loc, subscribed, bounds>>

\* A mutant of HasList: a job that is there is taken to have its list.
HasListIfStored == ~doc.stored

\* The document returned before the upsert has an instance_list.
HasList == doc.listed

\* mongo_insert_job, first call: the upsert keeps what is there.
Insert(p) ==
    /\ pc[p] = "insert"
    /\ doc' = [doc EXCEPT !.stored = TRUE]
    /\ Goto(p, IF HasList THEN "next" ELSE "fill")
    /\ UNCHANGED <<rootVars, loc, subscribed, bounds>>

\* mongo_insert_job, second call: the list that was missing is set empty.
Fill(p) ==
    /\ pc[p] = "fill"
    /\ doc' = IF doc.stored THEN [doc EXCEPT !.listed = TRUE, !.list = <<>>] ELSE doc
    /\ Goto(p, "next")
    /\ UNCHANGED <<rootVars, loc, subscribed, bounds>>

\* mongo_update_job_instance, the find, if an instance is left.
FindInstance(p) ==
    LET snap == loc[p].snap IN
    /\ pc[p] = "next"
    /\ Goto(p, CASE snap = <<>> -> AfterStoring(p)
                 [] snap # <<>> -> IF Listed(Head(snap).num) # {} THEN "set" ELSE "push")
    /\ UNCHANGED <<rootVars, doc, loc, subscribed, bounds>>

\* mongo_update_job_instance, the $set or the $push that follows.
StoreInstance(p) ==
    LET e == Head(loc[p].snap) IN
    /\ pc[p] \in {"set", "push"}
    /\ doc' = CASE pc[p] = "set" /\ Listed(e.num) # {} ->
                        [doc EXCEPT !.list[FirstListed(e.num)].addr = e.addr]
                [] pc[p] = "push" /\ doc.stored ->
                        [doc EXCEPT !.listed = TRUE, !.list = Append(@, e)]
                [] OTHER -> doc
    /\ loc' = [loc EXCEPT ![p].snap = Tail(@)]
    /\ Goto(p, "next")
    /\ UNCHANGED <<rootVars, subscribed, bounds>>

\* mongo_remove_job, and where a thread goes then.
Erase(p) ==
    /\ pc[p] = "erase"
    /\ doc' = NoDoc
    /\ Goto(p, IF p \in Threads THEN "notify" ELSE "idle")
    /\ UNCHANGED <<rootVars, loc, subscribed, bounds>>

(***************************************************************************)
(* The MQTT loop                                                           *)
(***************************************************************************)
MqttReceives ==
    /\ pc["mqtt"] = "idle"
    /\ Arrives

\* mongo_find_job_by_name, mongo_find_job_by_ip
JobCached == doc.stored

\* A document without a list makes the look-up by name raise an exception that
\* is caught, and leaves the one by address with a list that cannot be
\* formatted.
ListMissing(kind) == kind = "address" /\ doc.stored /\ ~doc.listed

\* _tablequery_handler: the job is looked up in the cache, and at the root if
\* it is not there.
TableQuery(w, kind) ==
    /\ MqttReceives
    /\ loc' = [loc EXCEPT !["mqtt"] =
            [Nothing EXCEPT !.who = w, !.byAddress = (kind = "address"), !.found = (doc.list # <<>>),
                            !.broken = ListMissing(kind)]]
    /\ Goto("mqtt", IF JobCached THEN "check" ELSE "query")
    /\ UNCHANGED <<rootVars, doc, subscribed, restarts>>

\* A mutant of IsInterested: the list is not looked at.
IsInterestedNever(w) == FALSE

IsInterested(w) == \E i \in DOMAIN doc.interested : doc.interested[i] = w

\* add_interest: the worker is added if it is not listed.
AddInterest ==
    /\ pc["mqtt"] = "check"
    /\ Goto("mqtt", IF IsInterested(loc["mqtt"].who) THEN "answer" ELSE "read")
    /\ UNCHANGED <<rootVars, doc, loc, subscribed, bounds>>

\* mongo_add_interest reads the list, then writes it with the worker added.
ReadInterested ==
    /\ pc["mqtt"] = "read"
    /\ loc' = [loc EXCEPT !["mqtt"].nodes = doc.interested]
    /\ Goto("mqtt", "write")
    /\ UNCHANGED <<rootVars, doc, subscribed, bounds>>

WriteInterested ==
    /\ pc["mqtt"] = "write"
    /\ doc' = IF doc.stored
              THEN [doc EXCEPT !.interested = Append(loc["mqtt"].nodes, loc["mqtt"].who)]
              ELSE doc
    /\ Goto("mqtt", "answer")
    /\ UNCHANGED <<rootVars, loc, subscribed, bounds>>

\* The answer is formatted outside of the try block: an exception there ends
\* the MQTT loop.  A worker that has asked by name, after a deployment, or
\* by address and is told of instances, registers an interest of its own.
Answer ==
    /\ pc["mqtt"] = "answer"
    /\ IF loc["mqtt"].broken
       THEN Goto("mqtt", "dead") /\ UNCHANGED subscribed
       ELSE /\ Goto("mqtt", "idle")
            /\ subscribed' = IF loc["mqtt"].byAddress /\ ~loc["mqtt"].found THEN subscribed
                             ELSE subscribed \cup {loc["mqtt"].who}
    /\ UNCHANGED <<rootVars, doc, loc, bounds>>

\* mongo_remove_interest, the read: list.remove raises if the worker is not
\* in a list that is not empty, and nothing catches the exception.
RemoveInterest(w) ==
    /\ w \in subscribed
    /\ MqttReceives
    /\ subscribed' = subscribed \ {w}
    /\ loc' = [loc EXCEPT !["mqtt"] = [Nothing EXCEPT !.who = w, !.nodes = doc.interested]]
    /\ Goto("mqtt", CASE doc.interested = <<>> -> "relevant"
                      [] IsInterested(w) -> "unlist"
                      [] OTHER -> "dead")
    /\ UNCHANGED <<rootVars, doc, restarts>>

\* mongo_remove_interest, the write.
Unlist ==
    /\ pc["mqtt"] = "unlist"
    /\ doc' = IF doc.stored
              THEN [doc EXCEPT !.interested = RemoveFirst(loc["mqtt"].nodes, loc["mqtt"].who)]
              ELSE doc
    /\ Goto("mqtt", "relevant")
    /\ UNCHANGED <<rootVars, loc, subscribed, bounds>>

\* A mutant of IsJobRelevant: one interested worker does not count.
IsJobRelevantToMany == Len(doc.interested) > 1

\* is_job_relevant_for_the_cluster
IsJobRelevant == Len(doc.interested) > 0

CheckRelevant ==
    /\ pc["mqtt"] = "relevant"
    /\ Goto("mqtt", IF IsJobRelevant THEN "idle" ELSE "forget")
    /\ UNCHANGED <<rootVars, doc, loc, subscribed, bounds>>

\* root_remove_interest; a failure is logged and changes nothing.
RootRemoveInterest ==
    /\ pc["mqtt"] = "forget"
    /\ RootFree
    /\ RemoveClusterInterest \/ (RootFails /\ UNCHANGED rootInterest)
    /\ Goto("mqtt", "erase")
    /\ UNCHANGED <<root, rootCalls, backlog, doc, loc, subscribed, bounds>>

\* mongo_update_job_deployed, the find: the copy of the list, the instance
\* changed in it.  Without a document the handler ends with an exception.
DeploymentReport(w, n, a) ==
    /\ MqttReceives
    /\ doc.stored
    /\ loc' = [loc EXCEPT !["mqtt"] = [Nothing EXCEPT !.who = w, !.snap =
            IF Listed(n) = {} THEN doc.list
            ELSE [doc.list EXCEPT ![FirstListed(n)] = [num |-> n, addr |-> a, worker |-> w]]]]
    /\ Goto("mqtt", "save")
    /\ UNCHANGED <<rootVars, doc, subscribed, restarts>>

OfWorker(list, w) == SelectSeq(list, LAMBDA e : e.worker = w)

\* mongo_update_job_deployed, the write of the whole list.
SaveDeployed ==
    /\ pc["mqtt"] = "save"
    /\ IF doc.stored
       THEN /\ doc' = [doc EXCEPT !.listed = TRUE, !.list = loc["mqtt"].snap]
            /\ loc' = [loc EXCEPT !["mqtt"].snap = OfWorker(@, loc["mqtt"].who)]
            /\ Goto("mqtt", "report")
       ELSE Goto("mqtt", "idle") /\ UNCHANGED <<doc, loc>>
    /\ UNCHANGED <<rootVars, subscribed, bounds>>

\* mongo_update_job_address: one call, and only the host's address.
AddressReport(w, n, a) ==
    /\ MqttReceives
    /\ Listed(n) # {}
    /\ LET i == FirstListed(n)
           list == [doc.list EXCEPT ![i].addr = IF @ = None THEN None ELSE a, ![i].worker = w] IN
       /\ doc' = [doc EXCEPT !.list = list]
       /\ loc' = [loc EXCEPT !["mqtt"] = [Nothing EXCEPT !.who = w, !.snap = OfWorker(list, w)]]
    /\ Goto("mqtt", "report")
    /\ UNCHANGED <<rootVars, subscribed, restarts>>

\* system_manager_notify_deployment_status, and the wait for its answer,
\* which the root gives when it has notified the clusters.
ReportStatus ==
    /\ pc["mqtt"] = "report"
    /\ RootFree
    /\ RootNetStatus(loc["mqtt"].snap)
    /\ Goto("mqtt", "posted")
    /\ UNCHANGED <<rootInterest, backlog, doc, loc, subscribed, bounds>>

StatusReported ==
    /\ pc["mqtt"] = "posted"
    /\ RootFree
    /\ Goto("mqtt", "idle")
    /\ UNCHANGED <<rootVars, doc, loc, subscribed, bounds>>

(***************************************************************************)
(* The HTTP server                                                         *)
(***************************************************************************)
\* instance_updates starts a thread.
StartThread(t, call) ==
    /\ pc[t] = "idle"
    /\ loc' = [loc EXCEPT ![t] = [Nothing EXCEPT !.num = call.num]]
    /\ Goto(t, IF call.type = "DEPLOYMENT" THEN "query" ELSE "pull")

\* task_update, called by the root: the server first reads what waits.
AcceptCall(t) ==
    /\ pc["http"] = "idle"
    /\ IF backlog # <<>>
       THEN /\ StartThread(t, Head(backlog))
            /\ backlog' = Tail(backlog) /\ UNCHANGED rootCalls
       ELSE /\ ~RootFree
            /\ StartThread(t, Head(rootCalls))
            /\ rootCalls' = Tail(rootCalls) /\ UNCHANGED backlog
    /\ UNCHANGED <<root, rootInterest, doc, subscribed, bounds>>

\* create_service
CreateService ==
    /\ pc["http"] = "idle" /\ Arrives
    /\ loc' = [loc EXCEPT !["http"] = Nothing]
    /\ Goto("http", "query")
    /\ UNCHANGED <<rootVars, doc, subscribed, restarts>>

\* remove_service: an undeployment thread for each instance of the document
\* that is found, then the document is removed.
RemoveService ==
    /\ pc["http"] = "idle" /\ Arrives
    /\ loc' = [loc EXCEPT !["http"] = [Nothing EXCEPT !.snap = doc.list]]
    /\ Goto("http", IF doc.list = <<>> THEN "erase" ELSE "spawn")
    /\ UNCHANGED <<rootVars, doc, subscribed, restarts>>

UndeployNext(t) ==
    LET snap == loc["http"].snap IN
    /\ pc["http"] = "spawn"
    /\ pc[t] = "idle"
    /\ loc' = [loc EXCEPT !["http"].snap = Tail(@), ![t] = [Nothing EXCEPT !.num = Head(snap).num]]
    /\ pc' = [pc EXCEPT ![t] = "pull", !["http"] = IF Len(snap) = 1 THEN "erase" ELSE "spawn"]
    /\ UNCHANGED <<rootVars, doc, subscribed, bounds>>

(***************************************************************************)
(* The update threads, _update_cache_and_workers                           *)
(***************************************************************************)
\* mongo_update_job: the instances of a job that is not in the cache are not
\* stored with it.
UpdateJob(t) ==
    /\ pc[t] = "update"
    /\ IF doc.stored
       THEN Goto(t, "next") /\ UNCHANGED loc
       ELSE Goto(t, "insert") /\ loc' = [loc EXCEPT ![t].snap = <<>>]
    /\ UNCHANGED <<rootVars, doc, subscribed, bounds>>

\* mongo_remove_job_instance: a job without instances is removed; a document
\* that has no list yet raises an exception that ends the thread.
RemoveInstance(t) ==
    LET n == loc[t].num
        left == SelectSeq(doc.list, LAMBDA e : e.num # n) IN
    /\ pc[t] = "pull"
    /\ doc' = IF n = All THEN doc ELSE [doc EXCEPT !.list = left]
    /\ Goto(t, CASE n = All -> "erase"
                 [] n # All /\ ~doc.stored -> "notify"
                 [] n # All /\ doc.stored /\ ~doc.listed -> "idle"
                 [] n # All /\ doc.listed -> IF left = <<>> THEN "erase" ELSE "notify")
    /\ UNCHANGED <<rootVars, loc, subscribed, bounds>>

\* mqtt_notify_service_change: the workers are told to ask again.
NotifyWorkers(t) ==
    /\ pc[t] = "notify"
    /\ Goto(t, "idle")
    /\ UNCHANGED <<rootVars, doc, loc, subscribed, bounds>>

\* mongo_init drops the jobs when the cluster service manager starts; the
\* root's calls fail meanwhile, or are retried until it is back.
Restart ==
    /\ restarts < MaxRestarts
    /\ restarts' = restarts + 1
    /\ doc' = NoDoc
    /\ pc' = [p \in Procs |-> "idle"]
    /\ loc' = [p \in Procs |-> Nothing]
    /\ rootCalls' \in {<<>>, rootCalls}
    /\ backlog' = <<>>
    /\ UNCHANGED <<root, rootInterest, subscribed, requests>>

-----------------------------------------------------------------------------
ThreadStep(p) ==
    \/ QueryRoot(p)
    \/ QueryFails(p)
    \/ Insert(p)
    \/ Fill(p)
    \/ FindInstance(p)
    \/ StoreInstance(p)
    \/ Erase(p)

MqttStep ==
    \/ AddInterest
    \/ ReadInterested
    \/ WriteInterested
    \/ Answer
    \/ Unlist
    \/ CheckRelevant
    \/ RootRemoveInterest
    \/ SaveDeployed
    \/ ReportStatus
    \/ StatusReported

UpdateStep(t) ==
    \/ UpdateJob(t)
    \/ RemoveInstance(t)
    \/ NotifyWorkers(t)

Accept == \E t \in Threads : AcceptCall(t)

Undeploy == \E t \in Threads : UndeployNext(t)

Request ==
    \/ RootDeployService
    \/ RootRemoveService
    \/ \E i \in Instances : RootDeployInstance(i)
    \/ \E n \in Instances \cup {All} : RootUndeploy(n)
    \/ \E i \in Instances, a \in Addrs : RemoteReport(i, a)
    \/ \E w \in Workers, kind \in QueryKinds : TableQuery(w, kind)
    \/ \E w \in Workers : RemoveInterest(w)
    \/ \E w \in Workers, i \in Instances, a \in Addrs : DeploymentReport(w, i, a)
    \/ \E w \in Workers, i \in Instances, a \in Addrs : AddressReport(w, i, a)
    \/ CreateService
    \/ RemoveService

Next ==
    \/ Request
    \/ RootTimeout
    \/ Accept
    \/ Undeploy
    \/ MqttStep
    \/ \E p \in Procs : ThreadStep(p)
    \/ \E t \in Threads : UpdateStep(t)
    \/ Restart

Spec == Init /\ [][Next]_vars

\* The threads of the cluster service manager run, the HTTP server reads what
\* arrives and a call of the root times out.  Nothing makes requests arrive.
FairSpec ==
    /\ Spec
    /\ WF_vars(MqttStep)
    /\ \A p \in Procs : WF_vars(ThreadStep(p))
    /\ \A t \in Threads : WF_vars(UpdateStep(t))
    /\ WF_vars(Accept)
    /\ WF_vars(Undeploy)
    /\ WF_vars(RootTimeout)

-----------------------------------------------------------------------------
Labels == {"idle", "query", "insert", "fill", "next", "set", "push", "erase", "check", "read",
           "write", "answer", "dead", "unlist", "relevant", "forget", "save", "report", "posted",
           "spawn", "update", "pull", "notify"}

\* The type invariant: the job's document, the root's job and the threads'
\* local data are what mongodb_requests.py stores and returns.
TypeOK ==
    /\ root.known \in BOOLEAN
    /\ Deployed \subseteq Instances
    /\ \A n \in Deployed : root.addrs[n] \in Addrs \cup {None}
    /\ rootInterest \in BOOLEAN
    /\ rootCalls \in Seq(Calls)
    /\ backlog \in Seq(Calls)
    /\ doc \in [stored : BOOLEAN, listed : BOOLEAN, list : Seq(Entries), interested : Seq(Workers)]
    /\ ~doc.stored => doc = NoDoc
    /\ pc \in [Procs -> Labels]
    /\ loc \in [Procs -> [snap : Seq(Entries), who : Workers \cup {None}, nodes : Seq(Workers),
                          num : Instances \cup {All}, byAddress : BOOLEAN, found : BOOLEAN,
                          broken : BOOLEAN]]
    /\ subscribed \subseteq Workers
    /\ requests \in 0 .. MaxRequests
    /\ restarts \in 0 .. MaxRestarts

\* No worker is listed twice in interested_nodes, however the document is
\* removed and stored again between the three calls of add_interest
\* (tablequery/interests.py): else one removal would leave an interest behind.
InterestedOnce ==
    \A i, j \in DOMAIN doc.interested : doc.interested[i] = doc.interested[j] => i = j

\* A document without instance_list, on which other threads fail, is only
\* there while the thread that has stored it is about to add the empty list
\* (mongo_insert_job), whatever the other threads remove and store meanwhile.
UnfilledIsBeingFilled ==
    doc.stored /\ ~doc.listed => \E p \in Procs : pc[p] = "fill"

\* The cluster withdraws its interest at the root (interests.remove_interest)
\* only when no worker of the cluster is interested: the check made one call
\* earlier still holds.
RootForgetsOnlyUnwanted ==
    [][rootInterest /\ ~rootInterest' => doc.interested = <<>>]_vars

\* Every deployment notification the cluster accepts is passed on to the
\* workers (_update_cache_and_workers), whatever the query to the root and
\* the other threads do to the document, unless the cluster restarts, which
\* ends its threads.
DeploymentsAnnounced ==
    \A t \in Threads, k \in 0 .. MaxRestarts :
       (pc[t] = "query" /\ restarts = k) ~> (pc[t] = "notify" \/ restarts > k)

\* A request to the HTTP server ends, although it may wait for the root while
\* the root waits for the HTTP server (clusters_interface.request_with_retry
\* gives up after two seconds).
HttpRequestsEnd == pc["http"] # "idle" ~> pc["http"] = "idle"

Quiet ==
    /\ \A p \in Procs : pc[p] = "idle"
    /\ rootCalls = <<>>
    /\ backlog = <<>>

\* mongo_update_job_instance promises to "update if exist otherwise push a new
\* instance": the document has one entry per instance number.
OneEntryPerInstance ==
    \A i, j \in DOMAIN doc.list : doc.list[i].num = doc.list[j].num => i = j

\* A query is answered from the cache if the job is there, so what is there
\* must be all the root knows: when nothing is in progress, the document of a
\* job whose changes the root reports holds every instance with an address.
CachedListIsComplete ==
    Quiet /\ doc.stored /\ rootInterest =>
        \A n \in Deployed : root.addrs[n] # None => Listed(n) # {}

\* The interest of a worker is passed on: when nothing is in progress and the
\* document lists an interested worker, the root lists the cluster.
InterestReachesRoot ==
    Quiet /\ IsJobRelevant => rootInterest

\* No message of a worker ends the loop that receives the messages.
HandlerSurvives == pc["mqtt"] # "dead"

=============================================================================
