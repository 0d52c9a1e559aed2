-------------------------- MODULE ServiceAddresses --------------------------
(***************************************************************************)
(* Services, their instances and the three pools of semantic addresses of  *)
(* the root service manager (operations/service_management,                *)
(* operations/instances_management, network/subnetwork_management,         *)
(* interfaces/mongodb_requests).                                           *)
(*                                                                         *)
(* A service gets a round-robin address of each family, chosen by the user *)
(* (RR_ip, RR_ip_v6) or taken from a pool, and an instance one address of  *)
(* each family from a pool.  The pools: "v4" is 10.30.x.y for both         *)
(* purposes, "rr_v6" is fdff:2000::/21, and "instance_v6" is fdff:0000::   *)
(* followed by fdff:0800::.  Each is a counter through rows of equal       *)
(* length (x, or the block) and a cache of addresses given back.           *)
(*                                                                         *)
(* The pools keep addresses as integer lists, the job documents keep them  *)
(* as strings, and a user may write an IPv6 address in several ways; the   *)
(* field form tells these apart, because the database compares them.       *)
(*                                                                         *)
(* The service manager serves one request at a time (no monkey patching,   *)
(* a single eventlet loop), so a request is one action.  A request that    *)
(* ends in an error before any write is a stuttering step and has no       *)
(* action.                                                                 *)
(***************************************************************************)
EXTENDS Integers

CONSTANTS
    Names,      \* job names
    Ids,        \* system ids of jobs, chosen by the caller
    Instances,  \* instance numbers
    Rows,       \* of a pool: 254, 1 and 2
    Columns,    \* addresses in a row: 254, 2^80 and 2^80
    CustomIps,  \* of "v4" and "rr_v6": the addresses users ask for, <<x, y, form>>
    MaxCopies,  \* bound on the cache's copies of an address, as which a user
                \* may ask for it and give it back again and again
    NoJob,      \* no document for a name
    NoIp        \* no such instance, or no address in the descriptor

Pools == {"v4", "rr_v6", "instance_v6"}

ASSUME InstancesAssumption == "rr" \notin Instances
ASSUME RowsAssumption == Rows \in [Pools -> Nat \ {0}]
ASSUME ColumnsAssumption == Columns \in [Pools -> Nat \ {0, 1}]
ASSUME CustomAssumption ==
    CustomIps \in [{"v4", "rr_v6"} -> SUBSET (Nat \X Nat \X {"string", "expanded"})]

VARIABLES
    next,       \* the document {"type": "next_..."} of a pool
    free,       \* how many documents {"type": "free_..."} hold an address
    jobs,       \* the job document of a name
    retired,    \* addresses whose service or instance is gone and which
                \* nobody has given back (not state of the program)
    chosen      \* addresses users asked for and got, as the pools write
                \* them (not state of the program)

serviceVars == <<next, free, jobs, retired, chosen>>

-----------------------------------------------------------------------------
(* Addresses.                                                               *)

Address(p, x, y, form) == [pool |-> p, x |-> x, y |-> y, form |-> form]

\* _addr_stringify and _addr_destringify.
Stringify(a) == [a EXCEPT !.form = "string"]
Destringify(a) == [a EXCEPT !.form = "list"]

PoolAddrs(p) == {Address(p, x, y, "list") : x \in 0 .. Rows[p] - 1, y \in 0 .. Columns[p] - 1}

AllAddrs == UNION {PoolAddrs(p) : p \in Pools}

CustomAddrs(p) == {Address(p, c[1], c[2], c[3]) : c \in CustomIps[p]}

\* What a job document may hold as an address.
StoredAddrs ==
    {Stringify(a) : a \in AllAddrs} \cup CustomAddrs("v4") \cup CustomAddrs("rr_v6")

Precedes(a, b) == a.x < b.x \/ (a.x = b.x /\ a.y < b.y)

\* _increase_service_address and _increase_service_address_v6: from the end of
\* a row to the next one, which for "instance_v6" is the second block.
IncreaseServiceAddress(a) ==
    IF a.y + 1 < Columns[a.pool] THEN Address(a.pool, a.x, a.y + 1, a.form)
                                 ELSE Address(a.pool, a.x + 1, 0, a.form)

\* They raise where the last row ends.
AddressesExhausted(a) == a.y = Columns[a.pool] - 1 /\ a.x = Rows[a.pool] - 1

ServiceInit ==
    /\ next = [p \in Pools |-> Address(p, 0, 0, "list")]
    /\ free = [a \in AllAddrs |-> 0]
    /\ jobs = [n \in Names |-> NoJob]
    /\ retired = {}
    /\ chosen = {}

-----------------------------------------------------------------------------
(* The job documents.                                                       *)

Deployed == {n \in Names : jobs[n] # NoJob}

\* The round-robin and the instance addresses of a job.
AddrsOf(job) == (job.rr \cup UNION {job.inst[i] : i \in Instances}) \ {NoIp}

\* mongo_find_job_by_ip: an exact match with a stored address.
JobsByIp(ip) == {n \in Deployed : ip \in AddrsOf(jobs[n])}

JobsById(id) == {n \in Deployed : jobs[n].id = id}

-----------------------------------------------------------------------------
(* The pools.                                                               *)

CacheIsEmpty(p) == \A a \in PoolAddrs(p) : free[a] = 0

\* The first address from the counter on that is not known.
FirstFrom(p, known) ==
    LET unknown == {a \in PoolAddrs(p) \ known : a = next[p] \/ Precedes(next[p], a)}
    IN  {a \in unknown : \A b \in unknown : ~Precedes(b, a)}

\* What new_instance_ip, new_rr_ip_v6 and new_instance_ip_v6 may return: a
\* cached address, else the first from the counter on which
\* mongo_find_job_by_ip does not know, and none if the counter cannot move on.
\* The lookup is given the integer list, not the string the documents hold.
Available(p) ==
    IF ~CacheIsEmpty(p) THEN {a \in PoolAddrs(p) : free[a] > 0}
    ELSE {a \in FirstFrom(p, {b \in PoolAddrs(p) : JobsByIp(b) # {}}) : ~AddressesExhausted(a)}

\* Faulty variant: the free document is not deleted.
FreeAfterKeeping(S) == free

\* The caches, and the counters, once the addresses of S that come from a pool
\* have been taken: at most one of each pool.
FreeAfter(S) == [a \in AllAddrs |-> IF a \in S /\ free[a] > 0 THEN free[a] - 1 ELSE free[a]]

NextAfter(S) ==
    [p \in Pools |->
        IF CacheIsEmpty(p) /\ S \cap PoolAddrs(p) # {}
        THEN IncreaseServiceAddress(CHOOSE a \in S \cap PoolAddrs(p) : TRUE) ELSE next[p]]

TakeFromPools(S) == next' = NextAfter(S) /\ free' = FreeAfter(S)

Stored(S) == {IF a \in AllAddrs THEN Stringify(a) ELSE a : a \in S}

\* The addresses taken for nothing when a request fails after it took them.
Lost(S) == retired' = retired \cup {Stringify(a) : a \in S \cap AllAddrs}

\* The decimal digits of the compared bytes, one after the other.  Those of
\* an IPv6 address are the last ten, which do not tell the blocks apart.
AddressDigits(a) ==
    LET x == IF a.pool = "v4" THEN a.x ELSE 0
    IN  IF a.y < 10 THEN 10 * x + a.y
        ELSE IF a.y < 100 THEN 100 * x + a.y ELSE 1000 * x + a.y

\* The assertions of clear_instance_ip, of clear_instance_ip_v6 and of the
\* functions that store the document.
ClearInstanceAccepts(a) == a \in AllAddrs /\ AddressDigits(a) < AddressDigits(next[a.pool])

\* clear_instance_ip and clear_instance_ip_v6, for an address whose user is
\* gone.  There is no such function for a round-robin IPv6 address.
ClearInstanceIp(s) ==
    /\ s \in retired
    /\ s.pool # "rr_v6"
    /\ ClearInstanceAccepts(Destringify(s))
    /\ free[Destringify(s)] < MaxCopies
    /\ free' = [free EXCEPT ![Destringify(s)] = @ + 1]
    /\ retired' = retired \ {s}
    /\ UNCHANGED <<next, jobs, chosen>>

\* get_next_available_ip(1) and get_next_available_ip_v6(1) when the cache is
\* empty: here the lookup is given the string.
NextAvailable(p) == FirstFrom(p, {b \in PoolAddrs(p) : JobsByIp(Stringify(b)) # {}})

-----------------------------------------------------------------------------
(* Requests.                                                                *)

\* The unique, immutable _id makes the upsert of mongo_insert_job fail when
\* the name has another id or the id another name.
CanInsert(n, id) == JobsById(id) \subseteq {n} /\ (n \in Deployed => jobs[n].id = id)

\* mongo_insert_job: an upsert by name that resets the instance list.
InsertJob(n, id, rr) ==
    /\ jobs' = [jobs EXCEPT ![n] = [id |-> id, rr |-> rr, inst |-> [i \in Instances |-> {}]]]
    /\ retired' = (IF n \in Deployed THEN retired \cup AddrsOf(jobs[n]) ELSE retired) \ rr

\* new_job_rr_address and new_job_rr_address_v6: the address the user asks
\* for, unless the job that is found to have it, as it is written there, is
\* another one, or an address of the pool.
RrAddress(p, n, custom) ==
    IF custom = NoIp THEN Available(p)
    ELSE {ip \in {custom} : JobsByIp(ip) # {} => n \in JobsByIp(ip)}

\* They raise: the pool is exhausted, or the job that is found is another one.
\* Of several jobs with an address any may be found.
RrAddressFails(p, n, custom) ==
    IF custom = NoIp THEN Available(p) = {} ELSE JobsByIp(custom) \ {n} # {}

\* What users asked for among the addresses of S.
Chosen(S) == chosen' = chosen \cup {Stringify(ip) : ip \in S \ AllAddrs}

\* deploy_request: both addresses, then the job, and any of these may fail.
DeployService(n, id, custom, customV6) ==
    \E a \in RrAddress("v4", n, custom) :
        \/ \E b \in RrAddress("rr_v6", n, customV6) :
              /\ TakeFromPools({a, b})
              /\ \/ CanInsert(n, id) /\ InsertJob(n, id, Stored({a, b})) /\ Chosen({a, b})
                 \/ ~CanInsert(n, id) /\ Lost({a, b}) /\ UNCHANGED <<jobs, chosen>>
        \/ /\ RrAddressFails("rr_v6", n, customV6)
           /\ TakeFromPools({a})
           /\ Lost({a})
           /\ UNCHANGED <<jobs, chosen>>

\* Faulty variant: an instance that exists already gets the new addresses,
\* which are also recorded as lost.
PushInstanceRepeated(id, i, S) ==
    /\ jobs' = [n \in Names |-> IF n \in JobsById(id)
          THEN [jobs[n] EXCEPT !.inst[i] = Stored(S)] ELSE jobs[n]]
    /\ Lost(S)

\* mongo_create_job_instance: the instance is pushed unless the job already has
\* it (its host fields, which are not modelled, are reset) or does not exist.
PushInstance(id, i, S) ==
    LET target == {n \in JobsById(id) : jobs[n].inst[i] = {}}
    IN  /\ jobs' = [n \in Names |-> IF n \in target
              THEN [jobs[n] EXCEPT !.inst[i] = Stored(S)] ELSE jobs[n]]
        /\ IF target = {} THEN Lost(S) ELSE UNCHANGED retired

\* instances_management.deploy_request: the addresses are taken first.
DeployInstance(id, i) ==
    \E a \in Available("v4") :
        \/ \E b \in Available("instance_v6") :
              TakeFromPools({a, b}) /\ PushInstance(id, i, {a, b}) /\ UNCHANGED chosen
        \/ /\ Available("instance_v6") = {}
           /\ TakeFromPools({a})
           /\ Lost({a})
           /\ UNCHANGED <<jobs, chosen>>

\* undeploy_request of some instances: one number, or -1 for all of them.
\* The addresses are not given back.
UndeployInstances(id, S) ==
    /\ JobsById(id) # {}
    /\ jobs' = [n \in Names |-> IF n \in JobsById(id)
          THEN [jobs[n] EXCEPT !.inst = [i \in Instances |-> IF i \in S THEN {} ELSE @[i]]]
          ELSE jobs[n]]
    /\ retired' = retired \cup UNION {jobs[n].inst[i] : n \in JobsById(id), i \in S}
    /\ UNCHANGED <<next, free, chosen>>

UndeployRequest(id) ==
    \/ \E i \in Instances : UndeployInstances(id, {i})
    \/ UndeployInstances(id, Instances)

\* remove_service: refused while instances are deployed.
RemoveService(id) ==
    \E n \in JobsById(id) :
        /\ \A i \in Instances : jobs[n].inst[i] = {}
        /\ jobs' = [jobs EXCEPT ![n] = NoJob]
        /\ retired' = retired \cup jobs[n].rr
        /\ UNCHANGED <<next, free, chosen>>

ServiceNext ==
    \/ \E n \in Names, id \in Ids :
          \E custom \in CustomAddrs("v4") \cup {NoIp}, customV6 \in CustomAddrs("rr_v6") \cup {NoIp} :
             DeployService(n, id, custom, customV6)
    \/ \E id \in Ids, i \in Instances : DeployInstance(id, i)
    \/ \E id \in Ids : UndeployRequest(id)
    \/ \E id \in Ids : RemoveService(id)
    \/ \E s \in retired : ClearInstanceIp(s)

ServiceSpec == ServiceInit /\ [][ServiceNext]_serviceVars

-----------------------------------------------------------------------------
(* Properties.                                                              *)

\* The type invariant: the counters and the caches hold addresses of their
\* pools, a stored job addresses that were handed out or asked for.
ServiceTypeOK ==
    /\ \A p \in Pools : next[p] \in PoolAddrs(p)
    /\ free \in [AllAddrs -> Nat]
    /\ jobs \in [Names -> {NoJob} \cup
          [id : Ids, rr : SUBSET StoredAddrs, inst : [Instances -> SUBSET StoredAddrs]]]
    /\ retired \subseteq StoredAddrs
    /\ chosen \subseteq {Stringify(s) : s \in StoredAddrs}

\* Who has addresses: a service its round-robin ones, an instance its own.
Users == Deployed \X (Instances \cup {"rr"})

AddressesOf(u) == IF u[2] = "rr" THEN jobs[u[1]].rr ELSE jobs[u[1]].inst[u[2]]

\* The docstring of new_instance_ip, "An instance address is a static address
\* bounded with a single replica of a service", as far as the code keeps it:
\* an address is the round-robin address of one service or the address of one
\* instance, however it is written.  Two users have one only if some user
\* asked for it, and then in two spellings or inside a pool, because the
\* lookups compare strings and the pools look nothing up that they can find.
AddressOwnedOnce ==
    \A u, v \in Users : \A s \in AddressesOf(u), t \in AddressesOf(v) :
        u # v /\ Stringify(s) = Stringify(t) =>
            /\ Stringify(s) \in chosen
            /\ s = t => Destringify(s) \in AllAddrs

\* The same docstring without the exception, which the code does not keep.
EveryAddressOwnedOnce ==
    \A u, v \in Users : \A s \in AddressesOf(u), t \in AddressesOf(v) :
        Stringify(s) = Stringify(t) => u = v

\* An address that is in use is not on offer, and an address on offer was
\* handed out before: the cache and the counter never overlap, but for the
\* addresses users asked for.
OfferedIsUnused ==
    \A a \in AllAddrs : Stringify(a) \notin chosen =>
        /\ free[a] <= 1
        /\ free[a] > 0 =>
              /\ \A u \in Users : \A s \in AddressesOf(u) : Stringify(s) # Stringify(a)
              /\ Stringify(a) \notin retired
              /\ Precedes(a, next[a.pool])

\* The comment in clear_instance_ip and in clear_instance_ip_v6, "Ensure that
\* the give address is actually before the next address from the pool": an
\* address that is before the counter can be given back.
AddressGiveBackAccepted ==
    \A s \in retired :
        LET a == Destringify(s)
        IN  s.pool # "rr_v6" /\ a \in AllAddrs /\ Precedes(a, next[a.pool]) => ClearInstanceAccepts(a)

\* The docstrings of get_next_available_ip, "the next x available service IPv4
\* addresses", and of get_next_available_ip_v6: an announced address is one
\* that can be handed out.
AnnouncedIsAvailable ==
    \A p \in {"v4", "instance_v6"} :
        CacheIsEmpty(p) => \A a \in NextAvailable(p) : ~AddressesExhausted(a)

=============================================================================
