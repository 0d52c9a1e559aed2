---------------------------- MODULE MCProxyCache ----------------------------
(***************************************************************************)
(* Model checking ProxyCache.  quiet counts the ticks since the last Add   *)
(* to a list or hit in it, independently of what the cache records, so     *)
(* that the eviction job can be judged by the traffic itself.              *)
(***************************************************************************)
EXTENDS ProxyCache

VARIABLE quiet

mcvars == <<conversionList, nextEntry, idle, quiet>>

Touch(p) == quiet' = [quiet EXCEPT ![p] = 0]

MCInit == CacheInit /\ quiet = [p \in SrcPorts |-> 0]

MCTick ==
    /\ CacheTick
    /\ quiet' = [p \in SrcPorts |->
                    IF quiet[p] > Timeout THEN quiet[p] ELSE quiet[p] + 1]

MCEvict == EvictOldEntries /\ UNCHANGED quiet

MCNext ==
    \/ \E p \in SrcPorts, e \in Flow : Add(p, e) /\ Touch(p)
    \/ \E p \in SrcPorts, s \in SrcIps, v \in InstanceIps, d \in ServiceIps,
          q \in DstPorts : RetrieveByServiceIP(s, v, p, d, q) /\ Touch(p)
    \/ \E p \in SrcPorts, s \in SrcIps, q \in DstPorts :
          RetrieveByInstanceIp(s, p, q) /\ Touch(p)
    \/ MCEvict
    \/ MCTick

\* time.Ticker keeps firing and time keeps passing; nothing is assumed of the
\* traffic.
MCSpec == MCInit /\ [][MCNext]_mcvars /\ WF_mcvars(MCEvict) /\ WF_mcvars(MCTick)

\* An active flow keeps its translation: the eviction job drops a list only
\* if, for more than the timeout, no flow was added to it, no outgoing packet
\* hit it and no answer hit it (evictOldEntries against the lastUsed that the
\* two retrievals store under the shared lock).
EvictsOnlyQuietLists ==
    [][\A p \in SrcPorts :
          conversionList[p] # NilList /\ conversionList'[p] = NilList
             => quiet[p] > Timeout]_mcvars

=============================================================================
