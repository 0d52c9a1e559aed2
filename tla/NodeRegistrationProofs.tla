----------------------- MODULE NodeRegistrationProofs -----------------------
(***************************************************************************)
(* Proofs about NodeRegistration, for all nodes, calls and lives, whatever *)
(* fails: no two nodes use one subnetwork, a node that serves is set up    *)
(* for its own, without the rules of an earlier life, and stays.           *)
(*                                                                         *)
(* All that is said of a node follows from one argument.  The TUN device   *)
(* can be created once in a life, so that one call at most is past that    *)
(* point (OneCallInCharge); what it has done on the host is not undone by  *)
(* another call (HostFollowsCall); and once it has set the environment, no *)
(* call is past that point any more.  Subnetworks are tracked from the     *)
(* root's counter through the messages and buffers to the environment      *)
(* (Given): all that reach a node were given to it and to no other.        *)
(***************************************************************************)
EXTENDS NodeRegistration, SequenceTheorems, TLAPS

\* What a call has before it once it has created the TUN device.
SettingUp == {"listen", "request", "waiting", "bridge", "forwarding", "masquerading", "environment"}
Listened == SettingUp \ {"listen"}
HasSubnet == {"bridge", "forwarding", "masquerading", "environment"}
HasBridge == {"forwarding", "masquerading", "environment"}
HasChain == {"masquerading", "environment"}

\* One call creates the TUN device and sets up the node.
OneCallInCharge(n) ==
    /\ \A r, q \in Calls : call[n][r] \in SettingUp /\ call[n][q] \in SettingUp => r = q
    /\ \A r \in Calls : call[n][r] \in SettingUp => node[n].tun /\ node[n].env = None

\* An answer reaches the node only if it is subscribed.
AnswersAreSubscribed(n) ==
    /\ results[n] # <<>> => node[n].subscribed
    /\ node[n].handling # <<>> => node[n].subscribed
    /\ \A r \in Calls : node[n].buffer[r] # <<>> => node[n].subscribed

\* How far the call in charge has come.
HostFollowsCall(n) ==
    \A r \in Calls :
        /\ call[n][r] \in Listened => node[n].listening
        /\ call[n][r] \in HasSubnet => node[n].subnet # None /\ node[n].subscribed
        /\ call[n][r] \in HasBridge => host[n].bridge = node[n].subnet
        /\ call[n][r] \in HasChain => host[n].chain /\ host[n].jumps = Hooks
        /\ call[n][r] = "environment" => node[n].subnet \in host[n].masqueraded

\* What it leaves when it has set the environment.
HostIsReady(n) ==
    node[n].env # None =>
        /\ node[n].tun /\ node[n].listening /\ node[n].subscribed
        /\ host[n].bridge = node[n].env
        /\ host[n].chain /\ host[n].jumps = Hooks
        /\ node[n].env \in host[n].masqueraded

\* The server for deployments has started, rules are those of this life, and
\* only a node that is called may end.
LifeOK(n) ==
    /\ node[n].stage = "main" => node[n].env # None
    /\ host[n].ports \in {0, node[n].life}
    /\ node[n].registered \/ node[n].listening => node[n].life <= MaxLives[n]
    /\ \A r \in Calls : call[n][r] # "none" => node[n].life <= MaxLives[n]

\* The subnetworks that were given to a node in its life, wherever they are.
Given(n) ==
    {s \in Subnets :
        \/ s = node[n].env
        \/ s = node[n].subnet
        \/ \E r \in Calls : node[n].buffer[r] = <<s>>
        \/ \E c \in Calls \cup {None} : node[n].handling = <<[channel |-> c, subnet |-> s]>>
        \/ \E i \in 1 .. Len(results[n]) : results[n][i] = s}

\* None was given to two nodes, and the root has handed out them all.
GivenOnce ==
    /\ \A n, m \in Nodes : n # m => Given(n) \cap Given(m) = {}
    /\ \A n \in Nodes : \A s \in Given(n) : s < nextSubnet

NodeOK(n) ==
    OneCallInCharge(n) /\ AnswersAreSubscribed(n) /\ HostFollowsCall(n) /\ HostIsReady(n) /\ LifeOK(n)

IInv == TypeOK /\ (\A n \in Nodes : NodeOK(n)) /\ GivenOnce

-----------------------------------------------------------------------------
(* The argument of every step.                                              *)

\* What was given to a node depends on where its subnetworks are, and on
\* nothing else of it.
LEMMA GivenSame ==
    ASSUME NEW n \in Nodes, node'[n].env = node[n].env, node'[n].subnet = node[n].subnet,
           node'[n].buffer = node[n].buffer, node'[n].handling = node[n].handling,
           results'[n] = results[n]
    PROVE  Given(n)' = Given(n)
<1> DEFINE G(env, subnet, buffer, handling, messages) ==
             {s \in Subnets :
                 \/ s = env
                 \/ s = subnet
                 \/ \E r \in Calls : buffer[r] = <<s>>
                 \/ \E c \in Calls \cup {None} : handling = <<[channel |-> c, subnet |-> s]>>
                 \/ \E i \in 1 .. Len(messages) : messages[i] = s}
<1>1. Given(n) = G(node[n].env, node[n].subnet, node[n].buffer, node[n].handling, results[n])
  BY DEF Given
<1>2. Given(n)' = G(node'[n].env, node'[n].subnet, node'[n].buffer, node'[n].handling, results'[n])
  BY DEF Given
<1> HIDE DEF G
<1>. QED BY <1>1, <1>2

\* The other nodes are left alone.
OthersKeep(n) ==
    \A m \in Nodes \ {n} :
        /\ node'[m] = node[m] /\ host'[m] = host[m]
        /\ call'[m] = call[m] /\ results'[m] = results[m]

\* A step gives its node nothing, or what the counter of the root points at.
GivesNext(n) ==
    \/ nextSubnet' = nextSubnet /\ Given(n)' \subseteq Given(n)
    \/ /\ nextSubnet' = nextSubnet + 1 /\ nextSubnet \in Subnets
       /\ Given(n)' \subseteq Given(n) \cup {nextSubnet}

\* What has to be shown of a step of a node.
LEMMA OneNodeSteps ==
    ASSUME IInv, NEW n \in Nodes, TypeOK', OthersKeep(n), NodeOK(n)', GivesNext(n)
    PROVE  IInv'
<1>1. ASSUME NEW m \in Nodes, m # n PROVE NodeOK(m)' /\ Given(m)' = Given(m)
  <2>1. /\ node'[m] = node[m] /\ host'[m] = host[m]
        /\ call'[m] = call[m] /\ results'[m] = results[m]
    BY <1>1 DEF OthersKeep
  <2>2. NodeOK(m)
    BY DEF IInv
  <2>3. NodeOK(m)'
    BY <2>1, <2>2 DEF NodeOK, OneCallInCharge, AnswersAreSubscribed, HostFollowsCall,
                      HostIsReady, LifeOK
  <2>4. Given(m)' = Given(m)
    BY <2>1, GivenSame
  <2>. QED BY <2>3, <2>4
<1>2. nextSubnet \in Nat /\ nextSubnet' \in Nat /\ nextSubnet <= nextSubnet'
  BY BoundsAssumption DEF IInv, TypeOK, GivesNext
<1>3. \A m \in Nodes : \A s \in Given(m) : s \in Nat /\ s < nextSubnet
  <2>1. \A m \in Nodes : Given(m) \subseteq Nat
    BY BoundsAssumption DEF Given, Subnets
  <2>. QED BY <2>1 DEF IInv, GivenOnce
<1>4. ASSUME NEW m \in Nodes, m # n PROVE Given(n)' \cap Given(m)' = {}
  <2>1. Given(n) \cap Given(m) = {}
    BY <1>4 DEF IInv, GivenOnce
  <2>2. nextSubnet \notin Given(m)
    BY <1>2, <1>3
  <2>. QED BY <2>1, <2>2, <1>1, <1>4 DEF GivesNext
<1>5. \A m \in Nodes : \A s \in Given(m)' : s < nextSubnet'
  BY <1>1, <1>2, <1>3 DEF GivesNext
<1>6. GivenOnce'
  BY <1>1, <1>4, <1>5 DEF IInv, GivenOnce
<1>. QED BY <1>1, <1>6 DEF IInv

\* A process that ends is started again, with no call and nothing of a call.
LEMMA DiesStep ==
    ASSUME IInv, NEW n \in Nodes, NEW left \in HostStates,
           node[n].life <= MaxLives[n], DiesLeaving(n, left)
    PROVE  IInv'
<1>1. /\ node' = [node EXCEPT ![n] = Started(node[n].life + 1)]
      /\ host' = [host EXCEPT ![n] = IptableFlushAll(left)]
      /\ call' = [call EXCEPT ![n] = [r \in Calls |-> "none"]]
      /\ results' = [results EXCEPT ![n] = <<>>]
      /\ UNCHANGED <<requests, record, nextSubnet>>
  BY DEF DiesLeaving
<1>2. TypeOK /\ node[n].life \in Nat /\ MaxLives[n] \in Nat
  BY BoundsAssumption DEF IInv, TypeOK, NodeStates
<1>3. /\ IptableFlushAll(left) \in HostStates
      /\ IptableFlushAll(left).ports = 0
  BY DEF IptableFlushAll, DeleteChain, HostStates
<1>4. Started(node[n].life + 1) \in NodeStates
  BY <1>2 DEF Started, NodeStates
<1>5. TypeOK'
  <2>1. node' \in [Nodes -> NodeStates] /\ host' \in [Nodes -> HostStates]
    BY <1>1, <1>2, <1>3, <1>4 DEF TypeOK
  <2>2. \A m \in Nodes : node'[m].life \in 1 .. MaxLives[m] + 1
    <3>1. node'[n].life = node[n].life + 1
      BY <1>1, <1>2 DEF TypeOK, Started
    <3>2. \A m \in Nodes : m # n => node'[m] = node[m]
      BY <1>1, <1>2 DEF TypeOK
    <3>3. \A m \in Nodes : MaxLives[m] \in Nat /\ node[m].life \in 1 .. MaxLives[m] + 1
      BY <1>2, BoundsAssumption DEF TypeOK
    <3>. QED BY <3>1, <3>2, <3>3, <1>2
  <2>3. results' \in [Nodes -> Seq(Subnets)]
    BY <1>1, <1>2, EmptySeq DEF TypeOK
  <2>. QED BY <1>1, <1>2, <2>1, <2>2, <2>3 DEF TypeOK
<1>6. OthersKeep(n)
  BY <1>1, <1>2 DEF OthersKeep, TypeOK
<1>7. /\ node'[n] = Started(node[n].life + 1)
      /\ host'[n] = IptableFlushAll(left)
      /\ call'[n] = [r \in Calls |-> "none"]
      /\ results'[n] = <<>>
  BY <1>1, <1>2 DEF TypeOK
<1>8. NodeOK(n)'
  BY <1>3, <1>7 DEF NodeOK, OneCallInCharge, AnswersAreSubscribed, HostFollowsCall,
                    HostIsReady, LifeOK, Started, SettingUp, Listened, HasSubnet, HasBridge, HasChain
<1>9. Given(n)' = {}
  <2>1. None \notin Subnets
    BY NoneAssumption DEF Subnets
  <2>. QED BY <2>1, <1>7 DEF Given, Started
<1>10. GivesNext(n)
  BY <1>1, <1>9 DEF GivesNext
<1>. QED BY <1>5, <1>6, <1>8, <1>10, OneNodeSteps

-----------------------------------------------------------------------------
(* The steps of register.                                                   *)

Labels == {"none", "unregistered", "connect", "connecting", "proxy", "listen",
           "request", "waiting", "bridge", "forwarding", "masquerading",
           "environment", "ok", "aborted"}

\* One call of the node is somewhere else.
LEMMA GotoMoves ==
    ASSUME TypeOK, NEW n \in Nodes, NEW r \in Calls, NEW l \in Labels, Goto(n, r, l)
    PROVE  /\ call'[n][r] = l
           /\ \A q \in Calls \ {r} : call'[n][q] = call[n][q]
           /\ \A m \in Nodes \ {n} : call'[m] = call[m]
           /\ call' \in [Nodes -> [Calls -> Labels]]
<1>1. call \in [Nodes -> [Calls -> Labels]]
  BY DEF TypeOK, Labels
<1>. QED BY <1>1 DEF Goto

\* What has to be shown of a step of a call.
LEMMA CallSteps ==
    ASSUME IInv, NEW n \in Nodes, NEW r \in Calls, NEW l \in Labels, Goto(n, r, l),
           NEW state \in NodeStates, node' = [node EXCEPT ![n] = state],
           NEW left \in HostStates, host' = [host EXCEPT ![n] = left],
           state.life = node[n].life,
           requests' \in [Nodes -> Nat], UNCHANGED <<results, record, nextSubnet>>,
           Given(n)' \subseteq Given(n), NodeOK(n)'
    PROVE  IInv'
<1>1. TypeOK
  BY DEF IInv
<1>2. TypeOK'
  <2>1. /\ node' \in [Nodes -> NodeStates] /\ host' \in [Nodes -> HostStates]
        /\ \A m \in Nodes : node'[m].life = node[m].life
    BY <1>1 DEF TypeOK
  <2>2. call' \in [Nodes -> [Calls -> Labels]]
    BY <1>1, GotoMoves
  <2>. QED BY <1>1, <2>1, <2>2 DEF TypeOK, Labels
<1>3. OthersKeep(n)
  BY <1>1, GotoMoves DEF OthersKeep, TypeOK
<1>4. GivesNext(n)
  BY DEF GivesNext
<1>. QED BY <1>2, <1>3, <1>4, OneNodeSteps

\* A call that has not created the TUN device moves on, or a call returns: the
\* node has the same subnetworks and the same call in charge.
LEMMA EarlyStep ==
    ASSUME IInv, NEW n \in Nodes, NEW r \in Calls, NEW l \in Labels \ SettingUp, Goto(n, r, l),
           NEW registered \in BOOLEAN, NEW once \in {"no", "running", "done"}, NEW connected \in BOOLEAN,
           node' = [node EXCEPT ![n] =
              [node[n] EXCEPT !.registered = registered, !.once = once, !.connected = connected]],
           UNCHANGED <<host, clusterVars>>,
           node[n].life <= MaxLives[n]
    PROVE  IInv'
<1> DEFINE state == [node[n] EXCEPT !.registered = registered, !.once = once, !.connected = connected]
<1>1. TypeOK /\ NodeOK(n)
  BY DEF IInv
<1>2. node[n] \in NodeStates
  BY <1>1 DEF TypeOK
<1>3. /\ state \in NodeStates /\ state.life = node[n].life /\ state.tun = node[n].tun
      /\ state.env = node[n].env /\ state.subscribed = node[n].subscribed
      /\ state.listening = node[n].listening /\ state.subnet = node[n].subnet
      /\ state.buffer = node[n].buffer /\ state.handling = node[n].handling
      /\ state.stage = node[n].stage
  <2>1. state \in NodeStates
    BY <1>2 DEF NodeStates
  <2>2. /\ state.life = node[n].life /\ state.tun = node[n].tun
        /\ state.env = node[n].env /\ state.subscribed = node[n].subscribed
    BY <1>2 DEF NodeStates
  <2>3. /\ state.listening = node[n].listening /\ state.subnet = node[n].subnet
        /\ state.buffer = node[n].buffer
    BY <1>2 DEF NodeStates
  <2>4. state.handling = node[n].handling /\ state.stage = node[n].stage
    BY <1>2 DEF NodeStates
  <2>. QED BY <2>1, <2>2, <2>3, <2>4
<1>4. node' = [node EXCEPT ![n] = state]
  OBVIOUS
<1> HIDE DEF state
<1>5. host' = [host EXCEPT ![n] = host[n]] /\ host[n] \in HostStates
      /\ requests' \in [Nodes -> Nat]
  BY <1>1 DEF TypeOK, clusterVars
<1>6. /\ node'[n] = state /\ host'[n] = host[n] /\ results'[n] = results[n]
      /\ call'[n][r] = l /\ \A q \in Calls \ {r} : call'[n][q] = call[n][q]
  BY <1>1, <1>4, GotoMoves DEF TypeOK, clusterVars
<1>7. Given(n)' = Given(n)
  BY <1>3, <1>6, GivenSame
<1>8. l \notin SettingUp /\ l \notin Listened /\ l \notin HasSubnet /\ l \notin HasBridge
      /\ l \notin HasChain /\ l # "environment"
  BY DEF SettingUp, Listened, HasSubnet, HasBridge, HasChain
<1>9. OneCallInCharge(n)'
  BY <1>1, <1>3, <1>6, <1>8 DEF NodeOK, OneCallInCharge
<1>10. AnswersAreSubscribed(n)' /\ HostIsReady(n)'
  BY <1>1, <1>3, <1>6 DEF NodeOK, AnswersAreSubscribed, HostIsReady
<1>11. HostFollowsCall(n)'
  BY <1>1, <1>3, <1>6, <1>8 DEF NodeOK, HostFollowsCall
<1>12. LifeOK(n)'
  BY <1>1, <1>3, <1>6 DEF NodeOK, LifeOK
<1>. QED BY <1>3, <1>4, <1>5, <1>7, <1>9, <1>10, <1>11, <1>12, CallSteps DEF NodeOK, clusterVars

\* When a call is past the TUN device, the others are not.
LEMMA OthersAreEarly ==
    ASSUME NEW n \in Nodes, NodeOK(n), NEW r \in Calls, call[n][r] \in SettingUp
    PROVE  /\ \A q \in Calls \ {r} : call[n][q] \notin SettingUp
           /\ node[n].tun /\ node[n].env = None
BY DEF NodeOK, OneCallInCharge

\* The stages are nested.
LEMMA StagesAreNested ==
    /\ HasChain \subseteq HasBridge /\ HasBridge \subseteq HasSubnet
    /\ HasSubnet \subseteq Listened /\ Listened \subseteq SettingUp
    /\ "environment" \in HasChain /\ SettingUp \subseteq Labels
BY DEF SettingUp, Listened, HasSubnet, HasBridge, HasChain, Labels

\* The call that creates the TUN device finds none, so no other call has.
LEMMA CreateTunStep ==
    ASSUME IInv, NEW n \in Nodes, NEW r \in Calls, CreateTun(n, r)
    PROVE  IInv'
<1> DEFINE state == [node[n] EXCEPT !.tun = TRUE]
<1>1. TypeOK /\ NodeOK(n) /\ node[n] \in NodeStates /\ host[n] \in HostStates
  BY DEF IInv, TypeOK
<1>2. /\ call[n][r] = "proxy" /\ ~node[n].tun /\ Goto(n, r, "listen")
      /\ node' = [node EXCEPT ![n] = state] /\ UNCHANGED <<host, clusterVars>>
  BY DEF CreateTun, TunIsNew
<1>3. /\ state \in NodeStates /\ state.life = node[n].life /\ state.tun = TRUE
      /\ state.env = node[n].env /\ state.subscribed = node[n].subscribed
      /\ state.listening = node[n].listening /\ state.subnet = node[n].subnet
      /\ state.buffer = node[n].buffer /\ state.handling = node[n].handling
      /\ state.stage = node[n].stage /\ state.registered = node[n].registered
  BY <1>1 DEF NodeStates
<1> HIDE DEF state
<1>4. host' = [host EXCEPT ![n] = host[n]] /\ requests' \in [Nodes -> Nat]
  BY <1>1, <1>2 DEF TypeOK, clusterVars
<1>5. /\ node'[n] = state /\ host'[n] = host[n] /\ results'[n] = results[n]
      /\ call'[n][r] = "listen" /\ \A q \in Calls \ {r} : call'[n][q] = call[n][q]
  BY <1>1, <1>2, GotoMoves DEF TypeOK, clusterVars, Labels
<1>6. /\ \A q \in Calls : call[n][q] \notin SettingUp
      /\ node[n].env = None /\ node[n].life <= MaxLives[n]
  BY <1>1, <1>2 DEF NodeOK, OneCallInCharge, HostIsReady, LifeOK
<1>7. Given(n)' = Given(n)
  BY <1>3, <1>5, GivenSame
<1>8. "listen" \in SettingUp /\ "listen" \notin Listened
  BY DEF SettingUp, Listened
<1>9. OneCallInCharge(n)'
  BY <1>3, <1>5, <1>6 DEF OneCallInCharge
<1>10. AnswersAreSubscribed(n)' /\ HostIsReady(n)'
  BY <1>1, <1>3, <1>5 DEF NodeOK, AnswersAreSubscribed, HostIsReady
<1>11. HostFollowsCall(n)'
  BY <1>5, <1>6, <1>8, StagesAreNested DEF HostFollowsCall
<1>12. LifeOK(n)'
  BY <1>1, <1>3, <1>5, <1>6 DEF NodeOK, LifeOK
<1>13. NodeOK(n)' /\ "listen" \in Labels /\ UNCHANGED <<results, record, nextSubnet>>
  BY <1>2, <1>9, <1>10, <1>11, <1>12 DEF NodeOK, clusterVars, Labels
<1>. QED BY <1>1, <1>2, <1>3, <1>4, <1>7, <1>13, CallSteps

\* The call in charge waits for the proxy, then for an answer.
LEMMA WaitStep ==
    ASSUME IInv, NEW n \in Nodes, NEW r \in Calls, Listen(n, r) \/ RequestSubnet(n, r)
    PROVE  IInv'
<1> DEFINE state == IF call[n][r] = "listen" THEN [node[n] EXCEPT !.listening = TRUE]
                                             ELSE [node[n] EXCEPT !.channel = r]
           l == IF call[n][r] = "listen" THEN "request" ELSE "waiting"
<1>1. TypeOK /\ NodeOK(n) /\ node[n] \in NodeStates /\ host[n] \in HostStates
  BY DEF IInv, TypeOK
<1>2. /\ call[n][r] \in {"listen", "request"} /\ Goto(n, r, l)
      /\ node' = [node EXCEPT ![n] = state]
      /\ UNCHANGED <<host, results, record, nextSubnet>>
  BY DEF Listen, RequestSubnet, clusterVars
<1>3. /\ state \in NodeStates /\ state.life = node[n].life /\ state.tun = node[n].tun
      /\ state.env = node[n].env /\ state.subscribed = node[n].subscribed
      /\ state.subnet = node[n].subnet /\ state.buffer = node[n].buffer
      /\ state.handling = node[n].handling /\ state.stage = node[n].stage
      /\ state.listening = (node[n].listening \/ call[n][r] = "listen")
  BY <1>1 DEF NodeStates
<1>4. host' = [host EXCEPT ![n] = host[n]] /\ requests' \in [Nodes -> Nat]
  BY <1>1, <1>2 DEF TypeOK, Listen, RequestSubnet, clusterVars
<1>5. l \in Listened /\ l \notin HasSubnet /\ l \in Labels /\ call[n][r] \in SettingUp
  BY <1>2 DEF Listened, SettingUp, HasSubnet, Labels
<1>6. call[n][r] = "request" => node[n].listening
  BY <1>1 DEF NodeOK, HostFollowsCall, Listened, SettingUp
<1> HIDE DEF state, l
<1>7. /\ node'[n] = state /\ host'[n] = host[n] /\ results'[n] = results[n]
      /\ call'[n][r] = l /\ \A q \in Calls \ {r} : call'[n][q] = call[n][q]
  BY <1>1, <1>2, <1>5, GotoMoves DEF TypeOK
<1>8. /\ \A q \in Calls \ {r} : call[n][q] \notin SettingUp
      /\ node[n].tun /\ node[n].env = None
  BY <1>1, <1>5, OthersAreEarly
<1>9. node[n].life <= MaxLives[n]
  BY <1>1, <1>2 DEF NodeOK, LifeOK
<1>10. Given(n)' = Given(n)
  BY <1>3, <1>7, GivenSame
<1>11. OneCallInCharge(n)'
  BY <1>3, <1>7, <1>8 DEF OneCallInCharge
<1>12. AnswersAreSubscribed(n)' /\ HostIsReady(n)'
  BY <1>1, <1>3, <1>7, <1>8 DEF NodeOK, AnswersAreSubscribed, HostIsReady
<1>13. HostFollowsCall(n)'
  <2>1. \A q \in Calls \ {r} : call'[n][q] \notin SettingUp
    BY <1>7, <1>8
  <2>2. node'[n].listening
    BY <1>2, <1>3, <1>6, <1>7
  <2>3. \A q \in Calls : call'[n][q] \notin HasSubnet
    BY <2>1, <1>5, <1>7, StagesAreNested
  <2>. QED BY <2>2, <2>3, StagesAreNested DEF HostFollowsCall
<1>14. LifeOK(n)'
  BY <1>1, <1>3, <1>7, <1>9 DEF NodeOK, LifeOK
<1>15. NodeOK(n)'
  BY <1>11, <1>12, <1>13, <1>14 DEF NodeOK
<1>. QED BY <1>1, <1>2, <1>3, <1>4, <1>5, <1>10, <1>15, CallSteps

\* The call in charge takes the answer in its channel, which was delivered to
\* a subscribed node.
LEMMA ConfiguredStep ==
    ASSUME IInv, NEW n \in Nodes, NEW r \in Calls, Configured(n, r)
    PROVE  IInv'
<1> DEFINE subnet == Head(node[n].buffer[r])
           state == [node[n] EXCEPT !.subnet = subnet, !.buffer = [@ EXCEPT ![r] = <<>>]]
<1>1. TypeOK /\ NodeOK(n) /\ node[n] \in NodeStates /\ host[n] \in HostStates
  BY DEF IInv, TypeOK
<1>2. /\ call[n][r] = "waiting" /\ node[n].buffer[r] # <<>> /\ Goto(n, r, "bridge")
      /\ node' = [node EXCEPT ![n].subnet = subnet, ![n].buffer[r] = <<>>]
      /\ UNCHANGED <<host, clusterVars>>
  BY DEF Configured
<1>3. node[n].buffer \in [Calls -> {<<>>} \cup {<<s>> : s \in Subnets}]
  BY <1>1 DEF NodeStates
<1>4. subnet \in Subnets /\ node[n].buffer[r] = <<subnet>>
  BY <1>2, <1>3
<1>5. node' = [node EXCEPT ![n] = state]
  BY <1>1, <1>2 DEF NodeStates, TypeOK
<1>6. /\ state.buffer \in [Calls -> {<<>>} \cup {<<s>> : s \in Subnets}]
      /\ \A q \in Calls : state.buffer[q] = IF q = r THEN <<>> ELSE node[n].buffer[q]
  BY <1>1, <1>3 DEF NodeStates
<1>7. /\ state \in NodeStates /\ state.life = node[n].life /\ state.tun = node[n].tun
      /\ state.env = node[n].env /\ state.subscribed = node[n].subscribed
      /\ state.subnet = subnet /\ state.listening = node[n].listening
      /\ state.handling = node[n].handling /\ state.stage = node[n].stage
      /\ state.registered = node[n].registered
  BY <1>1, <1>4, <1>6 DEF NodeStates
<1> HIDE DEF state, subnet
<1>8. host' = [host EXCEPT ![n] = host[n]] /\ requests' \in [Nodes -> Nat]
  BY <1>1, <1>2 DEF TypeOK, clusterVars
<1>9. /\ "waiting" \in SettingUp /\ "waiting" \in Listened
      /\ "bridge" \in HasSubnet /\ "bridge" \notin HasBridge /\ "bridge" \in Labels
  BY DEF Listened, SettingUp, HasSubnet, HasBridge, Labels
<1>10. /\ node'[n] = state /\ host'[n] = host[n] /\ results'[n] = results[n]
       /\ call'[n][r] = "bridge" /\ \A q \in Calls \ {r} : call'[n][q] = call[n][q]
  BY <1>1, <1>2, <1>5, <1>9, GotoMoves DEF TypeOK, clusterVars
<1>11. /\ \A q \in Calls \ {r} : call[n][q] \notin SettingUp
       /\ node[n].tun /\ node[n].env = None /\ node[n].listening /\ node[n].subscribed
  BY <1>1, <1>2, <1>9, OthersAreEarly DEF NodeOK, HostFollowsCall, AnswersAreSubscribed
<1>12. node[n].life <= MaxLives[n]
  BY <1>1, <1>2 DEF NodeOK, LifeOK
<1>13. Given(n)' \subseteq Given(n)
  <2>1. ASSUME NEW q \in Calls, NEW s \in Subnets, state.buffer[q] = <<s>>
        PROVE  node[n].buffer[q] = <<s>>
    BY <2>1, <1>6
  <2>. QED BY <2>1, <1>4, <1>7, <1>10 DEF Given
<1>14. OneCallInCharge(n)'
  <2>1. node'[n].tun /\ node'[n].env = None
    BY <1>7, <1>10, <1>11
  <2>2. \A q \in Calls \ {r} : call'[n][q] \notin SettingUp
    BY <1>10, <1>11
  <2>. QED BY <2>1, <2>2 DEF OneCallInCharge
<1>15. AnswersAreSubscribed(n)' /\ HostIsReady(n)'
  BY <1>1, <1>6, <1>7, <1>10, <1>11 DEF NodeOK, AnswersAreSubscribed, HostIsReady
<1>16. subnet # None
  BY <1>4, NoneAssumption DEF Subnets
<1>17. HostFollowsCall(n)'
  <2>1. \A q \in Calls \ {r} : call'[n][q] \notin SettingUp
    BY <1>10, <1>11
  <2>2. node'[n].listening /\ node'[n].subnet # None /\ node'[n].subscribed
    BY <1>7, <1>10, <1>11, <1>16
  <2>3. \A q \in Calls : call'[n][q] \notin HasBridge
    BY <2>1, <1>9, <1>10, StagesAreNested
  <2>. QED BY <2>2, <2>3, StagesAreNested DEF HostFollowsCall
<1>18. LifeOK(n)'
  BY <1>1, <1>7, <1>10, <1>12 DEF NodeOK, LifeOK
<1>19. NodeOK(n)' /\ UNCHANGED <<results, record, nextSubnet>>
  BY <1>2, <1>14, <1>15, <1>17, <1>18 DEF NodeOK, clusterVars
<1>. QED BY <1>1, <1>2, <1>5, <1>7, <1>8, <1>9, <1>13, <1>19, CallSteps

\* A step on the host: what the call must have done when it goes on.
LEMMA SetUpStep ==
    ASSUME IInv, NEW n \in Nodes, NEW r \in Calls,
           NEW from \in HasSubnet, NEW to \in HasBridge, NEW after \in HostStates,
           SetUp(n, r, from, to, after),
           after.ports \in {0, node[n].life},
           after.bridge = node[n].subnet,
           to \in HasChain => after.chain /\ after.jumps = Hooks,
           to = "environment" => node[n].subnet \in after.masqueraded
    PROVE  IInv'
<1>1. TypeOK /\ NodeOK(n) /\ node[n] \in NodeStates
  BY DEF IInv, TypeOK
<1>2. /\ call[n][r] = from /\ Goto(n, r, to) /\ host' = [host EXCEPT ![n] = after]
      /\ UNCHANGED <<node, clusterVars>>
  BY DEF SetUp
<1>3. node' = [node EXCEPT ![n] = node[n]] /\ requests' \in [Nodes -> Nat]
  BY <1>1, <1>2 DEF TypeOK, clusterVars
<1>4. from \in SettingUp /\ from \in Listened /\ to \in SettingUp /\ to \in Labels
  BY StagesAreNested
<1>5. /\ node'[n] = node[n] /\ host'[n] = after /\ results'[n] = results[n]
      /\ call'[n][r] = to /\ \A q \in Calls \ {r} : call'[n][q] = call[n][q]
  BY <1>1, <1>2, <1>4, GotoMoves DEF TypeOK, clusterVars
<1>6. /\ \A q \in Calls \ {r} : call[n][q] \notin SettingUp
      /\ node[n].tun /\ node[n].env = None
  BY <1>1, <1>2, <1>4, OthersAreEarly
<1>7. /\ node[n].listening /\ node[n].subnet # None /\ node[n].subscribed
      /\ node[n].life <= MaxLives[n]
  <2>1. from # "none"
    BY DEF HasSubnet
  <2>. QED BY <1>1, <1>2, <1>4, <2>1 DEF NodeOK, HostFollowsCall, LifeOK
<1>8. Given(n)' = Given(n)
  BY <1>5, GivenSame
<1>9. OneCallInCharge(n)'
  BY <1>5, <1>6 DEF OneCallInCharge
<1>10. AnswersAreSubscribed(n)' /\ HostIsReady(n)'
  BY <1>1, <1>5, <1>6 DEF NodeOK, AnswersAreSubscribed, HostIsReady
<1>11. HostFollowsCall(n)'
  <2>1. ASSUME NEW q \in Calls \ {r} PROVE call'[n][q] \notin SettingUp
    BY <1>5, <1>6
  <2>. QED BY <1>5, <1>7, <2>1, StagesAreNested DEF HostFollowsCall
<1>12. LifeOK(n)'
  BY <1>1, <1>5, <1>7 DEF NodeOK, LifeOK
<1>13. NodeOK(n)' /\ UNCHANGED <<results, record, nextSubnet>>
  BY <1>2, <1>9, <1>10, <1>11, <1>12 DEF NodeOK, clusterVars
<1>. QED BY <1>1, <1>2, <1>3, <1>4, <1>8, <1>13, CallSteps

\* The commands of NewCustom, in their order: the later ones keep what the
\* earlier ones made.
LEMMA SetUpSteps ==
    ASSUME IInv, NEW n \in Nodes, NEW r \in Calls,
           CreateHostBridge(n, r) \/ EnableForwarding(n, r) \/ EnableMasquerading(n, r)
    PROVE  IInv'
<1>1. /\ NodeOK(n) /\ host[n] \in HostStates /\ node[n] \in NodeStates
      /\ node[n].subnet \in Subnets \cup {None} /\ host[n].ports \in {0, node[n].life}
  BY DEF IInv, TypeOK, NodeStates, NodeOK, LifeOK
<1>2. CASE CreateHostBridge(n, r)
  <2>1. /\ Bridged(host[n], node[n].subnet) \in HostStates
        /\ Bridged(host[n], node[n].subnet).bridge = node[n].subnet
        /\ Bridged(host[n], node[n].subnet).ports = host[n].ports
    BY <1>1 DEF Bridged, HostStates
  <2>2. /\ "bridge" \in HasSubnet /\ "forwarding" \in HasBridge
        /\ "forwarding" \notin HasChain /\ "forwarding" # "environment"
    BY DEF HasSubnet, HasBridge, HasChain
  <2>. QED BY <1>1, <1>2, <2>1, <2>2, SetUpStep DEF CreateHostBridge
<1>3. CASE EnableForwarding(n, r)
  <2>1. host[n].bridge = node[n].subnet
    <3>1. call[n][r] = "forwarding" /\ "forwarding" \in HasBridge
      BY <1>3 DEF EnableForwarding, SetUp, HasBridge
    <3>. QED BY <1>1, <3>1 DEF NodeOK, HostFollowsCall
  <2>2. /\ Forwarded(host[n], Hooks) \in HostStates
        /\ Forwarded(host[n], Hooks).bridge = host[n].bridge
        /\ Forwarded(host[n], Hooks).ports = 0
        /\ Forwarded(host[n], Hooks).chain /\ Forwarded(host[n], Hooks).jumps = Hooks
    BY <1>1 DEF Forwarded, DeleteChain, HostStates
  <2>3. "forwarding" \in HasSubnet /\ "masquerading" \in HasBridge /\ "masquerading" # "environment"
    BY DEF HasSubnet, HasBridge
  <2>. QED BY <1>3, <2>1, <2>2, <2>3, SetUpStep DEF EnableForwarding
<1>4. CASE EnableMasquerading(n, r)
  <2>1. /\ host[n].bridge = node[n].subnet /\ node[n].subnet # None
        /\ host[n].chain /\ host[n].jumps = Hooks
    <3>1. /\ call[n][r] = "masquerading" /\ "masquerading" \in HasBridge
          /\ "masquerading" \in HasSubnet /\ "masquerading" \in HasChain
      BY <1>4 DEF EnableMasquerading, SetUp, HasBridge, HasSubnet, HasChain
    <3>. QED BY <1>1, <3>1 DEF NodeOK, HostFollowsCall
  <2> DEFINE after == Masqueraded(host[n], node[n].subnet)
  <2>2. /\ after \in HostStates /\ after.bridge = host[n].bridge
        /\ after.ports = host[n].ports /\ after.chain = host[n].chain
        /\ after.jumps = host[n].jumps /\ node[n].subnet \in after.masqueraded
    BY <1>1, <2>1 DEF Masqueraded, HostStates
  <2>3. /\ "masquerading" \in HasSubnet /\ "environment" \in HasBridge
        /\ SetUp(n, r, "masquerading", "environment", after)
    BY <1>4 DEF HasSubnet, HasBridge, EnableMasquerading
  <2> HIDE DEF after
  <2>. QED BY <1>1, <2>1, <2>2, <2>3, SetUpStep
<1>. QED BY <1>2, <1>3, <1>4

\* The environment is set when all is there, and the call in charge ends.
LEMMA SetEnvironmentStep ==
    ASSUME IInv, NEW n \in Nodes, NEW r \in Calls, SetEnvironment(n, r)
    PROVE  IInv'
<1> DEFINE state == [node[n] EXCEPT !.env = node[n].subnet]
<1>1. TypeOK /\ NodeOK(n) /\ node[n] \in NodeStates /\ host[n] \in HostStates
  BY DEF IInv, TypeOK
<1>2. /\ call[n][r] = "environment" /\ Goto(n, r, "ok")
      /\ node' = [node EXCEPT ![n] = state] /\ UNCHANGED <<host, clusterVars>>
  BY DEF SetEnvironment
<1>3. /\ state \in NodeStates /\ state.life = node[n].life /\ state.tun = node[n].tun
      /\ state.env = node[n].subnet /\ state.subscribed = node[n].subscribed
      /\ state.listening = node[n].listening /\ state.subnet = node[n].subnet
      /\ state.buffer = node[n].buffer /\ state.handling = node[n].handling
      /\ state.stage = node[n].stage /\ state.registered = node[n].registered
  BY <1>1 DEF NodeStates
<1> HIDE DEF state
<1>4. host' = [host EXCEPT ![n] = host[n]] /\ requests' \in [Nodes -> Nat]
  BY <1>1, <1>2 DEF TypeOK, clusterVars
<1>5. "ok" \notin SettingUp /\ "ok" \in Labels
  BY DEF SettingUp, Listened, Labels
<1>6. /\ node'[n] = state /\ host'[n] = host[n] /\ results'[n] = results[n]
      /\ call'[n][r] = "ok" /\ \A q \in Calls \ {r} : call'[n][q] = call[n][q]
  BY <1>1, <1>2, <1>5, GotoMoves DEF TypeOK, clusterVars
<1>7. /\ "environment" \in SettingUp /\ "environment" \in Listened
      /\ "environment" \in HasSubnet /\ "environment" \in HasBridge /\ "environment" \in HasChain
  BY DEF SettingUp, Listened, HasSubnet, HasBridge, HasChain
<1>8. /\ \A q \in Calls \ {r} : call[n][q] \notin SettingUp
      /\ node[n].tun /\ node[n].env = None
  BY <1>1, <1>2, <1>7, OthersAreEarly
<1>9. /\ node[n].listening /\ node[n].subscribed /\ node[n].subnet # None
      /\ host[n].bridge = node[n].subnet /\ host[n].chain /\ host[n].jumps = Hooks
      /\ node[n].subnet \in host[n].masqueraded /\ node[n].life <= MaxLives[n]
  BY <1>1, <1>2, <1>7 DEF NodeOK, HostFollowsCall, LifeOK
<1>10. Given(n)' \subseteq Given(n)
  BY <1>3, <1>6 DEF Given
<1>11. \A q \in Calls : call'[n][q] \notin SettingUp
  BY <1>5, <1>6, <1>8
<1>12. OneCallInCharge(n)' /\ HostFollowsCall(n)'
  BY <1>11, StagesAreNested DEF OneCallInCharge, HostFollowsCall
<1>13. AnswersAreSubscribed(n)' /\ HostIsReady(n)'
  BY <1>1, <1>3, <1>6, <1>8, <1>9 DEF NodeOK, AnswersAreSubscribed, HostIsReady
<1>14. LifeOK(n)'
  BY <1>1, <1>3, <1>6, <1>9 DEF NodeOK, LifeOK
<1>15. NodeOK(n)' /\ UNCHANGED <<results, record, nextSubnet>>
  BY <1>2, <1>12, <1>13, <1>14 DEF NodeOK, clusterVars
<1>. QED BY <1>1, <1>2, <1>3, <1>4, <1>5, <1>10, <1>15, CallSteps

-----------------------------------------------------------------------------
(* The other steps of a node.                                               *)

\* What has to be shown of a step that no call takes.
LEMMA HandlerSteps ==
    ASSUME IInv, NEW n \in Nodes,
           NEW state \in NodeStates, node' = [node EXCEPT ![n] = state],
           NEW left \in HostStates, host' = [host EXCEPT ![n] = left],
           NEW messages \in Seq(Subnets), results' = [results EXCEPT ![n] = messages],
           state.life = node[n].life, UNCHANGED <<call, requests, record, nextSubnet>>,
           Given(n)' \subseteq Given(n), NodeOK(n)'
    PROVE  IInv'
<1>1. TypeOK
  BY DEF IInv
<1>2. TypeOK'
  <2>1. /\ node' \in [Nodes -> NodeStates] /\ host' \in [Nodes -> HostStates]
        /\ results' \in [Nodes -> Seq(Subnets)]
        /\ \A m \in Nodes : node'[m].life = node[m].life
    BY <1>1 DEF TypeOK
  <2>. QED BY <1>1, <2>1 DEF TypeOK
<1>3. OthersKeep(n)
  BY <1>1 DEF OthersKeep, TypeOK
<1>4. GivesNext(n)
  BY DEF GivesNext
<1>. QED BY <1>2, <1>3, <1>4, OneNodeSteps

\* The connection's handler subscribes, the second server starts, or a
\* deployment makes rules.
LEMMA ServerStep ==
    ASSUME IInv, NEW n \in Nodes, Subscribe(n) \/ ServeMain(n) \/ OpenPorts(n)
    PROVE  IInv'
<1>1. TypeOK /\ NodeOK(n) /\ node[n] \in NodeStates /\ host[n] \in HostStates
  BY DEF IInv, TypeOK
<1>2. PICK subscribed \in BOOLEAN, stage \in {"init", "main"}, ports \in {host[n].ports, node[n].life} :
        /\ node' = [node EXCEPT ![n] = [node[n] EXCEPT !.subscribed = subscribed, !.stage = stage]]
        /\ host' = [host EXCEPT ![n] = [host[n] EXCEPT !.ports = ports]]
        /\ node[n].subscribed => subscribed
        /\ stage = "main" => node[n].env # None
        /\ UNCHANGED <<call, clusterVars>>
  <2>1. /\ node[n] = [node[n] EXCEPT !.subscribed = node[n].subscribed, !.stage = node[n].stage]
        /\ node[n].subscribed \in BOOLEAN /\ node[n].stage \in {"init", "main"}
        /\ node[n].stage = "main" => node[n].env # None
        /\ host[n] = [host[n] EXCEPT !.ports = host[n].ports]
    BY <1>1 DEF NodeStates, HostStates, NodeOK, LifeOK
  <2>2. CASE Subscribe(n)
    <3>1. /\ node' = [node EXCEPT ![n] = [node[n] EXCEPT !.subscribed = TRUE, !.stage = node[n].stage]]
          /\ host' = [host EXCEPT ![n] = [host[n] EXCEPT !.ports = host[n].ports]]
      <4>1. [node[n] EXCEPT !.subscribed = TRUE]
              = [node[n] EXCEPT !.subscribed = TRUE, !.stage = node[n].stage]
        BY <1>1 DEF NodeStates
      <4>2. host' = [host EXCEPT ![n] = host[n]]
        BY <1>1, <2>2 DEF Subscribe, TypeOK
      <4>3. node' = [node EXCEPT ![n] = [node[n] EXCEPT !.subscribed = TRUE]]
        BY <2>2 DEF Subscribe
      <4>. QED BY <2>1, <4>1, <4>2, <4>3
    <3>. QED BY <2>1, <2>2, <3>1 DEF Subscribe
  <2>3. CASE ServeMain(n)
    <3>1. /\ node' = [node EXCEPT ![n] = [node[n] EXCEPT !.subscribed = node[n].subscribed, !.stage = "main"]]
          /\ host' = [host EXCEPT ![n] = [host[n] EXCEPT !.ports = host[n].ports]]
      <4>1. [node[n] EXCEPT !.stage = "main"]
              = [node[n] EXCEPT !.subscribed = node[n].subscribed, !.stage = "main"]
        BY <1>1 DEF NodeStates
      <4>2. host' = [host EXCEPT ![n] = host[n]]
        BY <1>1, <2>3 DEF ServeMain, TypeOK
      <4>3. node' = [node EXCEPT ![n] = [node[n] EXCEPT !.stage = "main"]]
        BY <2>3 DEF ServeMain
      <4>. QED BY <2>1, <4>1, <4>2, <4>3
    <3>. QED BY <2>1, <2>3, <3>1 DEF ServeMain, MayServe
  <2>4. CASE OpenPorts(n)
    <3>1. /\ node' = [node EXCEPT ![n] = [node[n] EXCEPT !.subscribed = node[n].subscribed, !.stage = node[n].stage]]
          /\ host' = [host EXCEPT ![n] = [host[n] EXCEPT !.ports = node[n].life]]
      BY <1>1, <2>1, <2>4 DEF OpenPorts, NodeStates, TypeOK
    <3>. QED BY <2>1, <2>4, <3>1 DEF OpenPorts
  <2>. QED BY <2>2, <2>3, <2>4
<1> DEFINE state == [node[n] EXCEPT !.subscribed = subscribed, !.stage = stage]
           left == [host[n] EXCEPT !.ports = ports]
<1>3. /\ state \in NodeStates /\ state.life = node[n].life /\ state.tun = node[n].tun
      /\ state.env = node[n].env /\ state.subscribed = subscribed
      /\ state.subnet = node[n].subnet /\ state.buffer = node[n].buffer
      /\ state.listening = node[n].listening /\ state.handling = node[n].handling
      /\ state.stage = stage /\ state.registered = node[n].registered
  BY <1>1 DEF NodeStates
<1>4. /\ left \in HostStates /\ left.bridge = host[n].bridge /\ left.chain = host[n].chain
      /\ left.jumps = host[n].jumps /\ left.masqueraded = host[n].masqueraded
      /\ left.ports \in {0, node[n].life}
  BY <1>1 DEF NodeStates, HostStates, NodeOK, LifeOK
<1>5. node' = [node EXCEPT ![n] = state] /\ host' = [host EXCEPT ![n] = left]
  BY <1>2
<1> HIDE DEF state, left
<1>6. /\ results[n] \in Seq(Subnets) /\ results' = [results EXCEPT ![n] = results[n]]
      /\ UNCHANGED <<call, requests, record, nextSubnet>>
  BY <1>1, <1>2 DEF TypeOK, clusterVars
<1>7. /\ node'[n] = state /\ host'[n] = left /\ results'[n] = results[n] /\ call'[n] = call[n]
  BY <1>1, <1>5, <1>6 DEF TypeOK
<1>8. Given(n)' = Given(n)
  BY <1>3, <1>7, GivenSame
<1>9. OneCallInCharge(n)' /\ AnswersAreSubscribed(n)' /\ HostFollowsCall(n)'
  BY <1>1, <1>2, <1>3, <1>4, <1>7 DEF NodeOK, OneCallInCharge, AnswersAreSubscribed, HostFollowsCall
<1>10. HostIsReady(n)' /\ LifeOK(n)'
  BY <1>1, <1>2, <1>3, <1>4, <1>7 DEF NodeOK, HostIsReady, LifeOK
<1>11. NodeOK(n)'
  BY <1>9, <1>10 DEF NodeOK
<1>. QED BY <1>3, <1>4, <1>5, <1>6, <1>8, <1>11, HandlerSteps

\* The MQTT handler takes an answer and hands it to the channel, if it ever
\* has room: the answers of a node stay its own.
LEMMA AnswerStep ==
    ASSUME IInv, NEW n \in Nodes, Deliver(n) \/ Send(n)
    PROVE  IInv'
<1>1. /\ TypeOK /\ NodeOK(n) /\ node[n] \in NodeStates /\ host[n] \in HostStates
      /\ results[n] \in Seq(Subnets)
  BY DEF IInv, TypeOK
<1>2. PICK state \in NodeStates, messages \in Seq(Subnets) :
        /\ node' = [node EXCEPT ![n] = state] /\ results' = [results EXCEPT ![n] = messages]
        /\ UNCHANGED <<host, call, requests, record, nextSubnet>>
        /\ state = [node[n] EXCEPT !.buffer = state.buffer, !.handling = state.handling]
        /\ node[n].subscribed
        /\ \A q \in Calls, s \in Subnets : state.buffer[q] = <<s>> => s \in Given(n)
        /\ \A c \in Calls \cup {None}, s \in Subnets :
              state.handling = <<[channel |-> c, subnet |-> s]>> => s \in Given(n)
        /\ \A i \in 1 .. Len(messages) : messages[i] \in Given(n)
  <2>1. CASE Deliver(n)
    <3> DEFINE m == [channel |-> node[n].channel, subnet |-> Head(results[n])]
               state == [node[n] EXCEPT !.handling = <<m>>]
    <3>1. /\ node[n].subscribed /\ results[n] # <<>>
          /\ node' = [node EXCEPT ![n] = state] /\ results' = [results EXCEPT ![n] = Tail(results[n])]
          /\ UNCHANGED <<host, call, requests, record, nextSubnet>>
      BY <2>1 DEF Deliver
    <3>2. /\ Head(results[n]) \in Subnets /\ Tail(results[n]) \in Seq(Subnets)
          /\ Head(results[n]) \in Given(n)
          /\ \A i \in 1 .. Len(Tail(results[n])) : Tail(results[n])[i] \in Given(n)
      <4>1. Len(results[n]) \in Nat /\ Len(results[n]) >= 1
            /\ \A i \in 1 .. Len(results[n]) : results[n][i] \in Subnets
        BY <1>1, <3>1
      <4>2. \A i \in 1 .. Len(results[n]) : results[n][i] \in Given(n)
        BY <4>1 DEF Given
      <4>3. Head(results[n]) = results[n][1] /\ Tail(results[n]) \in Seq(Subnets)
            /\ Len(Tail(results[n])) = Len(results[n]) - 1
            /\ \A i \in 1 .. Len(Tail(results[n])) : Tail(results[n])[i] = results[n][i + 1]
        BY <1>1, <3>1, HeadTailProperties
      <4>. QED BY <4>1, <4>2, <4>3
    <3>3. m \in [channel : Calls \cup {None}, subnet : Subnets]
      BY <1>1, <3>2 DEF NodeStates
    <3>4. /\ state \in NodeStates /\ state.handling = <<m>> /\ state.buffer = node[n].buffer
          /\ state = [node[n] EXCEPT !.buffer = state.buffer, !.handling = state.handling]
      BY <1>1, <3>3 DEF NodeStates
    <3>5. \A c \in Calls \cup {None}, s \in Subnets :
              state.handling = <<[channel |-> c, subnet |-> s]>> => s \in Given(n)
      <4>1. \A c \in Calls \cup {None}, s \in Subnets :
              state.handling = <<[channel |-> c, subnet |-> s]>> => s = m.subnet
        BY <3>4
      <4>. QED BY <4>1, <3>2
    <3>6. \A q \in Calls, s \in Subnets : state.buffer[q] = <<s>> => s \in Given(n)
      BY <3>4 DEF Given
    <3> HIDE DEF state
    <3>. QED BY <3>1, <3>2, <3>4, <3>5, <3>6
  <2>2. CASE Send(n)
    <3> DEFINE m == Head(node[n].handling)
               buffer == [node[n].buffer EXCEPT ![m.channel] = <<m.subnet>>]
               state == [node[n] EXCEPT !.buffer = buffer, !.handling = <<>>]
    <3>1. /\ node[n].handling # <<>> /\ m.channel # None
          /\ node' = [node EXCEPT ![n].buffer[m.channel] = <<m.subnet>>, ![n].handling = <<>>]
          /\ UNCHANGED <<host, call, clusterVars>>
      BY <2>2 DEF Send
    <3>2. /\ m \in [channel : Calls \cup {None}, subnet : Subnets] /\ node[n].handling = <<m>>
          /\ node[n].buffer \in [Calls -> {<<>>} \cup {<<s>> : s \in Subnets}]
      BY <1>1, <3>1 DEF NodeStates
    <3>3. m.channel \in Calls /\ m.subnet \in Subnets
      BY <3>1, <3>2
    <3>4. /\ buffer \in [Calls -> {<<>>} \cup {<<s>> : s \in Subnets}]
          /\ \A q \in Calls : buffer[q] = IF q = m.channel THEN <<m.subnet>> ELSE node[n].buffer[q]
      BY <3>2, <3>3
    <3>5. node' = [node EXCEPT ![n] = state]
      BY <1>1, <3>1 DEF NodeStates, TypeOK
    <3>6. m.subnet \in Given(n)
      <4>1. m = [channel |-> m.channel, subnet |-> m.subnet]
        BY <3>2
      <4>. QED BY <3>2, <3>3, <4>1 DEF Given
    <3>7. node[n].subscribed
      BY <1>1, <3>1 DEF NodeOK, AnswersAreSubscribed
    <3> HIDE DEF m, buffer
    <3>8. /\ state \in NodeStates /\ state.handling = <<>> /\ state.buffer = buffer
          /\ state = [node[n] EXCEPT !.buffer = state.buffer, !.handling = state.handling]
      BY <1>1, <3>4 DEF NodeStates
    <3> HIDE DEF state
    <3>9. \A q \in Calls, s \in Subnets : state.buffer[q] = <<s>> => s \in Given(n)
      <4>1. ASSUME NEW q \in Calls, NEW s \in Subnets, state.buffer[q] = <<s>>, q = m.channel
            PROVE  s = m.subnet
        BY <3>4, <3>8, <4>1
      <4>2. ASSUME NEW q \in Calls, NEW s \in Subnets, state.buffer[q] = <<s>>, q # m.channel
            PROVE  s \in Given(n)
        BY <3>4, <3>8, <4>2 DEF Given
      <4>. QED BY <3>6, <4>1, <4>2
    <3>10. \A c \in Calls \cup {None}, s \in Subnets :
              state.handling # <<[channel |-> c, subnet |-> s]>>
      BY <3>8
    <3>11. /\ results' = [results EXCEPT ![n] = results[n]]
           /\ \A i \in 1 .. Len(results[n]) : results[n][i] \in Given(n)
           /\ UNCHANGED <<host, call, requests, record, nextSubnet>>
      BY <1>1, <3>1 DEF clusterVars, TypeOK, Given
    <3>. QED BY <1>1, <3>5, <3>7, <3>8, <3>9, <3>10, <3>11
  <2>. QED BY <2>1, <2>2
<1>3. /\ state.life = node[n].life /\ state.tun = node[n].tun
      /\ state.env = node[n].env /\ state.subscribed = node[n].subscribed
      /\ state.subnet = node[n].subnet /\ state.listening = node[n].listening
      /\ state.stage = node[n].stage /\ state.registered = node[n].registered
  BY <1>1, <1>2 DEF NodeStates
<1>4. host' = [host EXCEPT ![n] = host[n]]
  BY <1>1, <1>2 DEF TypeOK
<1>5. /\ node'[n] = state /\ host'[n] = host[n] /\ results'[n] = messages /\ call'[n] = call[n]
  BY <1>1, <1>2 DEF TypeOK
<1>6. Given(n)' \subseteq Given(n)
  <2> SUFFICES ASSUME NEW s \in Given(n)' PROVE s \in Given(n)
    OBVIOUS
  <2>1. CASE s = node'[n].env \/ s = node'[n].subnet
    BY <2>1, <1>3, <1>5 DEF Given
  <2>2. CASE \E q \in Calls : node'[n].buffer[q] = <<s>>
    BY <2>2, <1>2, <1>5 DEF Given
  <2>3. CASE \E c \in Calls \cup {None} : node'[n].handling = <<[channel |-> c, subnet |-> s]>>
    <3>1. PICK c \in Calls \cup {None} : state.handling = <<[channel |-> c, subnet |-> s]>>
      BY <2>3, <1>5
    <3>2. s \in Subnets
      BY DEF Given
    <3>. QED BY <3>1, <3>2, <1>2
  <2>4. CASE \E i \in 1 .. Len(results'[n]) : results'[n][i] = s
    BY <2>4, <1>2, <1>5
  <2>. QED BY <2>1, <2>2, <2>3, <2>4 DEF Given
<1>7. OneCallInCharge(n)' /\ HostFollowsCall(n)' /\ HostIsReady(n)' /\ LifeOK(n)'
  BY <1>1, <1>3, <1>5 DEF NodeOK, OneCallInCharge, HostFollowsCall, HostIsReady, LifeOK
<1>8. NodeOK(n)'
  BY <1>2, <1>3, <1>5, <1>7 DEF NodeOK, AnswersAreSubscribed
<1>. QED BY <1>1, <1>2, <1>3, <1>4, <1>6, <1>8, HandlerSteps

-----------------------------------------------------------------------------
(* The steps of the cluster.                                                *)

\* The root's next subnetwork is recorded and published, to a node that may
\* have been restarted, or not be subscribed.
LEMMA SubnetGivenStep ==
    ASSUME IInv, NEW n \in Nodes, SubnetHandler(n) \/ SubnetAgain(n)
    PROVE  IInv'
<1> DEFINE messages == IF node[n].subscribed THEN Append(results[n], nextSubnet) ELSE results[n]
<1>1. /\ TypeOK /\ NodeOK(n) /\ nextSubnet \in Nat /\ results[n] \in Seq(Subnets)
      /\ requests[n] \in Nat
  BY BoundsAssumption DEF IInv, TypeOK
<1>2. /\ nextSubnet \in Subnets /\ nextSubnet' = nextSubnet + 1 /\ Publish(n, nextSubnet)
      /\ record' = [record EXCEPT ![n] = nextSubnet] /\ UNCHANGED <<node, host, call>>
      /\ requests' \in [Nodes -> Nat]
  BY <1>1 DEF SubnetHandler, SubnetAgain, TypeOK
<1>3. results' = [results EXCEPT ![n] = messages]
  BY <1>1, <1>2 DEF Publish, Recipients, TypeOK
<1>4. /\ messages \in Seq(Subnets)
      /\ \A i \in 1 .. Len(messages) :
           messages[i] = nextSubnet \/ \E j \in 1 .. Len(results[n]) : messages[i] = results[n][j]
  <2>1. Len(results[n]) \in Nat
    BY <1>1
  <2>2. /\ Append(results[n], nextSubnet) \in Seq(Subnets)
        /\ Len(Append(results[n], nextSubnet)) = Len(results[n]) + 1
        /\ \A i \in 1 .. Len(results[n]) : Append(results[n], nextSubnet)[i] = results[n][i]
        /\ Append(results[n], nextSubnet)[Len(results[n]) + 1] = nextSubnet
    BY <1>1, <1>2, AppendProperties
  <2>. QED BY <1>1, <2>1, <2>2
<1>5. ~node[n].subscribed => messages = results[n]
  OBVIOUS
<1> HIDE DEF messages
<1>6. TypeOK'
  <2>1. results' \in [Nodes -> Seq(Subnets)] /\ record' \in [Nodes -> Subnets \cup {None}]
    BY <1>1, <1>2, <1>3, <1>4 DEF TypeOK
  <2>2. nextSubnet' \in 1 .. MaxSubnets + 1
    BY <1>1, <1>2, BoundsAssumption DEF Subnets
  <2>. QED BY <1>1, <1>2, <2>1, <2>2 DEF TypeOK
<1>7. /\ node'[n] = node[n] /\ host'[n] = host[n] /\ results'[n] = messages /\ call'[n] = call[n]
  BY <1>1, <1>2, <1>3 DEF TypeOK
<1>8. OthersKeep(n)
  BY <1>1, <1>2, <1>3 DEF OthersKeep, TypeOK
<1>9. OneCallInCharge(n)' /\ HostFollowsCall(n)' /\ HostIsReady(n)' /\ LifeOK(n)'
  BY <1>1, <1>7 DEF NodeOK, OneCallInCharge, HostFollowsCall, HostIsReady, LifeOK
<1>10. NodeOK(n)'
  BY <1>1, <1>5, <1>7, <1>9 DEF NodeOK, AnswersAreSubscribed
<1>11. GivesNext(n)
  <2> SUFFICES ASSUME NEW s \in Given(n)' PROVE s \in Given(n) \cup {nextSubnet}
    BY <1>2 DEF GivesNext
  <2>1. CASE \E i \in 1 .. Len(results'[n]) : results'[n][i] = s
    BY <2>1, <1>4, <1>7 DEF Given
  <2>2. CASE ~\E i \in 1 .. Len(results'[n]) : results'[n][i] = s
    BY <2>2, <1>7 DEF Given
  <2>. QED BY <2>1, <2>2
<1>. QED BY <1>6, <1>8, <1>10, <1>11, OneNodeSteps

\* A request that is lost.
LEMMA SubnetFailsStep ==
    ASSUME IInv, NEW n \in Nodes, SubnetFails(n)
    PROVE  IInv'
<1>1. /\ TypeOK /\ NodeOK(n) /\ requests[n] \in Nat /\ requests[n] > 0
      /\ requests' = [requests EXCEPT ![n] = requests[n] - 1]
      /\ UNCHANGED <<node, host, call, results, record, nextSubnet>>
  BY DEF IInv, TypeOK, SubnetFails
<1>2. TypeOK'
  BY <1>1 DEF TypeOK
<1>3. OthersKeep(n)
  BY <1>1 DEF OthersKeep
<1>4. NodeOK(n)'
  BY <1>1 DEF NodeOK, OneCallInCharge, AnswersAreSubscribed, HostFollowsCall, HostIsReady, LifeOK
<1>5. GivesNext(n)
  BY <1>1 DEF GivesNext, Given
<1>. QED BY <1>2, <1>3, <1>4, <1>5, OneNodeSteps

-----------------------------------------------------------------------------
(* The invariant.                                                           *)

LEMMA InitIInv == Init => IInv
<1> SUFFICES ASSUME Init PROVE IInv
  OBVIOUS
<1>1. \A n \in Nodes : MaxLives[n] \in Nat \ {0}
  BY BoundsAssumption
<1>2. Started(1) \in NodeStates /\ NewHost \in HostStates /\ Started(1).life = 1
  BY DEF Started, NodeStates, NewHost, HostStates
<1>3. /\ node = [n \in Nodes |-> Started(1)] /\ host = [n \in Nodes |-> NewHost]
      /\ call = [n \in Nodes |-> [r \in Calls |-> "none"]]
      /\ results = [n \in Nodes |-> <<>>]
  BY DEF Init
<1>4. TypeOK
  <2>1. \A n \in Nodes : node[n].life \in 1 .. MaxLives[n] + 1
    <3> TAKE n \in Nodes
    <3>1. node[n].life = 1 /\ MaxLives[n] \in Nat
      BY <1>1, <1>2, <1>3
    <3>. QED BY <3>1
  <2>2. results \in [Nodes -> Seq(Subnets)]
    BY <1>3, EmptySeq
  <2>3. node \in [Nodes -> NodeStates] /\ host \in [Nodes -> HostStates]
    BY <1>2, <1>3
  <2>. QED BY <2>1, <2>2, <2>3, BoundsAssumption DEF TypeOK, Init
<1>5. ASSUME NEW n \in Nodes PROVE NodeOK(n) /\ Given(n) = {}
  <2>1. /\ node[n] = Started(1) /\ host[n] = NewHost
        /\ call[n] = [r \in Calls |-> "none"] /\ results[n] = <<>>
    BY <1>3
  <2>2. NodeOK(n)
    BY <1>1, <2>1 DEF NodeOK, OneCallInCharge, AnswersAreSubscribed, HostFollowsCall, HostIsReady, LifeOK,
                Started, NewHost, SettingUp, Listened, HasSubnet, HasBridge, HasChain
  <2>3. None \notin Subnets
    BY NoneAssumption DEF Subnets
  <2>4. Given(n) = {}
    BY <2>1, <2>3 DEF Given, Started
  <2>. QED BY <2>2, <2>4
<1>. QED BY <1>4, <1>5 DEF IInv, GivenOnce

\* A call that returns, or has not created the TUN device.
LEMMA EarlySteps ==
    ASSUME IInv, NEW n \in Nodes, NEW r \in Calls,
           \/ Arrive(n, r) \/ SetWorkerID(n, r)
           \/ InitMqtt(n, r) \/ Connected(n, r) \/ ConnectFails(n, r)
           \/ call[n][r] # "none" /\ Abort(n, r)
    PROVE  IInv'
<1>1. TypeOK /\ NodeOK(n) /\ node[n] \in NodeStates
  BY DEF IInv, TypeOK
<1>2. /\ node[n].registered \in BOOLEAN /\ node[n].once \in {"no", "running", "done"}
      /\ node[n].connected \in BOOLEAN
  BY <1>1 DEF NodeStates
<1>3. node[n].life <= MaxLives[n]
  BY <1>1 DEF NodeOK, LifeOK, Arrive, SetWorkerID, InitMqtt, Connected, ConnectFails
<1>4. PICK l \in {"ok", "unregistered", "connect", "connecting", "proxy", "aborted"},
           registered \in BOOLEAN, once \in {"no", "running", "done"}, connected \in BOOLEAN :
        /\ Goto(n, r, l)
        /\ node' = [node EXCEPT ![n] = [node[n] EXCEPT
                     !.registered = registered, !.once = once, !.connected = connected]]
        /\ UNCHANGED <<host, clusterVars>>
  <2> DEFINE state(registered, once, connected) ==
                [node[n] EXCEPT !.registered = registered, !.once = once, !.connected = connected]
  <2>1. node = [node EXCEPT ![n] = node[n]]
    BY <1>1 DEF TypeOK
  <2>2. node[n] = state(node[n].registered, node[n].once, node[n].connected)
    BY <1>1 DEF NodeStates
  <2>3. [node[n] EXCEPT !.registered = TRUE] = state(TRUE, node[n].once, node[n].connected)
    BY <1>1 DEF NodeStates
  <2>4. \A once \in {"running", "done"} :
          [node[n] EXCEPT !.once = once] = state(node[n].registered, once, node[n].connected)
    BY <1>1 DEF NodeStates
  <2>5. [node[n] EXCEPT !.once = "done", !.connected = TRUE] = state(node[n].registered, "done", TRUE)
    BY <1>1 DEF NodeStates
  <2> HIDE DEF state
  <2>6. CASE Arrive(n, r) \/ (call[n][r] # "none" /\ Abort(n, r))
    <3>1. /\ \E l \in {"ok", "unregistered", "aborted"} : Goto(n, r, l)
          /\ UNCHANGED <<node, host, clusterVars>>
      BY <2>6 DEF Arrive, Abort
    <3>2. node' = [node EXCEPT ![n] = state(node[n].registered, node[n].once, node[n].connected)]
      BY <2>1, <2>2, <3>1
    <3>. QED BY <1>2, <3>1, <3>2 DEF state
  <2>7. CASE SetWorkerID(n, r)
    <3>1. node' = [node EXCEPT ![n] = state(TRUE, node[n].once, node[n].connected)]
      BY <2>3, <2>7 DEF SetWorkerID
    <3>. QED BY <1>2, <2>7, <3>1 DEF state, SetWorkerID
  <2>8. CASE InitMqtt(n, r)
    <3>1. CASE UNCHANGED node
      <4>1. node' = [node EXCEPT ![n] = state(node[n].registered, node[n].once, node[n].connected)]
        BY <2>1, <2>2, <3>1
      <4>2. (\E l \in {"connecting", "proxy"} : Goto(n, r, l)) /\ UNCHANGED <<host, clusterVars>>
        BY <2>8 DEF InitMqtt
      <4>. QED BY <1>2, <4>1, <4>2 DEF state
    <3>2. CASE node' = [node EXCEPT ![n] = [node[n] EXCEPT !.once = "running"]]
      <4>1. node' = [node EXCEPT ![n] = state(node[n].registered, "running", node[n].connected)]
        BY <2>4, <3>2
      <4>2. (\E l \in {"connecting", "proxy"} : Goto(n, r, l)) /\ UNCHANGED <<host, clusterVars>>
        BY <2>8 DEF InitMqtt
      <4>. QED BY <1>2, <4>1, <4>2 DEF state
    <3>. QED BY <2>8, <3>1, <3>2 DEF InitMqtt
  <2>9. CASE Connected(n, r)
    <3>1. node' = [node EXCEPT ![n] = state(node[n].registered, "done", TRUE)]
      <4>1. node' = [node EXCEPT ![n] = [node[n] EXCEPT !.once = "done", !.connected = TRUE]]
        BY <1>1, <2>9 DEF Connected, TypeOK, NodeStates
      <4>. QED BY <2>5, <4>1
    <3>. QED BY <1>2, <2>9, <3>1 DEF state, Connected
  <2>10. CASE ConnectFails(n, r)
    <3>1. node' = [node EXCEPT ![n] = state(node[n].registered, "done", node[n].connected)]
      BY <2>4, <2>10 DEF ConnectFails
    <3>. QED BY <1>2, <2>10, <3>1 DEF state, ConnectFails
  <2>. QED BY <2>6, <2>7, <2>8, <2>9, <2>10
<1>5. l \in Labels \ SettingUp
  BY DEF Labels, SettingUp
<1>. QED BY <1>3, <1>4, <1>5, EarlyStep

\* The process ends in a call, wherever it was on the host.
LEMMA CallEndsProcess ==
    ASSUME IInv, NEW n \in Nodes, NEW r \in Calls,
           \/ GetOutboundIPFails(n, r) \/ CreateTunFails(n, r)
           \/ SetUpFails(n, r) \/ Timeout(n, r)
    PROVE  IInv'
<1>1. /\ TypeOK /\ NodeOK(n) /\ host[n] \in HostStates
      /\ node[n].subnet \in Subnets \cup {None}
  BY DEF IInv, TypeOK, NodeStates
<1>2. call[n][r] # "none" /\ node[n].life <= MaxLives[n]
  BY <1>1 DEF GetOutboundIPFails, CreateTunFails, SetUpFails, Timeout, NodeOK, LifeOK
<1>3. CASE Abort(n, r)
  BY <1>2, <1>3, EarlySteps
<1>4. CASE Dies(n)
  BY <1>1, <1>2, <1>4, DiesStep DEF Dies
<1>5. CASE SetUpFails(n, r)
  <2>1. PICK left \in HostStates : DiesLeaving(n, left)
    <3>1. \A b \in {None, node[n].subnet} : Bridged(host[n], b) \in HostStates
      BY <1>1 DEF Bridged, HostStates
    <3>2. \A hooked \in SUBSET Hooks : Forwarded(host[n], hooked) \in HostStates
      BY <1>1 DEF Forwarded, DeleteChain, HostStates
    <3>. QED BY <1>5, <3>1, <3>2 DEF SetUpFails
  <2>. QED BY <1>2, <2>1, DiesStep
<1>. QED BY <1>3, <1>4, <1>5 DEF GetOutboundIPFails, CreateTunFails, Timeout

\* The process ends in another goroutine of it.
LEMMA NodeEndsProcess ==
    ASSUME IInv, NEW n \in Nodes, PacketTooEarly(n) \/ UpdateFails(n)
    PROVE  IInv'
<1>1. host[n] \in HostStates /\ node[n].life <= MaxLives[n] /\ Dies(n)
  BY DEF IInv, TypeOK, NodeOK, LifeOK, PacketTooEarly, UpdateFails
<1>. QED BY <1>1, DiesStep DEF Dies

LEMMA NextIInv == IInv /\ [Next]_vars => IInv'
<1> SUFFICES ASSUME IInv, [Next]_vars PROVE IInv'
  OBVIOUS
<1>1. CASE UNCHANGED vars
  <2>1. TypeOK' /\ (\A n \in Nodes : Given(n)' = Given(n))
    BY <1>1 DEF IInv, TypeOK, vars, Given
  <2>2. GivenOnce'
    BY <1>1, <2>1 DEF IInv, GivenOnce, vars
  <2>3. \A n \in Nodes : NodeOK(n)'
    BY <1>1 DEF IInv, vars, NodeOK, OneCallInCharge, AnswersAreSubscribed, HostFollowsCall, HostIsReady, LifeOK
  <2>. QED BY <2>1, <2>2, <2>3 DEF IInv
<1>2. ASSUME NEW n \in Nodes, NEW r \in Calls, Arrive(n, r) \/ RegisterStep(n, r)
      PROVE  IInv'
  <2>1. CASE \/ Arrive(n, r) \/ SetWorkerID(n, r)
             \/ InitMqtt(n, r) \/ Connected(n, r) \/ ConnectFails(n, r)
    BY <2>1, EarlySteps
  <2>2. CASE RouteIsUnclear(n, r)
    <3>1. call[n][r] # "none" /\ Abort(n, r)
      BY <2>2 DEF RouteIsUnclear
    <3>. QED BY <3>1, EarlySteps
  <2>3. CASE \/ GetOutboundIPFails(n, r) \/ CreateTunFails(n, r)
             \/ SetUpFails(n, r) \/ Timeout(n, r)
    BY <2>3, CallEndsProcess
  <2>4. CASE CreateTun(n, r)
    BY <2>4, CreateTunStep
  <2>5. CASE Listen(n, r) \/ RequestSubnet(n, r)
    BY <2>5, WaitStep
  <2>6. CASE Configured(n, r)
    BY <2>6, ConfiguredStep
  <2>7. CASE CreateHostBridge(n, r) \/ EnableForwarding(n, r) \/ EnableMasquerading(n, r)
    BY <2>7, SetUpSteps
  <2>8. CASE SetEnvironment(n, r)
    BY <2>8, SetEnvironmentStep
  <2>. QED BY <1>2, <2>1, <2>2, <2>3, <2>4, <2>5, <2>6, <2>7, <2>8 DEF RegisterStep
<1>3. ASSUME NEW n \in Nodes, NodeStep(n) PROVE IInv'
  BY <1>3, ServerStep, AnswerStep, NodeEndsProcess DEF NodeStep
<1>4. ASSUME NEW n \in Nodes, ClusterStep(n) PROVE IInv'
  BY <1>4, SubnetGivenStep, SubnetFailsStep DEF ClusterStep
<1>. QED BY <1>1, <1>2, <1>3, <1>4 DEF Next

LEMMA SpecIInv == Spec => []IInv
<1>1. Init => IInv
  BY InitIInv
<1>2. IInv /\ [Next]_vars => IInv'
  BY NextIInv
<1>. QED BY <1>1, <1>2, PTL DEF Spec

-----------------------------------------------------------------------------
(* The theorems.                                                            *)

\* The type invariant of network managers, hosts, calls and messages.
THEOREM TypeCorrect == Spec => []TypeOK
<1>1. IInv => TypeOK
  BY DEF IInv
<1>. QED BY <1>1, SpecIInv, PTL

\* No two nodes configure the same subnetwork, whatever requests the broker
\* repeats (mqtt_client.py gives out another subnetwork each time) and
\* whatever late answers reach a network manager that was restarted.
THEOREM NodesHaveTheirOwn == Spec => []SubnetsDisjoint
<1>1. IInv => SubnetsDisjoint
  <2> SUFFICES ASSUME IInv, NEW n \in Nodes, NEW m \in Nodes,
                      node[n].env # None, node[n].env = node[m].env
               PROVE  n = m
    BY DEF SubnetsDisjoint
  <2>1. node[n].env \in Subnets
    BY DEF IInv, TypeOK, NodeStates
  <2>2. node[n].env \in Given(n) /\ node[n].env \in Given(m)
    BY <2>1 DEF Given
  <2>. QED BY <2>2 DEF IInv, GivenOnce
<1>. QED BY <1>1, SpecIInv, PTL

\* The server for deployments runs only on a node whose host is set up for its
\* subnetwork (HandleRequests waits for the call that set the environment).
THEOREM ServesWhenReady == Spec => []ServingMeansReady
<1>1. IInv => ServingMeansReady
  BY DEF IInv, NodeOK, HostIsReady, LifeOK, ServingMeansReady
<1>. QED BY <1>1, SpecIInv, PTL

\* No DNAT rule of an earlier life is left when a node serves
\* (EnableForwarding clears the chain, the start flushes it).
THEOREM NoRulesOfEarlierLives == Spec => []NoOldRules
<1>1. IInv => NoOldRules
  BY DEF IInv, NodeOK, LifeOK, NoOldRules
<1>. QED BY <1>1, SpecIInv, PTL

-----------------------------------------------------------------------------
(* The processes that serve.                                                *)

\* A process that ends is the one of the node that takes the step.
LEMMA EndsItsOwn ==
    ASSUME TypeOK, NEW k \in Nodes, NEW left, DiesLeaving(k, left), NEW n \in Nodes, n # k
    PROVE  node'[n].life = node[n].life
BY DEF DiesLeaving, TypeOK

\* What can end the process of a node that serves and knows its address.
LEMMA ServingStep ==
    ASSUME IInv, Next, NEW n \in AddressGiven, node[n].stage = "main",
           node'[n].life # node[n].life
    PROVE  \E r \in Calls : call[n][r] = "proxy"
<1>1. /\ TypeOK /\ n \in Nodes /\ NodeOK(n)
      /\ node \in [Nodes -> NodeStates]
  BY AddressGivenAssumption DEF IInv, TypeOK
<1>2. node[n].env # None
  BY <1>1 DEF NodeOK, LifeOK
<1>3. \A r \in Calls : call[n][r] \notin SettingUp
  BY <1>1, <1>2 DEF NodeOK, OneCallInCharge
<1>4. ~UNCHANGED node
  OBVIOUS
<1>5. ASSUME NEW k \in Nodes, NEW r \in Calls, RegisterStep(k, r)
      PROVE  call[n][r] = "proxy"
  <2>1. CASE SetWorkerID(k, r) \/ InitMqtt(k, r) \/ Connected(k, r) \/ ConnectFails(k, r)
    BY <2>1, <1>1 DEF SetWorkerID, InitMqtt, Connected, ConnectFails, NodeStates
  <2>2. CASE GetOutboundIPFails(k, r)
    BY <2>2, <1>1, <1>4, EndsItsOwn DEF GetOutboundIPFails, Abort, Dies
  <2>3. CASE CreateTun(k, r) \/ Listen(k, r) \/ RequestSubnet(k, r) \/ SetEnvironment(k, r)
    <3>1. CASE CreateTun(k, r)
      BY <3>1, <1>1 DEF CreateTun, NodeStates
    <3>2. CASE Listen(k, r)
      BY <3>2, <1>1 DEF Listen, NodeStates
    <3>3. CASE RequestSubnet(k, r)
      <4>1. node' = [node EXCEPT ![k].channel = r]
        BY <3>3 DEF RequestSubnet
      <4>. QED BY <4>1, <1>1 DEF NodeStates
    <3>4. CASE SetEnvironment(k, r)
      <4>1. node' = [node EXCEPT ![k].env = node[k].subnet]
        BY <3>4 DEF SetEnvironment
      <4>. QED BY <4>1, <1>1 DEF NodeStates
    <3>. QED BY <2>3, <3>1, <3>2, <3>3, <3>4
  <2>4. CASE CreateTunFails(k, r)
    BY <2>4, <1>1, EndsItsOwn DEF CreateTunFails, Dies
  <2>5. CASE RouteIsUnclear(k, r) \/ CreateHostBridge(k, r) \/ EnableForwarding(k, r) \/ EnableMasquerading(k, r)
    BY <2>5, <1>4 DEF RouteIsUnclear, Abort, CreateHostBridge, EnableForwarding, EnableMasquerading, SetUp
  <2>6. CASE Configured(k, r)
    BY <2>6, <1>1 DEF Configured, NodeStates
  <2>7. CASE SetUpFails(k, r) \/ Timeout(k, r)
    <3>1. /\ call[k][r] \in {"waiting", "bridge", "forwarding"}
          /\ \E left : DiesLeaving(k, left)
      BY <2>7 DEF SetUpFails, Timeout, Dies
    <3>2. k # n
      BY <3>1, <1>3 DEF SettingUp
    <3>. QED BY <3>1, <3>2, <1>1, EndsItsOwn
  <2>. QED BY <1>5, <2>1, <2>2, <2>3, <2>4, <2>5, <2>6, <2>7 DEF RegisterStep
<1>6. ASSUME NEW k \in Nodes, NodeStep(k) PROVE FALSE
  <2>1. CASE Subscribe(k) \/ ServeMain(k) \/ Deliver(k) \/ OpenPorts(k)
    BY <2>1, <1>1, <1>4 DEF Subscribe, ServeMain, Deliver, OpenPorts, NodeStates
  <2>2. CASE Send(k)
    <3>1. node[k] \in NodeStates
      BY <1>1
    <3>2. PICK c, x : node' = [node EXCEPT ![k].buffer[c] = x, ![k].handling = <<>>]
      BY <2>2 DEF Send
    <3>3. k # n => node'[n] = node[n]
      BY <1>1, <3>2
    <3>4. node'[k].life = node[k].life
      BY <1>1, <3>1, <3>2 DEF NodeStates
    <3>. QED BY <3>3, <3>4
  <2>3. CASE PacketTooEarly(k) \/ UpdateFails(k)
    BY <2>3, <1>1, <1>2, EndsItsOwn DEF PacketTooEarly, UpdateFails, Dies
  <2>. QED BY <1>6, <2>1, <2>2, <2>3 DEF NodeStep
<1>7. ASSUME NEW k \in Nodes, ClusterStep(k) \/ \E r \in Calls : Arrive(k, r) PROVE FALSE
  BY <1>4, <1>7 DEF ClusterStep, SubnetHandler, SubnetFails, SubnetAgain, Arrive
<1>. QED BY <1>5, <1>6, <1>7 DEF Next

\* Once a node serves, only a second call of /register that had passed the
\* check of WorkerID before ends its process: no late answer, no time-out and
\* no early packet (server.go, NetworkManagementHandlers.go, ProxyTunnel.go).
THEOREM ServingNodesStay == Spec => ServingNodeStays
<1> DEFINE Stays == \A n \in AddressGiven : node[n].stage = "main" /\ node'[n].life # node[n].life =>
                       \E r \in Calls : call[n][r] = "proxy"
<1>1. IInv /\ [Next]_vars => [Stays]_vars
  BY ServingStep
<1>. QED BY <1>1, SpecIInv, PTL DEF Spec, ServingNodeStays

=============================================================================
