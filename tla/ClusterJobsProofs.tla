-------------------------- MODULE ClusterJobsProofs ---------------------------
(***************************************************************************)
(* Proofs about ClusterJobs, for all instances, workers and update         *)
(* threads, however many requests arrive and whatever the root answers:    *)
(* no worker is listed twice, a document without a list has a thread that  *)
(* is about to fill it, and the cluster withdraws its interest only when   *)
(* nobody is interested.                                                   *)
(*                                                                         *)
(* No database call is atomic with the one before it, so each of the three *)
(* needs to know who may change the document in between.  The interested   *)
(* workers are written by the MQTT loop alone; the other threads can only  *)
(* remove the whole document.  What the loop has read is therefore still   *)
(* true when it writes, or the document is gone and its list empty         *)
(* (MqttOK).                                                               *)
(***************************************************************************)
EXTENDS ClusterJobs, SequenceTheorems, TLAPS

OnceEach(s) == \A i, j \in DOMAIN s : s[i] = s[j] => i = j

Has(s, w) == \E i \in DOMAIN s : s[i] = w

\* The parts of the document and what the MQTT loop remembers of its list.
Shape ==
    /\ doc = [stored |-> doc.stored, listed |-> doc.listed, list |-> doc.list,
              interested |-> doc.interested]
    /\ pc \in [Procs -> Labels]
    /\ DOMAIN loc = Procs
    /\ DOMAIN loc["mqtt"] = DOMAIN Nothing
    /\ loc["mqtt"].nodes \in Seq(Workers)

\* What the MQTT loop knows between its calls.
MqttOK ==
    LET l == loc["mqtt"] IN
    /\ pc["mqtt"] # "idle" => l.who \in Workers
    /\ pc["mqtt"] = "read" => ~Has(doc.interested, l.who)
    /\ pc["mqtt"] = "write" => OnceEach(l.nodes) /\ ~Has(l.nodes, l.who)
    /\ pc["mqtt"] = "unlist" => OnceEach(l.nodes)
    /\ pc["mqtt"] = "forget" => doc.interested = <<>>

IInv ==
    /\ Shape
    /\ doc.interested \in Seq(Workers)
    /\ InterestedOnce
    /\ MqttOK
    /\ UnfilledIsBeingFilled

-----------------------------------------------------------------------------
(* Lists of workers.                                                        *)

\* Adding a worker that is not there lists nobody twice.
LEMMA AppendOnce ==
    ASSUME NEW s \in Seq(Workers), OnceEach(s), NEW w \in Workers, ~Has(s, w)
    PROVE  Append(s, w) \in Seq(Workers) /\ OnceEach(Append(s, w))
BY DEF OnceEach, Has

\* Nor does removing one.
LEMMA RemoveOnce ==
    ASSUME NEW s \in Seq(Workers), OnceEach(s), NEW w
    PROVE  RemoveFirst(s, w) \in Seq(Workers) /\ OnceEach(RemoveFirst(s, w))
<1>1. CASE ~\E i \in 1 .. Len(s) : s[i] = w
  BY <1>1 DEF RemoveFirst
<1>2. CASE \E i \in 1 .. Len(s) : s[i] = w
  <2>0. \A k, m \in 1 .. Len(s) : s[k] = s[m] => k = m
    BY DEF OnceEach
  <2>1. PICK p \in 1 .. Len(s) : s[p] = w
    BY <1>2
  <2>2. {i \in 1 .. Len(s) : s[i] = w} = {p}
    BY <2>1 DEF OnceEach
  <2>3. SelectInSeq(s, LAMBDA v : v = w) = p
    BY <2>2 DEF SelectInSeq, Min
  <2>4. RemoveFirst(s, w) = SubSeq(s, 1, p - 1) \o SubSeq(s, p + 1, Len(s))
    BY <1>2, <2>3 DEF RemoveFirst, RemoveAt
  <2> DEFINE a == SubSeq(s, 1, p - 1)
             b == SubSeq(s, p + 1, Len(s))
  <2>5. /\ a \in Seq(Workers) /\ Len(a) = p - 1
        /\ \A i \in 1 .. p - 1 : a[i] = s[i]
    BY <2>1, SubSeqProperties
  <2>6. /\ b \in Seq(Workers) /\ Len(b) = Len(s) - p
        /\ \A i \in 1 .. Len(s) - p : b[i] = s[p + i]
    BY <2>1, SubSeqProperties
  <2> HIDE DEF a, b
  <2>7. /\ a \o b \in Seq(Workers) /\ Len(a \o b) = Len(s) - 1
        /\ \A i \in 1 .. Len(s) - 1 : (a \o b)[i] = IF i < p THEN s[i] ELSE s[i + 1]
    <3>1. /\ a \o b \in Seq(Workers) /\ Len(a \o b) = Len(a) + Len(b)
          /\ \A i \in 1 .. Len(a) + Len(b) :
                (a \o b)[i] = IF i <= Len(a) THEN a[i] ELSE b[i - Len(a)]
      BY <2>5, <2>6, ConcatProperties
    <3>2. Len(a) + Len(b) = Len(s) - 1 /\ p \in Nat /\ Len(s) \in Nat /\ p >= 1 /\ p <= Len(s)
      BY <2>1, <2>5, <2>6
    <3>3. ASSUME NEW i \in 1 .. Len(s) - 1
          PROVE  (a \o b)[i] = IF i < p THEN s[i] ELSE s[i + 1]
      <4>1. CASE i < p
        BY <2>5, <3>1, <3>2, <4>1
      <4>2. CASE ~(i < p)
        <5>1. (a \o b)[i] = b[i - (p - 1)]
          BY <2>5, <3>1, <3>2, <4>2
        <5>2. i - (p - 1) \in 1 .. Len(s) - p /\ p + (i - (p - 1)) = i + 1
          BY <3>2, <4>2
        <5>. QED BY <2>6, <4>2, <5>1, <5>2
      <4>. QED BY <4>1, <4>2
    <3>. QED BY <3>1, <3>2, <3>3
  <2> DEFINE c == a \o b
  <2> HIDE DEF c
  <2>8. c \in Seq(Workers) /\ OnceEach(c)
    <3>1. /\ c \in Seq(Workers) /\ DOMAIN c = 1 .. Len(s) - 1
          /\ \A i \in 1 .. Len(s) - 1 : c[i] = IF i < p THEN s[i] ELSE s[i + 1]
      BY <2>7 DEF c
    <3>2. ASSUME NEW i \in 1 .. Len(s) - 1, NEW j \in 1 .. Len(s) - 1, c[i] = c[j] PROVE i = j
      <4>1. PICK k \in 1 .. Len(s) : c[i] = s[k] /\ k = IF i < p THEN i ELSE i + 1
        BY <2>1, <3>1
      <4>2. PICK m \in 1 .. Len(s) : c[j] = s[m] /\ m = IF j < p THEN j ELSE j + 1
        BY <2>1, <3>1
      <4>3. k = m
        BY <2>0, <3>2, <4>1, <4>2
      <4>. QED BY <4>1, <4>2, <4>3, <2>1
    <3>. QED BY <3>1, <3>2 DEF OnceEach
  <2>9. RemoveFirst(s, w) = c
    BY <2>4 DEF a, b, c
  <2>. QED BY <2>8, <2>9
<1>. QED BY <1>1, <1>2

-----------------------------------------------------------------------------
(* Steps.                                                                   *)

\* A thread goes on, the others stay where they are.
LEMMA GotoMoves ==
    ASSUME pc \in [Procs -> Labels], NEW p \in Procs, NEW l \in Labels, Goto(p, l)
    PROVE  /\ pc' \in [Procs -> Labels]
           /\ pc'[p] = l
           /\ \A q \in Procs : q # p => pc'[q] = pc[q]
BY DEF Goto

\* The threads of the cluster service manager.
LEMMA TheThreads ==
    /\ "mqtt" \in Procs /\ "http" \in Procs /\ Threads \subseteq Procs
    /\ "mqtt" \notin Threads /\ "http" \notin Threads
BY ThreadsAssumption DEF Procs

\* Steps that change nothing the invariant speaks of.
Untouched ==
    /\ doc'.stored = doc.stored /\ doc'.listed = doc.listed
    /\ doc'.interested = doc.interested
    /\ pc'["mqtt"] = pc["mqtt"] /\ loc'["mqtt"] = loc["mqtt"]
    /\ \A p \in Procs : pc[p] = "fill" => pc'[p] = "fill"

LEMMA UntouchedStep == ASSUME IInv, Shape', Untouched PROVE IInv'
BY DEF IInv, MqttOK, UnfilledIsBeingFilled, InterestedOnce, Untouched

\* Steps of the MQTT loop between its calls about interests, and those of all
\* threads that store instances: interests and what is remembered stay.
Elsewhere == Labels \ {"read", "write", "unlist", "forget"}

LEMMA ElsewhereStep ==
    ASSUME IInv, Shape', doc'.interested = doc.interested, UnfilledIsBeingFilled',
           pc'["mqtt"] \in Elsewhere \/ pc'["mqtt"] = pc["mqtt"],
           loc'["mqtt"].who = loc["mqtt"].who, loc'["mqtt"].nodes = loc["mqtt"].nodes,
           pc["mqtt"] = "idle" => pc'["mqtt"] = "idle"
    PROVE  IInv'
BY DEF IInv, MqttOK, InterestedOnce, Elsewhere


\* The calls of the root and the requests it serves.
LEMMA RootStep ==
    ASSUME IInv,
           \/ RootDeployService
           \/ RootRemoveService
           \/ \E i \in Instances : RootDeployInstance(i)
           \/ \E n \in Instances \cup {All} : RootUndeploy(n)
           \/ \E i \in Instances, a \in Addrs : RemoteReport(i, a)
           \/ RootTimeout
    PROVE  IInv'
<1>1. UNCHANGED <<doc, pc, loc>>
  BY DEF RootDeployService, RootRemoveService, RootDeployInstance, RootUndeploy, RemoteReport,
         RootTimeout
<1>2. Shape' /\ Untouched
  BY <1>1 DEF IInv, Shape, Untouched
<1>. QED BY <1>2, UntouchedStep

\* The requests of the workers, of the orchestrator and of the root.
LEMMA QueryStep ==
    ASSUME IInv, NEW w \in Workers, NEW kind \in QueryKinds, TableQuery(w, kind)
    PROVE  IInv'
<1>1. Shape /\ pc["mqtt"] = "idle" /\ doc' = doc
  BY DEF IInv, TableQuery, MqttReceives
<1>2. loc' = [loc EXCEPT !["mqtt"] =
            [Nothing EXCEPT !.who = w, !.byAddress = (kind = "address"), !.found = (doc.list # <<>>),
                            !.broken = ListMissing(kind)]]
  BY DEF TableQuery
<1>3. DOMAIN loc' = Procs /\ DOMAIN loc'["mqtt"] = DOMAIN Nothing
      /\ loc'["mqtt"].who = w /\ loc'["mqtt"].nodes = <<>>
  BY <1>1, <1>2, TheThreads DEF Shape, Nothing
<1>4. /\ pc' \in [Procs -> Labels] /\ pc'["mqtt"] \in {"check", "query"}
      /\ \A q \in Procs : q # "mqtt" => pc'[q] = pc[q]
  <2>1. "check" \in Labels /\ "query" \in Labels
    BY DEF Labels
  <2>. QED BY <1>1, <2>1, TheThreads, GotoMoves DEF TableQuery, Shape
<1>5. Shape'
  BY <1>1, <1>3, <1>4 DEF Shape
<1>6. UnfilledIsBeingFilled'
  BY <1>1, <1>4 DEF IInv, UnfilledIsBeingFilled
<1>. QED BY <1>1, <1>3, <1>4, <1>5, <1>6 DEF IInv, MqttOK, InterestedOnce

LEMMA RemoveInterestStep ==
    ASSUME IInv, NEW w \in Workers, RemoveInterest(w)
    PROVE  IInv'
<1>1. Shape /\ pc["mqtt"] = "idle" /\ doc' = doc
  BY DEF IInv, RemoveInterest, MqttReceives
<1>2. loc' = [loc EXCEPT !["mqtt"] = [Nothing EXCEPT !.who = w, !.nodes = doc.interested]]
  BY DEF RemoveInterest
<1>3. DOMAIN loc' = Procs /\ DOMAIN loc'["mqtt"] = DOMAIN Nothing
      /\ loc'["mqtt"].who = w /\ loc'["mqtt"].nodes = doc.interested
  BY <1>1, <1>2, TheThreads DEF Shape, Nothing
<1>4. /\ pc' \in [Procs -> Labels] /\ pc'["mqtt"] \in {"relevant", "unlist", "dead"}
      /\ \A q \in Procs : q # "mqtt" => pc'[q] = pc[q]
  <2> DEFINE l == CASE doc.interested = <<>> -> "relevant"
                    [] IsInterested(w) -> "unlist"
                    [] OTHER -> "dead"
  <2>1. l \in {"relevant", "unlist", "dead"} /\ Goto("mqtt", l)
    BY DEF RemoveInterest
  <2>2. l \in Labels
    BY <2>1 DEF Labels
  <2> HIDE DEF l
  <2>. QED BY <1>1, <2>1, <2>2, TheThreads, GotoMoves DEF Shape
<1>5. doc.interested \in Seq(Workers) /\ OnceEach(doc.interested)
  BY DEF IInv, InterestedOnce, OnceEach
<1>6. Shape'
  BY <1>1, <1>3, <1>4, <1>5 DEF Shape
<1>7. UnfilledIsBeingFilled'
  BY <1>1, <1>4 DEF IInv, UnfilledIsBeingFilled
<1>. QED BY <1>1, <1>3, <1>4, <1>5, <1>6, <1>7 DEF IInv, MqttOK, InterestedOnce

\* The reports of a worker that a service is deployed.
LEMMA ReportSteps ==
    ASSUME IInv, NEW w \in Workers, NEW n \in Instances, NEW a \in Addrs,
           DeploymentReport(w, n, a) \/ AddressReport(w, n, a)
    PROVE  IInv'
<1>1. Shape /\ pc["mqtt"] = "idle"
  BY DEF IInv, DeploymentReport, AddressReport, MqttReceives
<1>2. PICK known : loc' = [loc EXCEPT !["mqtt"] = [Nothing EXCEPT !.who = w, !.snap = known]]
  BY DEF DeploymentReport, AddressReport
<1>3. DOMAIN loc' = Procs /\ DOMAIN loc'["mqtt"] = DOMAIN Nothing
      /\ loc'["mqtt"].who = w /\ loc'["mqtt"].nodes = <<>>
  BY <1>1, <1>2, TheThreads DEF Shape, Nothing
<1>4. PICK list : doc' = [doc EXCEPT !.list = list] \/ doc' = doc
  BY DEF DeploymentReport, AddressReport
<1>5. /\ doc'.stored = doc.stored /\ doc'.listed = doc.listed /\ doc'.interested = doc.interested
      /\ doc' = [stored |-> doc'.stored, listed |-> doc'.listed, list |-> doc'.list,
                 interested |-> doc'.interested]
  BY <1>1, <1>4 DEF Shape
<1>6. /\ pc' \in [Procs -> Labels] /\ pc'["mqtt"] \in {"save", "report"}
      /\ \A q \in Procs : q # "mqtt" => pc'[q] = pc[q]
  <2>1. PICK l \in {"save", "report"} : Goto("mqtt", l)
    BY DEF DeploymentReport, AddressReport
  <2>2. l \in Labels
    BY <2>1 DEF Labels
  <2>. QED BY <1>1, <2>1, <2>2, TheThreads, GotoMoves DEF Shape
<1>7. Shape'
  BY <1>3, <1>5, <1>6 DEF Shape
<1>8. UnfilledIsBeingFilled'
  BY <1>1, <1>5, <1>6 DEF IInv, UnfilledIsBeingFilled
<1>. QED BY <1>3, <1>5, <1>6, <1>7, <1>8 DEF IInv, MqttOK, InterestedOnce

-----------------------------------------------------------------------------
(* The MQTT loop.                                                           *)

\* Where it is does not matter to the others.
LEMMA MqttMoves ==
    ASSUME IInv, NEW l \in Labels, Goto("mqtt", l), pc["mqtt"] # "fill",
           doc'.stored = doc.stored, doc'.listed = doc.listed \/ doc'.listed
    PROVE  /\ pc' \in [Procs -> Labels]
           /\ pc'["mqtt"] = l
           /\ UnfilledIsBeingFilled'
<1>1. /\ pc' \in [Procs -> Labels] /\ pc'["mqtt"] = l
      /\ \A q \in Procs : q # "mqtt" => pc'[q] = pc[q]
  BY TheThreads, GotoMoves DEF IInv, Shape
<1>2. UnfilledIsBeingFilled'
  BY <1>1 DEF IInv, UnfilledIsBeingFilled
<1>. QED BY <1>1, <1>2

\* add_interest: what it found out is true as long as nobody else writes.
LEMMA InterestSteps ==
    ASSUME IInv, AddInterest \/ ReadInterested \/ WriteInterested PROVE IInv'
<1> USE DEF Labels
<1>0. Shape /\ MqttOK /\ doc.interested \in Seq(Workers) /\ InterestedOnce
  BY DEF IInv
<1>1. ASSUME AddInterest PROVE IInv'
  <2> DEFINE l == IF IsInterested(loc["mqtt"].who) THEN "answer" ELSE "read"
  <2>1. /\ pc["mqtt"] = "check" /\ Goto("mqtt", l) /\ l \in Labels /\ UNCHANGED <<doc, loc>>
        /\ l \in {"answer", "read"}
        /\ l = "read" => ~Has(doc.interested, loc["mqtt"].who)
    BY <1>1 DEF AddInterest, IsInterested, Has
  <2> HIDE DEF l
  <2>2. /\ pc' \in [Procs -> Labels] /\ pc'["mqtt"] = l /\ UnfilledIsBeingFilled'
    BY <2>1, MqttMoves
  <2>. QED BY <1>0, <2>1, <2>2 DEF IInv, Shape, MqttOK, InterestedOnce
<1>2. ASSUME ReadInterested PROVE IInv'
  <2>1. /\ pc["mqtt"] = "read" /\ Goto("mqtt", "write") /\ UNCHANGED doc
        /\ loc' = [loc EXCEPT !["mqtt"].nodes = doc.interested]
    BY <1>2 DEF ReadInterested
  <2>2. /\ pc' \in [Procs -> Labels] /\ pc'["mqtt"] = "write" /\ UnfilledIsBeingFilled'
    BY <2>1, MqttMoves
  <2>3. DOMAIN loc' = Procs /\ DOMAIN loc'["mqtt"] = DOMAIN Nothing
        /\ loc'["mqtt"].who = loc["mqtt"].who
        /\ loc'["mqtt"].nodes = doc.interested
    BY <1>0, <2>1, TheThreads DEF Shape, Nothing
  <2>. QED BY <1>0, <2>1, <2>2, <2>3 DEF IInv, Shape, MqttOK, InterestedOnce, OnceEach
<1>3. ASSUME WriteInterested PROVE IInv'
  <2> DEFINE nodes == loc["mqtt"].nodes
             who == loc["mqtt"].who
  <2>1. /\ pc["mqtt"] = "write" /\ Goto("mqtt", "answer") /\ UNCHANGED loc
        /\ doc' = IF doc.stored THEN [doc EXCEPT !.interested = Append(nodes, who)] ELSE doc
    BY <1>3 DEF WriteInterested
  <2>2. nodes \in Seq(Workers) /\ OnceEach(nodes) /\ who \in Workers /\ ~Has(nodes, who)
    BY <1>0, <2>1 DEF Shape, MqttOK
  <2>3. Append(nodes, who) \in Seq(Workers) /\ OnceEach(Append(nodes, who))
    BY <2>2, AppendOnce
  <2> HIDE DEF nodes, who
  <2>4. PICK new \in Seq(Workers) : OnceEach(new) /\ doc' = [doc EXCEPT !.interested = new]
    <3>1. CASE doc.stored
      BY <2>1, <2>3, <3>1
    <3>2. CASE ~doc.stored
      <4>1. doc' = [doc EXCEPT !.interested = doc.interested]
        BY <1>0, <2>1, <3>2 DEF Shape
      <4>. QED BY <1>0, <4>1 DEF InterestedOnce, OnceEach
    <3>. QED BY <3>1, <3>2
  <2>5. /\ doc' = [stored |-> doc.stored, listed |-> doc.listed, list |-> doc.list,
                   interested |-> new]
    BY <1>0, <2>4 DEF Shape
  <2>6. /\ pc' \in [Procs -> Labels] /\ pc'["mqtt"] = "answer" /\ UnfilledIsBeingFilled'
    BY <2>1, <2>5, MqttMoves
  <2>. QED BY <1>0, <2>1, <2>4, <2>5, <2>6 DEF IInv, Shape, MqttOK, InterestedOnce, OnceEach
<1>. QED BY <1>1, <1>2, <1>3

\* mongo_remove_interest, and what follows it.
LEMMA UninterestSteps ==
    ASSUME IInv, Unlist \/ CheckRelevant \/ RootRemoveInterest PROVE IInv'
<1> USE DEF Labels
<1>0. Shape /\ MqttOK /\ doc.interested \in Seq(Workers) /\ InterestedOnce
  BY DEF IInv
<1>1. ASSUME Unlist PROVE IInv'
  <2> DEFINE nodes == loc["mqtt"].nodes
             left == RemoveFirst(nodes, loc["mqtt"].who)
  <2>1. /\ pc["mqtt"] = "unlist" /\ Goto("mqtt", "relevant") /\ UNCHANGED loc
        /\ doc' = IF doc.stored THEN [doc EXCEPT !.interested = left] ELSE doc
    BY <1>1 DEF Unlist
  <2>2. nodes \in Seq(Workers) /\ OnceEach(nodes)
    BY <1>0, <2>1 DEF Shape, MqttOK
  <2> HIDE DEF nodes
  <2>3. left \in Seq(Workers) /\ OnceEach(left)
    BY <2>2, RemoveOnce
  <2> HIDE DEF left
  <2>4. PICK new \in Seq(Workers) : OnceEach(new) /\ doc' = [doc EXCEPT !.interested = new]
    <3>1. CASE doc.stored
      BY <2>1, <2>3, <3>1
    <3>2. CASE ~doc.stored
      <4>1. doc' = [doc EXCEPT !.interested = doc.interested]
        BY <1>0, <2>1, <3>2 DEF Shape
      <4>. QED BY <1>0, <4>1 DEF InterestedOnce, OnceEach
    <3>. QED BY <3>1, <3>2
  <2>5. /\ doc' = [stored |-> doc.stored, listed |-> doc.listed, list |-> doc.list,
                   interested |-> new]
    BY <1>0, <2>4 DEF Shape
  <2>6. /\ pc' \in [Procs -> Labels] /\ pc'["mqtt"] = "relevant" /\ UnfilledIsBeingFilled'
    BY <2>1, <2>5, MqttMoves
  <2>. QED BY <1>0, <2>1, <2>4, <2>5, <2>6 DEF IInv, Shape, MqttOK, InterestedOnce, OnceEach
<1>2. ASSUME CheckRelevant PROVE IInv'
  <2> DEFINE l == IF IsJobRelevant THEN "idle" ELSE "forget"
  <2>1. /\ pc["mqtt"] = "relevant" /\ Goto("mqtt", l) /\ l \in Labels /\ UNCHANGED <<doc, loc>>
        /\ l \in {"idle", "forget"}
    BY <1>2 DEF CheckRelevant
  <2>2. l = "forget" => doc.interested = <<>>
    BY <1>0 DEF IsJobRelevant
  <2> HIDE DEF l
  <2>3. /\ pc' \in [Procs -> Labels] /\ pc'["mqtt"] = l /\ UnfilledIsBeingFilled'
    BY <2>1, MqttMoves
  <2>. QED BY <1>0, <2>1, <2>2, <2>3 DEF IInv, Shape, MqttOK, InterestedOnce
<1>3. ASSUME RootRemoveInterest PROVE IInv'
  <2>1. pc["mqtt"] = "forget" /\ Goto("mqtt", "erase") /\ UNCHANGED <<doc, loc>>
    BY <1>3 DEF RootRemoveInterest
  <2>2. /\ pc' \in [Procs -> Labels] /\ pc'["mqtt"] = "erase" /\ UnfilledIsBeingFilled'
    BY <2>1, MqttMoves
  <2>. QED BY <1>0, <2>1, <2>2 DEF IInv, Shape, MqttOK, InterestedOnce
<1>. QED BY <1>1, <1>2, <1>3

\* The answer to a worker, and the report to the root.
LEMMA AnsweringSteps ==
    ASSUME IInv, Answer \/ SaveDeployed \/ ReportStatus \/ StatusReported PROVE IInv'
<1> USE DEF Labels
<1>0. Shape
  BY DEF IInv
<1>1. PICK l \in {"dead", "idle", "report", "posted"} : Goto("mqtt", l)
  BY DEF Answer, SaveDeployed, ReportStatus, StatusReported
<1>2. pc["mqtt"] \in {"answer", "save", "report", "posted"}
  BY DEF Answer, SaveDeployed, ReportStatus, StatusReported
<1>3. PICK list : loc' = loc \/ loc' = [loc EXCEPT !["mqtt"].snap = list]
  BY DEF Answer, SaveDeployed, ReportStatus, StatusReported
<1>4. /\ DOMAIN loc' = Procs /\ DOMAIN loc'["mqtt"] = DOMAIN Nothing
      /\ loc'["mqtt"].who = loc["mqtt"].who /\ loc'["mqtt"].nodes = loc["mqtt"].nodes
  BY <1>0, <1>3, TheThreads DEF Shape, Nothing
<1>5. doc' = doc \/ doc' = [doc EXCEPT !.listed = TRUE, !.list = loc["mqtt"].snap]
  BY DEF Answer, SaveDeployed, ReportStatus, StatusReported
<1>6. /\ doc'.stored = doc.stored
      /\ doc'.listed = doc.listed \/ doc'.listed
      /\ doc'.interested = doc.interested
      /\ doc' = [stored |-> doc'.stored, listed |-> doc'.listed, list |-> doc'.list,
                 interested |-> doc'.interested]
  BY <1>0, <1>5 DEF Shape
<1>7. pc' \in [Procs -> Labels] /\ pc'["mqtt"] = l /\ UnfilledIsBeingFilled'
  BY <1>1, <1>2, <1>6, MqttMoves
<1>8. Shape'
  BY <1>0, <1>4, <1>6, <1>7 DEF Shape
<1>. QED BY <1>2, <1>4, <1>6, <1>7, <1>8, ElsewhereStep DEF Elsewhere

-----------------------------------------------------------------------------
(* All threads.                                                             *)

\* What the MQTT loop remembers about interests.
SameMemory ==
    /\ DOMAIN loc' = Procs /\ DOMAIN loc'["mqtt"] = DOMAIN Nothing
    /\ loc'["mqtt"].who = loc["mqtt"].who /\ loc'["mqtt"].nodes = loc["mqtt"].nodes

\* A document that loses its list has the thread of this step to fill it.
FilledBy(l) == doc'.stored /\ ~doc'.listed => (doc.stored /\ ~doc.listed) \/ l = "fill"

SameInterests ==
    /\ doc' = [stored |-> doc'.stored, listed |-> doc'.listed, list |-> doc'.list,
               interested |-> doc'.interested]
    /\ doc'.interested = doc.interested

\* A step of a thread that is about instances.
LEMMA InstanceStep ==
    ASSUME IInv, NEW p \in Procs, NEW l \in Elsewhere, Goto(p, l),
           p = "mqtt" => pc[p] # "idle", SameMemory, SameInterests, FilledBy(l),
           pc[p] = "fill" /\ doc'.stored => doc'.listed
    PROVE  IInv'
<1>1. l \in Labels
  BY DEF Elsewhere
<1>2. /\ pc' \in [Procs -> Labels] /\ pc'[p] = l
      /\ \A q \in Procs : q # p => pc'[q] = pc[q]
  BY <1>1, GotoMoves DEF IInv, Shape
<1>3. Shape'
  BY <1>2 DEF IInv, Shape, SameMemory, SameInterests
<1>4. UnfilledIsBeingFilled'
  BY <1>2 DEF IInv, UnfilledIsBeingFilled, FilledBy
<1>5. pc'["mqtt"] \in Elsewhere \/ pc'["mqtt"] = pc["mqtt"]
  BY <1>2, TheThreads
<1>6. pc["mqtt"] = "idle" => pc'["mqtt"] = "idle"
  BY <1>2, TheThreads
<1>. QED BY <1>3, <1>4, <1>5, <1>6, ElsewhereStep DEF SameMemory, SameInterests

\* Where threads go when they have stored the instances.
LEMMA AfterStoringElsewhere == \A p \in Procs : AfterStoring(p) \in Elsewhere
BY DEF AfterStoring, Elsewhere, Labels

LEMMA UnchangedMemory == ASSUME IInv, loc' = loc PROVE SameMemory
BY DEF IInv, Shape, SameMemory

LEMMA UnchangedInterests == ASSUME IInv, doc' = doc PROVE SameInterests /\ \A l : FilledBy(l)
BY DEF IInv, Shape, SameInterests, FilledBy

\* get_service_instances at the root.
LEMMA QuerySteps ==
    ASSUME IInv, NEW p \in Procs, QueryRoot(p) \/ QueryFails(p)
    PROVE  IInv'
<1>1. pc[p] = "query" /\ doc' = doc
  BY DEF QueryRoot, QueryFails
<1>2. SameMemory
  <2>1. CASE loc' = loc
    BY <2>1, UnchangedMemory
  <2>2. CASE loc' = [loc EXCEPT ![p].snap = RootList, ![p].found = Deployed # {}]
    BY <2>2, TheThreads DEF IInv, Shape, SameMemory, Nothing
  <2>. QED BY <2>1, <2>2 DEF QueryRoot, QueryFails
<1>3. PICK l \in Elsewhere : Goto(p, l)
  <2>1. "update" \in Elsewhere /\ "insert" \in Elsewhere /\ "answer" \in Elsewhere
    BY DEF Elsewhere, Labels
  <2>. QED BY <2>1, AfterStoringElsewhere DEF QueryRoot, QueryFails
<1>. QED BY <1>1, <1>2, <1>3, UnchangedInterests, InstanceStep

\* mongo_insert_job
LEMMA InsertSteps ==
    ASSUME IInv, NEW p \in Procs, Insert(p) \/ Fill(p)
    PROVE  IInv'
<1>0. Shape /\ loc' = loc
  BY DEF IInv, Insert, Fill
<1>1. ASSUME Insert(p) PROVE IInv'
  <2> DEFINE l == IF HasList THEN "next" ELSE "fill"
  <2>1. pc[p] = "insert" /\ doc' = [doc EXCEPT !.stored = TRUE] /\ Goto(p, l)
    BY <1>1 DEF Insert
  <2>2. doc' = [stored |-> TRUE, listed |-> doc.listed, list |-> doc.list,
                interested |-> doc.interested]
    BY <1>0, <2>1 DEF Shape
  <2>3. FilledBy(l)
    BY <2>2 DEF FilledBy, HasList
  <2>4. l \in Elsewhere
    BY DEF Elsewhere, Labels
  <2>5. SameInterests
    BY <2>2 DEF SameInterests
  <2> HIDE DEF l
  <2>. QED BY <1>0, <2>1, <2>3, <2>4, <2>5, UnchangedMemory, InstanceStep
<1>2. ASSUME Fill(p) PROVE IInv'
  <2>1. /\ pc[p] = "fill" /\ Goto(p, "next") /\ "next" \in Elsewhere
        /\ doc' = IF doc.stored THEN [doc EXCEPT !.listed = TRUE, !.list = <<>>] ELSE doc
    BY <1>2 DEF Fill, Elsewhere, Labels
  <2>2. SameInterests /\ (doc'.stored => doc'.listed)
    BY <1>0, <2>1 DEF Shape, SameInterests
  <2>3. FilledBy("next")
    BY <2>2 DEF FilledBy
  <2>. QED BY <1>0, <2>1, <2>2, <2>3, UnchangedMemory, InstanceStep
<1>. QED BY <1>1, <1>2

\* mongo_update_job_instance
LEMMA StoreSteps ==
    ASSUME IInv, NEW p \in Procs, FindInstance(p) \/ StoreInstance(p)
    PROVE  IInv'
<1>0. Shape /\ pc[p] \in {"next", "set", "push"}
  BY DEF IInv, FindInstance, StoreInstance
<1>1. PICK l \in Elsewhere : Goto(p, l)
  <2>1. "set" \in Elsewhere /\ "push" \in Elsewhere /\ "next" \in Elsewhere
    BY DEF Elsewhere, Labels
  <2>. QED BY <2>1, AfterStoringElsewhere DEF FindInstance, StoreInstance
<1>2. SameMemory
  <2>1. CASE loc' = loc
    BY <2>1, UnchangedMemory
  <2>2. CASE loc' = [loc EXCEPT ![p].snap = Tail(@)]
    BY <1>0, <2>2, TheThreads DEF Shape, SameMemory, Nothing
  <2>. QED BY <2>1, <2>2 DEF FindInstance, StoreInstance
<1>3. /\ doc'.listed = doc.listed \/ doc'.listed
      /\ doc'.stored = doc.stored /\ SameInterests
  <2>1. CASE doc' = doc
    BY <2>1, UnchangedInterests
  <2>2. ASSUME StoreInstance(p), doc' # doc
        PROVE  \E list : \/ doc' = [doc EXCEPT !.list = list]
                         \/ doc' = [doc EXCEPT !.listed = TRUE, !.list = list]
    <3> DEFINE e == Head(loc[p].snap)
               f == FirstListed(e.num)
    <3>1. CASE pc[p] = "set" /\ Listed(e.num) # {}
      <4>1. doc' = [doc EXCEPT !.list[f].addr = e.addr]
        BY <2>2, <3>1 DEF StoreInstance
      <4>2. doc' = [doc EXCEPT !.list = [doc.list EXCEPT ![f].addr = e.addr]]
        BY <4>1
      <4>. QED BY <4>2
    <3>2. CASE ~(pc[p] = "set" /\ Listed(e.num) # {})
      <4>1. doc' = [doc EXCEPT !.listed = TRUE, !.list = Append(doc.list, e)]
        BY <2>2, <3>2 DEF StoreInstance
      <4>. QED BY <4>1
    <3>. QED BY <3>1, <3>2
  <2>3. CASE doc' # doc
    <3>1. PICK list : \/ doc' = [doc EXCEPT !.list = list]
                      \/ doc' = [doc EXCEPT !.listed = TRUE, !.list = list]
      BY <2>2, <2>3 DEF FindInstance
    <3>. QED BY <1>0, <3>1 DEF Shape, SameInterests
  <2>. QED BY <2>1, <2>3
<1>4. FilledBy(l)
  BY <1>3 DEF FilledBy
<1>. QED BY <1>0, <1>1, <1>2, <1>3, <1>4, InstanceStep

\* mongo_remove_job: with the document its interests go, and the loop's
\* knowledge of them stays true.
LEMMA EraseStep ==
    ASSUME IInv, NEW p \in Procs, Erase(p)
    PROVE  IInv'
<1> DEFINE l == IF p \in Threads THEN "notify" ELSE "idle"
<1>1. pc[p] = "erase" /\ doc' = NoDoc /\ loc' = loc /\ Goto(p, l) /\ l \in {"notify", "idle"}
      /\ l \in Labels
  BY DEF Erase, Labels
<1> HIDE DEF l
<1>2. /\ pc' \in [Procs -> Labels] /\ pc'[p] = l
      /\ \A q \in Procs : q # p => pc'[q] = pc[q]
  BY <1>1, GotoMoves DEF IInv, Shape
<1>3. Shape'
  BY <1>1, <1>2 DEF IInv, Shape, NoDoc
<1>4. MqttOK'
  BY <1>1, <1>2, TheThreads DEF IInv, MqttOK, NoDoc, Has
<1>. QED BY <1>1, <1>3, <1>4 DEF IInv, NoDoc, InterestedOnce, UnfilledIsBeingFilled

-----------------------------------------------------------------------------
(* The HTTP server and the update threads.                                  *)

\* A thread is started.
LEMMA StartStep ==
    ASSUME IInv, NEW t \in Threads, NEW call, StartThread(t, call), doc' = doc
    PROVE  IInv'
<1>1. PICK l \in {"query", "pull"} : Goto(t, l)
  BY DEF StartThread
<1>2. pc[t] = "idle" /\ loc' = [loc EXCEPT ![t] = [Nothing EXCEPT !.num = call.num]]
  BY DEF StartThread
<1>3. SameMemory
  BY <1>2, TheThreads DEF IInv, Shape, SameMemory
<1>4. l \in Elsewhere
  BY DEF Elsewhere, Labels
<1>. QED BY <1>1, <1>2, <1>3, <1>4, TheThreads, UnchangedInterests, InstanceStep

\* create_service and remove_service
LEMMA ServiceSteps ==
    ASSUME IInv, CreateService \/ RemoveService
    PROVE  IInv'
<1>1. PICK l \in {"query", "erase", "spawn"} : Goto("http", l)
  BY DEF CreateService, RemoveService
<1>2. PICK new : loc' = [loc EXCEPT !["http"] = new]
  BY DEF CreateService, RemoveService
<1>3. pc["http"] = "idle" /\ doc' = doc
  BY DEF CreateService, RemoveService
<1>4. SameMemory
  BY <1>2, TheThreads DEF IInv, Shape, SameMemory
<1>5. l \in Elsewhere
  BY DEF Elsewhere, Labels
<1>. QED BY <1>1, <1>3, <1>4, <1>5, TheThreads, UnchangedInterests, InstanceStep

LEMMA UndeployStep ==
    ASSUME IInv, NEW t \in Threads, UndeployNext(t)
    PROVE  IInv'
<1> DEFINE l == IF Len(loc["http"].snap) = 1 THEN "erase" ELSE "spawn"
<1>1. /\ pc["http"] = "spawn" /\ pc[t] = "idle" /\ doc' = doc
      /\ pc' = [pc EXCEPT ![t] = "pull", !["http"] = l]
      /\ loc' = [loc EXCEPT !["http"].snap = Tail(@),
                            ![t] = [Nothing EXCEPT !.num = Head(loc["http"].snap).num]]
  BY DEF UndeployNext
<1>2. l \in Labels /\ "pull" \in Labels
  BY DEF Labels
<1> HIDE DEF l
<1>3. /\ pc' \in [Procs -> Labels] /\ pc'["mqtt"] = pc["mqtt"]
      /\ \A q \in Procs : pc[q] = "fill" => pc'[q] = "fill"
  BY <1>1, <1>2, TheThreads DEF IInv, Shape
<1>4. DOMAIN loc' = Procs /\ loc'["mqtt"] = loc["mqtt"]
  BY <1>1, TheThreads DEF IInv, Shape
<1>5. Shape' /\ Untouched
  BY <1>1, <1>3, <1>4 DEF IInv, Shape, Untouched
<1>. QED BY <1>5, UntouchedStep

\* _update_cache_and_workers
LEMMA UpdateSteps ==
    ASSUME IInv, NEW t \in Threads, UpdateStep(t)
    PROVE  IInv'
<1>0. Shape /\ t \in Procs /\ t # "mqtt"
  BY TheThreads DEF IInv
<1>1. ASSUME UpdateJob(t) PROVE IInv'
  <2>1. pc[t] = "update" /\ doc' = doc
    BY <1>1 DEF UpdateJob
  <2>2. PICK l \in {"next", "insert"} : Goto(t, l)
    BY <1>1 DEF UpdateJob
  <2>3. SameMemory
    <3>1. CASE loc' = loc
      BY <3>1, UnchangedMemory
    <3>2. CASE loc' = [loc EXCEPT ![t].snap = <<>>]
      BY <1>0, <3>2, TheThreads DEF Shape, SameMemory
    <3>. QED BY <1>1, <3>1, <3>2 DEF UpdateJob
  <2>4. l \in Elsewhere
    BY DEF Elsewhere, Labels
  <2>. QED BY <1>0, <2>1, <2>2, <2>3, <2>4, UnchangedInterests, InstanceStep
<1>2. ASSUME RemoveInstance(t) PROVE IInv'
  <2> DEFINE n == loc[t].num
             left == SelectSeq(doc.list, LAMBDA e : e.num # n)
             l == CASE n = All -> "erase"
                    [] n # All /\ ~doc.stored -> "notify"
                    [] n # All /\ doc.stored /\ ~doc.listed -> "idle"
                    [] n # All /\ doc.listed -> IF left = <<>> THEN "erase" ELSE "notify"
  <2>1. /\ pc[t] = "pull" /\ loc' = loc /\ Goto(t, l)
        /\ doc' = IF n = All THEN doc ELSE [doc EXCEPT !.list = left]
    BY <1>2 DEF RemoveInstance
  <2>2. l \in Elsewhere
    <3>1. "erase" \in Elsewhere /\ "notify" \in Elsewhere /\ "idle" \in Elsewhere
      BY DEF Elsewhere, Labels
    <3> HIDE DEF left
    <3>2. CASE n = All
      BY <3>1, <3>2
    <3>3. CASE n # All /\ ~doc.stored
      BY <3>1, <3>3
    <3>4. CASE n # All /\ doc.stored /\ ~doc.listed
      BY <3>1, <3>4
    <3>5. CASE n # All /\ doc.stored /\ doc.listed
      BY <3>1, <3>5
    <3>. QED BY <3>2, <3>3, <3>4, <3>5
  <2> HIDE DEF left, l
  <2>3. SameInterests /\ FilledBy(l)
    BY <1>0, <2>1 DEF Shape, SameInterests, FilledBy
  <2>. QED BY <1>0, <2>1, <2>2, <2>3, UnchangedMemory, InstanceStep
<1>3. ASSUME NotifyWorkers(t) PROVE IInv'
  <2>1. pc[t] = "notify" /\ doc' = doc /\ loc' = loc /\ Goto(t, "idle") /\ "idle" \in Elsewhere
    BY <1>3 DEF NotifyWorkers, Elsewhere, Labels
  <2>. QED BY <1>0, <2>1, UnchangedMemory, UnchangedInterests, InstanceStep
<1>. QED BY <1>1, <1>2, <1>3 DEF UpdateStep

\* mongo_init: nothing is left that could be wrong.
LEMMA RestartStep == ASSUME Restart PROVE IInv'
<1>1. doc' = NoDoc /\ pc' = [p \in Procs |-> "idle"] /\ loc' = [p \in Procs |-> Nothing]
  BY DEF Restart
<1>2. Shape' /\ MqttOK'
  <2>1. pc'["mqtt"] = "idle" /\ loc'["mqtt"] = Nothing /\ DOMAIN loc' = Procs
    BY <1>1, TheThreads
  <2>2. pc' \in [Procs -> Labels]
    BY <1>1 DEF Labels
  <2>3. Nothing.nodes \in Seq(Workers)
    BY DEF Nothing
  <2>. QED BY <1>1, <2>1, <2>2, <2>3 DEF Shape, MqttOK, NoDoc
<1>. QED BY <1>1, <1>2 DEF IInv, NoDoc, InterestedOnce, UnfilledIsBeingFilled

-----------------------------------------------------------------------------
LEMMA InitIInv == Init => IInv
<1> SUFFICES ASSUME Init PROVE IInv
  OBVIOUS
<1>1. Shape /\ MqttOK
  <2>1. doc = NoDoc /\ pc = [p \in Procs |-> "idle"] /\ loc = [p \in Procs |-> Nothing]
    BY DEF Init
  <2>2. pc["mqtt"] = "idle" /\ loc["mqtt"] = Nothing /\ DOMAIN loc = Procs
    BY <2>1, TheThreads
  <2>3. pc \in [Procs -> Labels]
    BY <2>1 DEF Labels
  <2>4. Nothing.nodes \in Seq(Workers)
    BY DEF Nothing
  <2>. QED BY <2>1, <2>2, <2>3, <2>4 DEF Shape, MqttOK, NoDoc
<1>. QED BY <1>1 DEF Init, IInv, NoDoc, InterestedOnce, UnfilledIsBeingFilled

LEMMA NextIInv == IInv /\ [Next]_vars => IInv'
<1> SUFFICES ASSUME IInv, [Next]_vars PROVE IInv'
  OBVIOUS
<1>1. ASSUME Request PROVE IInv'
  BY <1>1, RootStep, QueryStep, RemoveInterestStep, ReportSteps, ServiceSteps DEF Request
<1>2. ASSUME NEW t \in Threads, AcceptCall(t) PROVE IInv'
  BY <1>2, StartStep DEF AcceptCall
<1>3. ASSUME MqttStep PROVE IInv'
  BY <1>3, InterestSteps, UninterestSteps, AnsweringSteps DEF MqttStep
<1>4. ASSUME NEW p \in Procs, ThreadStep(p) PROVE IInv'
  BY <1>4, QuerySteps, InsertSteps, StoreSteps, EraseStep DEF ThreadStep
<1>5. CASE UNCHANGED vars
  <2>1. Shape' /\ Untouched
    BY <1>5 DEF vars, IInv, Shape, Untouched
  <2>. QED BY <2>1, UntouchedStep
<1>. QED BY <1>1, <1>2, <1>3, <1>4, <1>5, RootStep, UndeployStep, UpdateSteps, RestartStep
     DEF Next, Accept, Undeploy

\* No worker is listed twice in interested_nodes: what add_interest found out
\* before it reads and writes the list is still true then.
THEOREM WorkersListedOnce == Spec => []InterestedOnce
<1>1. IInv => InterestedOnce
  BY DEF IInv
<1>. QED BY <1>1, InitIInv, NextIInv, PTL DEF Spec

\* A document that mongo_insert_job has stored without a list has the thread
\* that will add it, whatever the other threads remove and store meanwhile.
THEOREM ListsAreFilled == Spec => []UnfilledIsBeingFilled
<1>1. IInv => UnfilledIsBeingFilled
  BY DEF IInv
<1>. QED BY <1>1, InitIInv, NextIInv, PTL DEF Spec

\* interests.remove_interest: the root is told to forget the cluster only if
\* no worker is interested at that moment.
THEOREM ForgottenWhenUnwanted == Spec => RootForgetsOnlyUnwanted
<1>1. ASSUME IInv, [Next]_vars, rootInterest, ~rootInterest' PROVE doc.interested = <<>>
  <2>1. CASE RootRemoveInterest
    BY <1>1, <2>1 DEF RootRemoveInterest, IInv, MqttOK
  <2>2. CASE ~RootRemoveInterest
    <3>1. ASSUME NEW p \in Procs, ThreadStep(p) PROVE rootInterest'
      BY <1>1, <3>1 DEF ThreadStep, QueryRoot, QueryFails, Insert, Fill, FindInstance,
                        StoreInstance, Erase, RegisterClusterInterest, rootVars
    <3>2. ASSUME Request PROVE rootInterest'
      BY <1>1, <3>2 DEF Request, RootDeployService, RootRemoveService, RootDeployInstance,
         RootUndeploy, RemoteReport, TableQuery, RemoveInterest, DeploymentReport,
         AddressReport, CreateService, RemoveService, rootVars
    <3>3. ASSUME MqttStep PROVE rootInterest'
      BY <1>1, <2>2, <3>3 DEF MqttStep, AddInterest, ReadInterested, WriteInterested, Answer,
         Unlist, CheckRelevant, SaveDeployed, ReportStatus, StatusReported, rootVars
    <3>4. ASSUME NEW t \in Threads, AcceptCall(t) \/ UndeployNext(t) \/ UpdateStep(t)
          PROVE  rootInterest'
      BY <1>1, <3>4 DEF AcceptCall, UndeployNext, UpdateStep, UpdateJob, RemoveInstance,
         NotifyWorkers, rootVars
    <3>5. ASSUME RootTimeout \/ Restart \/ UNCHANGED vars PROVE rootInterest'
      BY <1>1, <3>5 DEF RootTimeout, Restart, vars
    <3>. QED BY <1>1, <3>1, <3>2, <3>3, <3>4, <3>5 DEF Next, Accept, Undeploy
  <2>. QED BY <2>1, <2>2
<1>. QED BY <1>1, InitIInv, NextIInv, PTL DEF Spec, RootForgetsOnlyUnwanted

=============================================================================
