--------------------------- MODULE OutcomeProofs ---------------------------
(* What the scheduler promises, and what the task row says of the executions, *)
(* for every contract and any number of requests.                             *)
EXTENDS TaskProofs

----------------------------------------------------------------------------
(* What the scheduler promises when callers make one driving request at a     *)
(* time: a node runs only when all above it that will ever run has succeeded, *)
(* and on inputs that are still in use.                                       *)

----------------------------------------------------------------------------
(* The contract's graph.                                                      *)

LEMMA DownstreamType == \A n \in Nodes : Downstream[n] \subseteq Nodes
BY DEF Downstream

LEMMA EdgeBelow ==
    ASSUME NEW e \in Edges, e.from \in Nodes, e.to \in Nodes
    PROVE  e.to \in Downstream[e.from]
BY DEF Downstream, ClosedFrom, Successors

LEMMA BelowBelow ==
    ASSUME NEW k \in Nodes, NEW m \in Downstream[k], NEW n \in Downstream[m]
    PROVE  n \in Downstream[k]
<1>1. m \in Nodes /\ n \in Nodes
  BY DownstreamType
<1>2. ASSUME NEW C \in SUBSET Nodes, ClosedFrom({k}, C) PROVE n \in C
  <2>1. m \in C
    BY <1>2 DEF Downstream
  <2>2. ClosedFrom({m}, C)
    BY <1>2, <2>1 DEF ClosedFrom, Successors
  <2> QED BY <1>1, <2>2 DEF Downstream
<1> QED BY <1>1, <1>2 DEF Downstream

\* The last edge of a path.
LEMMA LastEdge ==
    ASSUME NEW k \in Nodes, NEW n \in Downstream[k]
    PROVE  \E e \in Edges : e.to = n /\ e.from \in {k} \cup Downstream[k]
<1> DEFINE C == Successors({k} \cup Downstream[k])
<1>1. C \in SUBSET Nodes
  BY DEF Successors
<1>2. C \subseteq Downstream[k]
  <2> SUFFICES ASSUME NEW m \in C PROVE m \in Downstream[k]
    OBVIOUS
  <2>1. PICK e \in Edges : e.from \in {k} \cup Downstream[k] /\ e.to = m
    BY DEF Successors
  <2>2. m \in Nodes /\ e.from \in Nodes
    BY <1>1, <2>1, DownstreamType
  <2>3. m \in Downstream[e.from]
    BY <2>1, <2>2, EdgeBelow
  <2> QED BY <2>1, <2>3, BelowBelow
<1>3. ClosedFrom({k}, C)
  BY <1>2 DEF ClosedFrom, Successors
<1>4. n \in C
  BY <1>1, <1>3 DEF Downstream
<1> QED BY <1>4 DEF Successors

\* What a validated contract says of its edges.
LEMMA EdgesAre ==
    ASSUME NEW e \in Edges
    PROVE  /\ e.from \in Nodes \cup {START} /\ e.to \in Nodes \cup {END}
           /\ \A w \in e.when : /\ e.from \in Nodes /\ w.node \in Nodes
                                /\ w.node = e.from \/ w.node \in Upstream(e.from)
<1>1. e \in Edge
  BY ContractAssumption DEF ContractOK
<1>2. e.from \in Nodes \cup {START} /\ e.to \in Nodes \cup {END}
  BY <1>1 DEF Edge
<1>3. ASSUME NEW w \in e.when PROVE e.from # START /\ w.node \in Upstream(e.from) \cup {e.from}
  BY ContractAssumption DEF ContractOK
<1>4. \A w \in e.when : w.node \in Nodes
  BY <1>1 DEF Edge, Condition
<1> QED BY <1>2, <1>3, <1>4

----------------------------------------------------------------------------
(* Due: the node is active, and of the nodes above it all have completed that *)
(* are active or may become so.                                               *)

Pending(outs) == (ActiveNodes(outs) \cup PotentialNodes(outs)) \ Completed(outs)
Due(n, outs) == n \in ActiveNodes(outs) /\ Upstream(n) \cap Pending(outs) = {}

\* Where a node is pending so are the nodes below it that have not completed.
LEMMA PendingBelow ==
    ASSUME NEW outs, NEW k \in Nodes, k \in Pending(outs), NEW n \in Downstream[k]
    PROVE  n \in PotentialNodes(outs)
<1>1. CASE k \in ActiveNodes(outs)
  BY <1>1 DEF Pending, PotentialNodes
<1>2. CASE k \in PotentialNodes(outs)
  <2>1. PICK m \in ActiveNodes(outs) \ Completed(outs) : k \in Downstream[m]
    BY <1>2 DEF PotentialNodes
  <2>2. m \in Nodes
    BY EdgesAre DEF ActiveNodes, ActiveEdges, Settled
  <2>3. n \in Downstream[m]
    BY <2>1, <2>2, BelowBelow
  <2> QED BY <2>1, <2>3 DEF PotentialNodes
<1> QED BY <1>1, <1>2 DEF Pending

\* The scheduler starts only nodes that are due.
LEMMA ReadyIsDue ==
    ASSUME NEW outs, NEW started, NEW n \in ReadyNodes(outs, started),
           \A m \in Completed(outs) : Due(m, outs)
    PROVE  Due(n, outs)
<1>1. n \in Nodes /\ n \in ActiveNodes(outs) /\ NodeIsReady(n, outs)
  BY DEF ReadyNodes, Ready
<1>2. ASSUME NEW u \in Upstream(n), u \in Pending(outs) PROVE FALSE
  <2>1. u \in Nodes /\ n \in Downstream[u]
    BY DEF Upstream
  <2>2. PICK e \in Edges : e.to = n /\ e.from \in {u} \cup Downstream[u]
    BY <2>1, LastEdge
  <2> DEFINE m == e.from
  <2>3. m \in Nodes /\ m # START
    BY <2>1, <2>2, DownstreamType, NodesAssumption
  <2>4. CASE m \in Completed(outs)
    <3>1. m # u
      BY <1>2, <2>4 DEF Pending
    <3>2. u \in Upstream(m)
      BY <2>1, <2>2, <3>1 DEF Upstream
    <3> QED BY <1>2, <2>4, <3>2 DEF Due
  <2>5. CASE m \notin Completed(outs)
    <3>1. <<m, n>> \notin ActivePairs(outs)
      BY <2>3, <2>5 DEF ActivePairs, ActiveEdges, Settled
    <3>2. m \notin ActiveNodes(outs) \cup PotentialNodes(outs)
      BY <1>1, <2>2, <2>3, <2>5, <3>1 DEF NodeIsReady
    <3>3. m = u \/ m \in PotentialNodes(outs)
      BY <1>2, <2>1, <2>2, PendingBelow
    <3> QED BY <1>2, <3>2, <3>3 DEF Pending
  <2> QED BY <2>4, <2>5
<1> QED BY <1>1, <1>2 DEF Due

LEMMA ActiveType ==
    ASSUME NEW outs
    PROVE  /\ Completed(outs) \subseteq Nodes /\ ActiveNodes(outs) \subseteq Nodes
           /\ PotentialNodes(outs) \subseteq Nodes /\ Pending(outs) \subseteq Nodes
<1>1. ActiveNodes(outs) \subseteq Nodes
  BY EdgesAre DEF ActiveNodes, ActiveEdges, Settled
<1>2. PotentialNodes(outs) \subseteq Nodes
  BY <1>1, DownstreamType DEF PotentialNodes
<1> QED BY <1>1, <1>2 DEF Pending, Completed

\* What a pending node's output changes: the condition of no edge that was
\* settled, and so it only makes nodes below it active.
LEMMA CompletionActivates ==
    ASSUME NEW outs, NEW news, NEW k \in Pending(outs), news[k].by # 0,
           \A m \in Nodes : m # k => news[m] = outs[m],
           \A m \in Completed(outs) : Due(m, outs)
    PROVE  /\ Completed(news) = Completed(outs) \cup {k}
           /\ ActiveNodes(outs) \subseteq ActiveNodes(news)
           /\ ActiveNodes(news) \subseteq ActiveNodes(outs) \cup Downstream[k]
<1>0. k \in Nodes /\ k \notin Completed(outs)
  BY ActiveType DEF Pending
<1>1. Completed(news) = Completed(outs) \cup {k}
  BY <1>0 DEF Completed
<1>2. ASSUME NEW e \in Settled(outs)
      PROVE  e \in Settled(news) /\ (EdgeMatches(e, news) <=> EdgeMatches(e, outs))
  <2>1. e \in Settled(news)
    BY <1>1 DEF Settled
  <2>2. ASSUME NEW w \in e.when PROVE news[w.node] = outs[w.node]
    <3>1. /\ e.from \in Nodes /\ w.node \in Nodes
          /\ w.node = e.from \/ w.node \in Upstream(e.from)
      BY EdgesAre DEF Settled
    <3>2. e.from \in Completed(outs)
      BY <3>1, NodesAssumption DEF Settled
    <3>3. w.node # k
      BY <1>0, <3>1, <3>2 DEF Due
    <3> QED BY <3>1, <3>3
  <2> QED BY <2>1, <2>2 DEF EdgeMatches
<1>3. ActiveEdges(outs) \subseteq ActiveEdges(news)
  BY <1>2 DEF ActiveEdges
<1>4. ASSUME NEW e \in ActiveEdges(news), e.to # END
      PROVE  e.to \in ActiveNodes(outs) \cup Downstream[k]
  <2>1. CASE e \in Settled(outs)
    BY <1>2, <1>4, <2>1 DEF ActiveEdges, ActiveNodes
  <2>2. CASE e \notin Settled(outs)
    <3>1. e.from = k /\ e.to \in Nodes
      BY <1>1, <1>4, <2>2, EdgesAre DEF ActiveEdges, Settled
    <3> QED BY <1>0, <3>1, EdgeBelow DEF ActiveEdges, Settled
  <2> QED BY <2>1, <2>2
<1> QED BY <1>1, <1>3, <1>4 DEF ActiveNodes

\* What was due stays due when an active node completes.
LEMMA CompletedDue ==
    ASSUME NEW outs, NEW news, NEW k \in ActiveNodes(outs), k \notin Completed(outs),
           news[k].by # 0, \A m \in Nodes : m # k => news[m] = outs[m],
           \A m \in Completed(outs) : Due(m, outs),
           NEW n, Due(n, outs)
    PROVE  Due(n, news)
<1>1. k \in Pending(outs) /\ k \in Nodes
  BY ActiveType DEF Pending
<1>2. /\ Completed(news) = Completed(outs) \cup {k}
      /\ ActiveNodes(outs) \subseteq ActiveNodes(news)
      /\ ActiveNodes(news) \subseteq ActiveNodes(outs) \cup Downstream[k]
  BY <1>1, CompletionActivates
<1>3. Downstream[k] \subseteq PotentialNodes(outs)
  BY <1>1, PendingBelow
<1>4. PotentialNodes(news) \subseteq PotentialNodes(outs)
  <2> SUFFICES ASSUME NEW m \in ActiveNodes(news) \ Completed(news), NEW u \in Downstream[m]
               PROVE  u \in PotentialNodes(outs)
    BY DEF PotentialNodes
  <2>1. m \in Pending(outs) /\ m \in Nodes
    BY <1>2, <1>3, ActiveType DEF Pending
  <2> QED BY <2>1, PendingBelow
<1>5. Pending(news) \subseteq Pending(outs)
  BY <1>2, <1>3, <1>4 DEF Pending
<1> QED BY <1>2, <1>5 DEF Due

\* And stays due when outputs of a set that is closed downwards are dropped, if
\* it is not in that set.
LEMMA ClearedDue ==
    ASSUME NEW outs, NEW news, NEW S \in SUBSET Nodes,
           \A m \in S : Downstream[m] \subseteq S,
           \A m \in Nodes : IF m \in S THEN news[m].by = 0 ELSE news[m] = outs[m],
           NEW n \in Nodes, n \notin S, Due(n, outs)
    PROVE  Due(n, news)
<1>1. Completed(news) = Completed(outs) \ S
  BY DEF Completed
<1>2. ASSUME NEW e \in Edges, e.from \notin S
      PROVE  /\ e \in Settled(news) <=> e \in Settled(outs)
             /\ EdgeMatches(e, news) <=> EdgeMatches(e, outs)
  <2>1. e \in Settled(news) <=> e \in Settled(outs)
    BY <1>1, <1>2 DEF Settled
  <2>2. ASSUME NEW w \in e.when PROVE news[w.node] = outs[w.node]
    <3>1. w.node \in Nodes /\ (w.node = e.from \/ w.node \in Upstream(e.from))
      BY EdgesAre
    <3>2. w.node \notin S
      BY <1>2, <3>1 DEF Upstream
    <3> QED BY <3>1, <3>2
  <2> QED BY <2>1, <2>2 DEF EdgeMatches
<1>3. n \in ActiveNodes(news)
  <2>1. PICK e \in ActiveEdges(outs) : e.to = n /\ n # END
    BY DEF Due, ActiveNodes
  <2>2. e \in Edges /\ e.from \notin S
    <3>1. e \in Edges
      BY DEF ActiveEdges, Settled
    <3>2. e.from \in S => n \in Downstream[e.from]
      BY <2>1, <3>1, EdgeBelow
    <3> QED BY <3>1, <3>2
  <2> QED BY <1>2, <2>1, <2>2 DEF ActiveNodes, ActiveEdges
<1>4. ActiveNodes(news) \subseteq ActiveNodes(outs)
  <2> SUFFICES ASSUME NEW e \in ActiveEdges(news) PROVE e \in ActiveEdges(outs)
    BY DEF ActiveNodes
  <2>1. e \in Edges /\ e.from \notin S
    BY <1>1, NodesAssumption DEF ActiveEdges, Settled
  <2> QED BY <1>2, <2>1 DEF ActiveEdges
<1>5. ASSUME NEW u \in Upstream(n), u \in Pending(news) PROVE FALSE
  <2>1. u \in Nodes /\ n \in Downstream[u] /\ u \notin S
    BY <1>5 DEF Upstream
  <2>2. u \notin Completed(outs)
    BY <1>1, <1>5, <2>1 DEF Pending
  <2>3. u \in Pending(outs)
    <3>1. CASE u \in ActiveNodes(news)
      BY <1>4, <2>2, <3>1 DEF Pending
    <3>2. CASE u \in PotentialNodes(news)
      <4>1. PICK m \in ActiveNodes(news) \ Completed(news) : u \in Downstream[m]
        BY <3>2 DEF PotentialNodes
      <4>2. m \in Nodes /\ m \notin S
        BY <2>1, <4>1, ActiveType
      <4>3. m \in ActiveNodes(outs) \ Completed(outs)
        BY <1>1, <1>4, <4>1, <4>2
      <4> QED BY <2>2, <4>1, <4>3 DEF Pending, PotentialNodes
    <3> QED BY <1>5, <3>1, <3>2 DEF Pending
  <2> QED BY <1>5, <2>3 DEF Due
<1> QED BY <1>3, <1>5 DEF Due

\* What a rerun affects is closed downwards.
LEMMA AffectedClosed ==
    ASSUME NEW n \in Nodes
    PROVE  /\ Affected(n) \in SUBSET Nodes
           /\ \A m \in Affected(n) : Downstream[m] \subseteq Affected(n)
BY DownstreamType, BelowBelow DEF Affected

----------------------------------------------------------------------------
(* The outputs the rows give.                                                 *)

Feeds(j, m, es) == j \in DOMAIN es /\ es[j].node = m /\ es[j].status = "succeeded"
Backed(outs, es) == \A m \in Nodes : outs[m].by # 0 => Feeds(outs[m].by, m, es)

\* A node that has a current result gives it, any other gives nothing.
LEMMA OutsAre ==
    ASSUME NEW es \in Seq(Execution), Single(es), NEW n \in Nodes
    PROVE  /\ \A i \in DOMAIN es : es[i].node = n /\ es[i].status = "succeeded" =>
                 LatestOutputs(es)[n] = [by |-> i, val |-> es[i].output] /\ i # 0
           /\ (\A i \in DOMAIN es : es[i].node = n => es[i].status # "succeeded") =>
                 LatestOutputs(es)[n] = [by |-> 0, val |-> NoOutput]
<1> DEFINE last == LatestByNode(es, {"succeeded"})[n]
           T == {i \in DOMAIN es : es[i].node = n /\ es[i].status \in {"succeeded"}}
<1>1. LatestOutputs(es)[n] = [by |-> last, val |-> IF last = 0 THEN NoOutput ELSE es[last].output]
  BY DEF LatestOutputs
<1>2. last \in Nat /\ (last # 0 => last \in T)
  BY LatestByNodeType
<1>3. ASSUME NEW i \in T PROVE last = i /\ i # 0
  <2>1. Len(es) \in Nat /\ DOMAIN es = 1..Len(es)
    BY LenProperties
  <2>2. last = Latest({0} \cup T)
    BY DEF LatestByNode
  <2>3. T = {i}
    BY <1>3 DEF Single, Live
  <2>4. IsFiniteSet({0} \cup T) /\ {0} \cup T \in SUBSET Nat
    <3>1. IsFiniteSet({0} \cup {i})
      BY FS_Singleton, FS_Union
    <3>2. T \in SUBSET Nat
      BY <2>1
    <3>3. {0} \cup T = {0} \cup {i}
      BY <2>3
    <3> HIDE DEF T
    <3>4. {0} \cup T \in SUBSET Nat
      BY <3>2
    <3> QED BY <3>1, <3>3, <3>4, Zenon
  <2>5. i <= last
    <3> DEFINE T0 == {0} \cup T
    <3>1. i \in T0 /\ T0 # {}
      BY <1>3
    <3> HIDE DEF T0, last
    <3> QED BY <2>2, <2>4, <3>1, LatestIs DEF T0
  <2>6. i \in 1..Len(es)
    BY <2>1
  <2>7. last # 0
    <3> HIDE DEF last
    <3> QED BY <1>2, <2>1, <2>5, <2>6
  <2> QED BY <1>2, <2>3, <2>6, <2>7
<1> HIDE DEF last
<1>4. ASSUME NEW i \in DOMAIN es, es[i].node = n, es[i].status = "succeeded"
      PROVE  LatestOutputs(es)[n] = [by |-> i, val |-> es[i].output] /\ i # 0
  BY <1>1, <1>3, <1>4
<1>5. ASSUME \A i \in DOMAIN es : es[i].node = n => es[i].status # "succeeded"
      PROVE  LatestOutputs(es)[n] = [by |-> 0, val |-> NoOutput]
  BY <1>1, <1>2, <1>5
<1> QED BY <1>4, <1>5

LEMMA OutsBacked ==
    ASSUME NEW es \in Seq(Execution)
    PROVE  Backed(LatestOutputs(es), es)
BY LatestByNodeType DEF Backed, Feeds, LatestOutputs

\* Rows of which the same have succeeded give the same outputs.
LEMMA OutsSame ==
    ASSUME NEW es \in Seq(Execution), Single(es), NEW fs \in Seq(Execution), Single(fs),
           DOMAIN es \subseteq DOMAIN fs,
           \A i \in DOMAIN fs : fs[i].status = "succeeded" => i \in DOMAIN es,
           \A i \in DOMAIN es : fs[i].status = "succeeded" <=> es[i].status = "succeeded",
           \A i \in DOMAIN es : es[i].status = "succeeded" =>
               fs[i].node = es[i].node /\ fs[i].output = es[i].output
    PROVE  LatestOutputs(fs) = LatestOutputs(es)
<1>1. ASSUME NEW n \in Nodes PROVE LatestOutputs(fs)[n] = LatestOutputs(es)[n]
  <2>1. CASE \E i \in DOMAIN es : es[i].node = n /\ es[i].status = "succeeded"
    <3>1. PICK i \in DOMAIN es : es[i].node = n /\ es[i].status = "succeeded"
      BY <2>1
    <3>2. i \in DOMAIN fs /\ fs[i].node = n /\ fs[i].status = "succeeded" /\ fs[i].output = es[i].output
      BY <3>1
    <3>3. LatestOutputs(es)[n] = [by |-> i, val |-> es[i].output]
      BY <3>1, OutsAre
    <3>4. LatestOutputs(fs)[n] = [by |-> i, val |-> fs[i].output]
      BY <3>2, OutsAre
    <3> QED BY <3>2, <3>3, <3>4
  <2>2. CASE \A i \in DOMAIN es : es[i].node = n => es[i].status # "succeeded"
    <3>1. \A i \in DOMAIN fs : fs[i].node = n => fs[i].status # "succeeded"
      BY <2>2
    <3> QED BY <2>2, <3>1, OutsAre
  <2> QED BY <2>1, <2>2
<1> QED BY <1>1, LatestOutputsType

----------------------------------------------------------------------------
(* Every current row is due, and was fed by rows that are still in use.       *)

OnTime(es) == \A i \in DOMAIN es : Live(es, i) => Due(es[i].node, LatestOutputs(es))
Fed(es) == \A i \in DOMAIN es : Live(es, i) =>
               \A m \in Reads[es[i].node] : Feeds(es[i].uses[m], m, es)

LEMMA CompletedIsDue ==
    ASSUME NEW es \in Seq(Execution), OnTime(es), NEW m \in Completed(LatestOutputs(es))
    PROVE  Due(m, LatestOutputs(es))
<1>1. Feeds(LatestOutputs(es)[m].by, m, es)
  BY OutsBacked DEF Completed, Backed
<1> QED BY <1>1 DEF OnTime, Feeds, Live

\* A current row that is no result yet is edited, to a result or not.
LEMMA EditDue ==
    ASSUME NEW es \in Seq(Execution), Single(es), OnTime(es), NEW fs \in Seq(Execution),
           NEW i \in DOMAIN es, Live(es, i), es[i].status # "succeeded",
           DOMAIN fs = DOMAIN es, \A j \in DOMAIN es : j # i => fs[j] = es[j],
           fs[i].node = es[i].node, fs[i].status # "superseded"
    PROVE  /\ OnTime(fs)
           /\ \A n : Due(n, LatestOutputs(es)) => Due(n, LatestOutputs(fs))
<1> DEFINE outs == LatestOutputs(es)
           news == LatestOutputs(fs)
           k == es[i].node
<1>1. \A j \in DOMAIN es : fs[j].node = es[j].node /\ (Live(fs, j) <=> Live(es, j))
  BY DEF Live
<1>2. Single(fs)
  BY <1>1 DEF Single
<1>3. k \in Nodes
  <2>1. es[i] \in Execution
    BY ElementOfSeq, LenProperties
  <2> QED BY <2>1 DEF Execution
<1>4. ASSUME NEW n, Due(n, outs) PROVE Due(n, news)
  <2>1. CASE fs[i].status # "succeeded"
    <3>1. news = outs
      BY <1>1, <1>2, <2>1, OutsSame
    <3> QED BY <1>4, <3>1
  <2>2. CASE fs[i].status = "succeeded"
    <3>1. news[k].by # 0
      <4>1. news[k] = [by |-> i, val |-> fs[i].output] /\ i # 0
        BY <1>2, <1>3, <2>2, OutsAre
      <4> HIDE DEF news
      <4> QED BY <4>1
    <3>2. outs[k].by = 0
      <4>1. \A j \in DOMAIN es : es[j].node = k => es[j].status # "succeeded"
        BY DEF Single, Live
      <4>2. outs[k] = [by |-> 0, val |-> NoOutput]
        BY <1>3, <4>1, OutsAre
      <4> HIDE DEF outs
      <4> QED BY <4>2
    <3>3. ASSUME NEW m \in Nodes, m # k PROVE news[m] = outs[m]
      <4>1. CASE \E j \in DOMAIN es : es[j].node = m /\ es[j].status = "succeeded"
        <5>1. PICK j \in DOMAIN es : es[j].node = m /\ es[j].status = "succeeded"
          BY <4>1
        <5>2. fs[j] = es[j]
          BY <3>3, <5>1
        <5>3. outs[m] = [by |-> j, val |-> es[j].output]
          BY <5>1, OutsAre
        <5>4. news[m] = [by |-> j, val |-> fs[j].output]
          BY <1>2, <5>1, <5>2, OutsAre
        <5> QED BY <5>2, <5>3, <5>4
      <4>2. CASE \A j \in DOMAIN es : es[j].node = m => es[j].status # "succeeded"
        <5>1. \A j \in DOMAIN fs : fs[j].node = m => fs[j].status # "succeeded"
          BY <3>3, <4>2
        <5> QED BY <1>2, <4>2, <5>1, OutsAre
      <4> QED BY <4>1, <4>2
    <3>4. k \in ActiveNodes(outs) /\ k \notin Completed(outs)
      BY <3>2 DEF OnTime, Due, Completed
    <3>5. \A m \in Completed(outs) : Due(m, outs)
      BY CompletedIsDue
    <3> HIDE DEF outs, news, k
    <3> QED BY <1>4, <3>1, <3>3, <3>4, <3>5, CompletedDue
  <2> QED BY <2>1, <2>2
<1> QED BY <1>1, <1>4 DEF OnTime

LEMMA EditFed ==
    ASSUME NEW es, Fed(es), NEW fs,
           NEW i \in DOMAIN es, Live(es, i), es[i].status # "succeeded",
           DOMAIN fs = DOMAIN es, \A j \in DOMAIN es : j # i => fs[j] = es[j],
           fs[i].node = es[i].node,
           \A m \in Reads[fs[i].node] : Feeds(fs[i].uses[m], m, es)
    PROVE  /\ Fed(fs)
           /\ \A outs : Backed(outs, es) => Backed(outs, fs)
<1>1. \A j, m : Feeds(j, m, es) => Feeds(j, m, fs)
  BY DEF Feeds
<1>2. ASSUME NEW j \in DOMAIN fs, Live(fs, j), NEW m \in Reads[fs[j].node]
      PROVE  Feeds(fs[j].uses[m], m, es)
  BY <1>2 DEF Fed, Live
<1> QED BY <1>1, <1>2 DEF Fed, Backed

\* A row is added for a node that is due.
LEMMA AddDue ==
    ASSUME NEW es \in Seq(Execution), Single(es), OnTime(es), Fed(es), NEW row,
           NEW fs \in Seq(Execution), fs = Append(es, row), Single(fs),
           row.status = "running", Due(row.node, LatestOutputs(es)),
           \A m \in Reads[row.node] : Feeds(row.uses[m], m, es)
    PROVE  /\ LatestOutputs(fs) = LatestOutputs(es) /\ OnTime(fs) /\ Fed(fs)
           /\ \A outs : Backed(outs, es) => Backed(outs, fs)
<1>1. /\ DOMAIN fs = DOMAIN es \cup {Len(es) + 1}
      /\ Len(es) + 1 \notin DOMAIN es
      /\ fs[Len(es) + 1] = row
      /\ \A j \in DOMAIN es : fs[j] = es[j]
  BY LenProperties, AppendProperties
<1>2. LatestOutputs(fs) = LatestOutputs(es)
  <2>1. \A i \in DOMAIN fs : fs[i].status = "succeeded" => i \in DOMAIN es
    BY <1>1
  <2> QED BY <1>1, <2>1, OutsSame
<1>3. \A j, m : Feeds(j, m, es) => Feeds(j, m, fs)
  BY <1>1 DEF Feeds
<1>4. ASSUME NEW j \in DOMAIN fs, Live(fs, j)
      PROVE  /\ Due(fs[j].node, LatestOutputs(es))
             /\ \A m \in Reads[fs[j].node] : Feeds(fs[j].uses[m], m, es)
  BY <1>1, <1>4 DEF OnTime, Fed, Live
<1> QED BY <1>2, <1>3, <1>4 DEF OnTime, Fed, Backed

\* The rows of nodes that a rerun affects are superseded.
LEMMA DropDue ==
    ASSUME NEW es \in Seq(Execution), Single(es), OnTime(es), Fed(es),
           NEW fs \in Seq(Execution), NEW S \in SUBSET Nodes,
           \A m \in S : Downstream[m] \subseteq S, DOMAIN fs = DOMAIN es,
           \A i \in DOMAIN es : IF es[i].node \in S THEN fs[i].node = es[i].node /\ ~Live(fs, i)
                                                    ELSE fs[i] = es[i]
    PROVE  OnTime(fs) /\ Fed(fs)
<1> DEFINE outs == LatestOutputs(es)
           news == LatestOutputs(fs)
<1>1. /\ \A i \in DOMAIN es : fs[i].node = es[i].node
      /\ \A i \in DOMAIN es : Live(fs, i) => fs[i] = es[i] /\ es[i].node \notin S /\ Live(es, i)
  BY DEF Live
<1>2. Single(fs)
  BY <1>1 DEF Single, Live
<1>3. \A i \in DOMAIN fs : fs[i].node \in Nodes
  <2>1. \A i \in DOMAIN fs : fs[i] \in Execution
    BY ElementOfSeq, LenProperties
  <2> QED BY <2>1 DEF Execution
<1>4. ASSUME NEW m \in Nodes PROVE IF m \in S THEN news[m].by = 0 ELSE news[m] = outs[m]
  <2>1. CASE m \in S
    <3>1. \A i \in DOMAIN fs : fs[i].node = m => fs[i].status # "succeeded"
      BY <1>1, <2>1 DEF Live
    <3>2. news[m] = [by |-> 0, val |-> NoOutput]
      BY <1>2, <3>1, OutsAre
    <3> HIDE DEF news
    <3> QED BY <2>1, <3>2
  <2>2. CASE m \notin S
    <3>1. CASE \E j \in DOMAIN es : es[j].node = m /\ es[j].status = "succeeded"
      <4>1. PICK j \in DOMAIN es : es[j].node = m /\ es[j].status = "succeeded"
        BY <3>1
      <4>2. fs[j] = es[j]
        BY <2>2, <4>1
      <4>3. outs[m] = [by |-> j, val |-> es[j].output]
        BY <4>1, OutsAre
      <4>4. news[m] = [by |-> j, val |-> fs[j].output]
        BY <1>2, <4>1, <4>2, OutsAre
      <4> QED BY <2>2, <4>2, <4>3, <4>4
    <3>2. CASE \A j \in DOMAIN es : es[j].node = m => es[j].status # "succeeded"
      <4>1. \A j \in DOMAIN fs : fs[j].node = m => fs[j].status # "succeeded"
        BY <2>2, <3>2
      <4> QED BY <1>2, <2>2, <3>2, <4>1, OutsAre
    <3> QED BY <3>1, <3>2
  <2> QED BY <2>1, <2>2
<1>5. ASSUME NEW i \in DOMAIN fs, Live(fs, i) PROVE Due(fs[i].node, news)
  <2>1. fs[i].node \in Nodes /\ fs[i].node \notin S /\ Due(fs[i].node, outs)
    BY <1>1, <1>3, <1>5 DEF OnTime
  <2> HIDE DEF outs, news
  <2> QED BY <1>4, <2>1, ClearedDue
<1>6. ASSUME NEW i \in DOMAIN fs, Live(fs, i), NEW m \in Reads[fs[i].node]
      PROVE  Feeds(fs[i].uses[m], m, fs)
  <2>1. Feeds(fs[i].uses[m], m, es) /\ fs[i].node \in Nodes /\ fs[i].node \notin S
    BY <1>1, <1>3, <1>6 DEF Fed
  <2>2. m \notin S
    <3>1. m \in Upstream(fs[i].node)
      BY <2>1, ContractAssumption DEF ContractOK
    <3> QED BY <2>1, <3>1 DEF Upstream
  <2> QED BY <2>1, <2>2 DEF Feeds
<1> QED BY <1>5, <1>6 DEF OnTime, Fed

----------------------------------------------------------------------------
(* The inductive invariant.  What a request is about to start is due by the   *)
(* outputs as they are now, though it chose it by those it read before, and   *)
(* the outputs it read are still in use.                                      *)

WorkPlaces == {"resolve", "insert", "ask", "run", "look"}

Intends(r) ==
    /\ pc[r] \in WorkPlaces => \A n \in mem[r].todo : Due(n, LatestOutputs(execs))
    /\ pc[r] \in WorkPlaces \cup {"submit"} => Backed(mem[r].outs, execs)
    /\ pc[r] = "insert" => Reads[mem[r].node] \subseteq Completed(mem[r].outs)
    /\ pc[r] = "submit" => Reads[req[r].node] \subseteq Completed(mem[r].outs)

Scheduled == Telling /\ OnTime(execs) /\ Fed(execs) /\ \A r \in Requests : Intends(r)

\* No request is unsettled by a step that keeps what is due, and results.
Kept ==
    /\ \A n : Due(n, LatestOutputs(execs)) => Due(n, LatestOutputs(execs'))
    /\ \A outs : Backed(outs, execs) => Backed(outs, execs')

LEMMA ScheduledAre ==
    ASSUME Scheduled
    PROVE  /\ Telling /\ Shown /\ Driven /\ Typed /\ execs \in Seq(Execution) /\ Single(execs)
           /\ mem \in [Requests -> Locals] /\ pc \in [Requests -> Places]
           /\ \A i \in DOMAIN execs : execs[i] \in Execution
           /\ OnTime(execs) /\ Fed(execs)
<1>1. execs \in Seq(Execution) /\ mem \in [Requests -> Locals] /\ pc \in [Requests -> Places]
  BY DEF Scheduled, Telling, Shown, Driven, Typed, TypeOK, RowsOK, RequestsOK
<1>2. \A i \in DOMAIN execs : execs[i] \in Execution
  BY <1>1, ElementOfSeq, LenProperties
<1>3. Single(execs)
  BY DEF Scheduled, Telling, Shown, Driven, OneCurrentExecution, Single
<1> QED BY <1>1, <1>2, <1>3 DEF Scheduled, Telling, Shown, Driven

LEMMA IntendsElsewhere ==
    ASSUME NEW r \in Requests, pc'[r] \notin WorkPlaces \cup {"submit"}
    PROVE  Intends(r)'
BY DEF Intends, WorkPlaces

LEMMA IntendsStill ==
    ASSUME NEW r \in Requests, Intends(r), Kept,
           pc'[r] = pc[r], mem'[r] = mem[r], req'[r] = req[r]
    PROVE  Intends(r)'
BY DEF Intends, Kept

LEMMA NothingScheduled ==
    ASSUME UNCHANGED execs
    PROVE  /\ Kept
           /\ OnTime(execs) => OnTime(execs')
           /\ Fed(execs) => Fed(execs')
BY DEF Kept

LEMMA EditScheduled ==
    ASSUME Scheduled, execs' \in Seq(Execution), NEW i \in DOMAIN execs,
           execs[i].status \in {"running", "waiting"},
           NEW row, execs' = [execs EXCEPT ![i] = row],
           row.node = execs[i].node, row.status # "superseded",
           \A m \in Reads[row.node] : Feeds(row.uses[m], m, execs)
    PROVE  OnTime(execs') /\ Fed(execs') /\ Kept
<1>1. execs \in Seq(Execution) /\ Single(execs) /\ OnTime(execs) /\ Fed(execs)
  BY ScheduledAre
<1>2. /\ DOMAIN execs' = DOMAIN execs /\ execs'[i] = row
      /\ \A j \in DOMAIN execs : j # i => execs'[j] = execs[j]
      /\ Live(execs, i) /\ execs[i].status # "succeeded"
  BY DEF Live
<1>3. OnTime(execs') /\ \A n : Due(n, LatestOutputs(execs)) => Due(n, LatestOutputs(execs'))
  BY <1>1, <1>2, EditDue
<1>4. Fed(execs') /\ \A outs : Backed(outs, execs) => Backed(outs, execs')
  BY <1>1, <1>2, EditFed
<1> QED BY <1>3, <1>4 DEF Kept

\* A row that is only marked was fed before.
LEMMA StillFed ==
    ASSUME Scheduled, NEW i \in DOMAIN execs, Live(execs, i), NEW row,
           row.node = execs[i].node, row.uses = execs[i].uses
    PROVE  \A m \in Reads[row.node] : Feeds(row.uses[m], m, execs)
BY DEF Scheduled, Fed

LEMMA UsesFeed ==
    ASSUME NEW outs, NEW es, Backed(outs, es), NEW n \in Nodes, Reads[n] \subseteq Completed(outs)
    PROVE  \A m \in Reads[n] : Feeds(Uses(n, outs)[m], m, es)
BY DEF Uses, Backed, Completed

----------------------------------------------------------------------------
(* The steps.                                                                 *)

Well(r) == OnTime(execs') /\ Fed(execs') /\ Intends(r)'

LEMMA ReadsWell ==
    ASSUME Scheduled, NEW r \in Requests,
           \/ FindWaiting(r) \/ LoadInput(r) \/ ReadExecutions(r) \/ LoadOutputs(r)
           \/ ResolveInputs(r) \/ LookAgain(r) \/ FinishRead(r) \/ FailRead(r)
           \/ FinishTask(r) \/ FailTask(r) \/ FindCurrent(r) \/ ClearRead(r)
    PROVE  Well(r)
<1>0. /\ Typed /\ mem \in [Requests -> Locals] /\ execs \in Seq(Execution) /\ OnTime(execs)
      /\ Intends(r)
  BY ScheduledAre DEF Scheduled
<1>1. UNCHANGED execs
  BY DEF FindWaiting, LoadInput, ReadExecutions, LoadOutputs, ResolveInputs, LookAgain, FinishRead,
         FailRead, FinishTask, FailTask, FindCurrent, ClearRead, ReadView, db
<1>2. OnTime(execs') /\ Fed(execs')
  BY <1>1, NothingScheduled DEF Scheduled
<1>3. ASSUME Return(r) \/ Raise(r) PROVE Intends(r)'
  <2>1. pc'[r] \in {"done", "fail"}
    BY <1>0, <1>3, Went DEF Return, Raise
  <2> QED BY <2>1, IntendsElsewhere DEF WorkPlaces
<1>4. Backed(LatestOutputs(execs), execs)
  BY <1>0, OutsBacked
<1>5. CASE LoadInput(r) /\ ~Return(r)
  <2>0. /\ Goto(r, "submit") /\ mem' = [mem EXCEPT ![r].outs = LatestOutputs(execs)]
        /\ Reads[req[r].node] \subseteq Completed(LatestOutputs(execs))
    BY <1>5 DEF LoadInput
  <2>1. /\ UNCHANGED req /\ pc'[r] = "submit" /\ mem'[r].outs = LatestOutputs(execs)
        /\ Reads[req[r].node] \subseteq Completed(LatestOutputs(execs))
    BY <1>0, <2>0, Went DEF Locals, Goto
  <2> QED BY <1>1, <1>2, <1>4, <2>1 DEF Well, Intends, WorkPlaces
<1>6. CASE LoadOutputs(r) /\ ~Return(r) /\ ~Raise(r)
  <2>1. \/ pc'[r] = "finish"
        \/ /\ pc'[r] = "resolve" /\ mem'[r].outs = LatestOutputs(execs)
           /\ mem'[r].todo = ReadyNodes(LatestOutputs(execs), mem[r].started)
    BY <1>0, <1>6, Went DEF LoadOutputs, Idle, NoMem
  <2>2. \A n \in ReadyNodes(LatestOutputs(execs), mem[r].started) : Due(n, LatestOutputs(execs))
    <3>1. \A m \in Completed(LatestOutputs(execs)) : Due(m, LatestOutputs(execs))
      BY <1>0, CompletedIsDue
    <3> QED BY <3>1, ReadyIsDue
  <2> QED BY <1>1, <1>2, <1>4, <2>1, <2>2 DEF Well, Intends, WorkPlaces
<1>7. CASE ResolveInputs(r) /\ ~Raise(r)
  <2>1. PICK n \in mem[r].todo :
           /\ mem' = [mem EXCEPT ![r].node = n, ![r].attempt = NextAttempt(execs, n)]
           /\ Reads[n] \subseteq Completed(mem[r].outs)
           /\ Goto(r, "insert")
    BY <1>7 DEF ResolveInputs
  <2>2. /\ pc'[r] = "insert" /\ mem'[r].node = n
        /\ mem'[r].todo = mem[r].todo /\ mem'[r].outs = mem[r].outs
    BY <1>0, <2>1, Went DEF Locals
  <2>3. pc[r] = "resolve"
    BY <1>7 DEF ResolveInputs
  <2> QED BY <1>0, <1>1, <1>2, <2>1, <2>2, <2>3 DEF Well, Intends, WorkPlaces
<1>8. CASE LookAgain(r) /\ ~Return(r)
  <2>1. \/ pc'[r] = "continue"
        \/ /\ pc'[r] = "resolve" /\ mem'[r].todo = mem[r].todo \ {mem[r].node}
           /\ mem'[r].outs = mem[r].outs
    BY <1>0, <1>8, Went DEF LookAgain, NoMem
  <2>2. pc[r] = "look"
    BY <1>8 DEF LookAgain
  <2> QED BY <1>0, <1>1, <1>2, <2>1, <2>2 DEF Well, Intends, WorkPlaces
<1>9. CASE \/ (FindWaiting(r) \/ ReadExecutions(r)) /\ ~Return(r)
           \/ FinishRead(r) \/ FailRead(r) \/ FinishTask(r) \/ FailTask(r) \/ FindCurrent(r) \/ ClearRead(r)
  <2>1. pc'[r] \in {"load input", "answer", "load outputs", "finish commit", "fail commit", "done", "clear", "clear commit"}
    BY <1>0, <1>9, Went DEF FindWaiting, ReadExecutions, FinishRead, FailRead, FinishTask, FailTask,
                            FindCurrent, ClearRead, ReadView, Return
  <2> QED BY <1>2, <2>1, IntendsElsewhere DEF Well, WorkPlaces
<1> QED BY <1>2, <1>3, <1>5, <1>6, <1>7, <1>8, <1>9 DEF Well

LEMMA AnswerWell ==
    ASSUME Scheduled, execs' \in Seq(Execution), NEW r \in Requests, NEW v \in Outputs, Answer(r, v)
    PROVE  Well(r)
<1>0. Typed /\ \A j \in DOMAIN execs : execs[j] \in Execution
  BY ScheduledAre
<1>1. pc'[r] \in {"continue", "done"}
  BY <1>0, Went DEF Answer, Return
<1>2. Intends(r)'
  BY <1>1, IntendsElsewhere DEF WorkPlaces
<1>3. CASE UNCHANGED execs
  BY <1>2, <1>3, NothingScheduled DEF Well, Scheduled
<1>4. CASE ~UNCHANGED execs
  <2>1. PICK i \in DOMAIN execs :
           /\ WaitingAt(execs, req[r].node) = {i}
           /\ execs' = [execs EXCEPT ![i].status = "succeeded", ![i].output = v]
    BY <1>4 DEF Answer, db
  <2> DEFINE row == [execs[i] EXCEPT !.status = "succeeded", !.output = v]
  <2>2. execs[i] \in Execution /\ execs[i].status = "waiting"
    BY <1>0, <2>1 DEF WaitingAt
  <2>3. /\ execs' = [execs EXCEPT ![i] = row]
        /\ row.node = execs[i].node /\ row.uses = execs[i].uses /\ row.status = "succeeded"
    BY <2>1, <2>2 DEF Execution
  <2> HIDE DEF row
  <2>4. \A m \in Reads[row.node] : Feeds(row.uses[m], m, execs)
    BY <2>2, <2>3, StillFed DEF Live
  <2> QED BY <1>2, <2>2, <2>3, <2>4, EditScheduled DEF Well
<1> QED BY <1>3, <1>4

LEMMA SubmitWell ==
    ASSUME Scheduled, execs' \in Seq(Execution), NEW r \in Requests, Submit(r)
    PROVE  Well(r)
<1> DEFINE i == mem[r].exec
           row == [execs[i] EXCEPT !.status = "running",
                     !.uses = Uses(req[r].node, mem[r].outs), !.fields = {}]
<1>0. /\ Typed /\ Intends(r) /\ Named(r) /\ Remembers(r) /\ req[r].node \in Nodes
      /\ \A j \in DOMAIN execs : execs[j] \in Execution
  BY ScheduledAre DEF Scheduled, Telling, Driven, Typed, Placed, Submit
<1>1. /\ i \in DOMAIN execs /\ execs[i].status = "waiting" /\ execs[i].node = req[r].node
  BY <1>0 DEF Submit, Remembers, HasRow, Named
<1>2. /\ execs' = [execs EXCEPT ![i] = row] /\ row.status = "running"
      /\ row.node = req[r].node /\ row.uses = Uses(req[r].node, mem[r].outs)
  BY <1>0, <1>1 DEF Submit, Execution
<1>3. \A m \in Reads[req[r].node] : Feeds(Uses(req[r].node, mem[r].outs)[m], m, execs)
  BY <1>0, UsesFeed DEF Submit, Intends
<1>4. pc'[r] = "run input"
  BY <1>0, Went DEF Submit
<1>5. Intends(r)'
  BY <1>4, IntendsElsewhere DEF WorkPlaces
<1> HIDE DEF row, i
<1>6. OnTime(execs') /\ Fed(execs')
  BY <1>1, <1>2, <1>3, EditScheduled
<1> QED BY <1>5, <1>6 DEF Well

LEMMA StartWell ==
    ASSUME Scheduled, execs' \in Seq(Execution), Single(execs'), NEW r \in Requests, StartNode(r)
    PROVE  Well(r)
<1> DEFINE n == mem[r].node
           row == [node |-> n, attempt |-> mem[r].attempt, status |-> "running",
                   form |-> FALSE, output |-> NoOutput,
                   uses |-> Uses(n, mem[r].outs), fields |-> {}]
<1>0. /\ Typed /\ Intends(r) /\ Remembers(r) /\ n \in Nodes /\ mem[r] \in Locals
      /\ execs \in Seq(Execution) /\ Single(execs) /\ OnTime(execs) /\ Fed(execs)
  BY ScheduledAre DEF Scheduled, Driven, Typed, Placed, StartNode
<1>1. /\ n \in mem[r].todo /\ Due(n, LatestOutputs(execs))
      /\ Backed(mem[r].outs, execs) /\ Reads[n] \subseteq Completed(mem[r].outs)
      /\ \A m \in mem[r].todo : Due(m, LatestOutputs(execs))
  BY <1>0 DEF StartNode, Remembers, Intends, WorkPlaces
<1>2. \A m \in Reads[n] : Feeds(Uses(n, mem[r].outs)[m], m, execs)
  BY <1>0, <1>1, UsesFeed
<1>3. /\ execs' = Append(execs, row) /\ row.node = n /\ row.status = "running"
      /\ row.uses = Uses(n, mem[r].outs)
  BY DEF StartNode
<1>4. /\ pc'[r] \in {"ask", "run"} /\ mem'[r].todo = mem[r].todo /\ mem'[r].outs = mem[r].outs
  BY <1>0, Went DEF StartNode, Locals
<1> HIDE DEF row
<1>5. /\ LatestOutputs(execs') = LatestOutputs(execs) /\ OnTime(execs') /\ Fed(execs')
      /\ \A outs : Backed(outs, execs) => Backed(outs, execs')
  BY <1>0, <1>1, <1>2, <1>3, AddDue
<1> QED BY <1>1, <1>4, <1>5 DEF Well, Intends, WorkPlaces

LEMMA MarksWell ==
    ASSUME Scheduled, execs' \in Seq(Execution), NEW r \in Requests,
           MarkWaiting(r) \/ (\E v \in Outputs : MarkSucceeded(r, v)) \/ MarkFailed(r)
    PROVE  Well(r)
<1> DEFINE i == mem[r].exec
<1>0. Typed /\ Remembers(r) /\ Intends(r) /\ \A j \in DOMAIN execs : execs[j] \in Execution
  BY ScheduledAre DEF Scheduled, Driven
<1>1. /\ i \in DOMAIN execs /\ execs[i].status = "running" /\ pc[r] \in {"ask", "run", "run input"}
      /\ execs[i] \in Execution
  BY <1>0 DEF MarkWaiting, MarkSucceeded, MarkFailed, Remembers, HasRow
<1>2. PICK row : /\ execs' = [execs EXCEPT ![i] = row]
                 /\ row.node = execs[i].node /\ row.uses = execs[i].uses
                 /\ row.status # "superseded"
  <2>1. CASE MarkWaiting(r)
    <3> DEFINE row == [execs[i] EXCEPT !.status = "waiting", !.form = (pc[r] = "ask")]
    <3>1. execs' = [execs EXCEPT ![i] = row]
      BY <2>1 DEF MarkWaiting
    <3>2. row.node = execs[i].node /\ row.uses = execs[i].uses /\ row.status = "waiting"
      BY <1>1 DEF Execution
    <3> HIDE DEF row
    <3> QED BY <3>1, <3>2
  <2>2. CASE \E v \in Outputs : MarkSucceeded(r, v)
    <3>1. PICK v \in Outputs : MarkSucceeded(r, v)
      BY <2>2
    <3> DEFINE row == [execs[i] EXCEPT !.status = "succeeded", !.output = v, !.form = FALSE]
    <3>2. execs' = [execs EXCEPT ![i] = row]
      BY <3>1 DEF MarkSucceeded
    <3>3. row.node = execs[i].node /\ row.uses = execs[i].uses /\ row.status = "succeeded"
      BY <1>1 DEF Execution
    <3> HIDE DEF row
    <3> QED BY <3>2, <3>3
  <2>3. CASE MarkFailed(r)
    <3> DEFINE row == [execs[i] EXCEPT !.status = "failed"]
    <3>1. execs' = [execs EXCEPT ![i] = row]
      BY <2>3 DEF MarkFailed
    <3>2. row.node = execs[i].node /\ row.uses = execs[i].uses /\ row.status = "failed"
      BY <1>1 DEF Execution
    <3> HIDE DEF row
    <3> QED BY <3>1, <3>2
  <2> QED BY <2>1, <2>2, <2>3
<1>3. \A m \in Reads[row.node] : Feeds(row.uses[m], m, execs)
  BY <1>1, <1>2, StillFed DEF Live
<1>4. OnTime(execs') /\ Fed(execs') /\ Kept
  BY <1>1, <1>2, <1>3, EditScheduled
<1>5. \/ pc'[r] \in {"done", "continue"}
      \/ pc[r] \in {"ask", "run"} /\ pc'[r] = "look" /\ mem' = mem
  BY <1>0, <1>1, Went DEF MarkWaiting, MarkSucceeded, MarkFailed, AfterMark
<1>6. Intends(r)'
  <2>1. CASE pc'[r] \in {"done", "continue"}
    BY <2>1, IntendsElsewhere DEF WorkPlaces
  <2>2. CASE pc[r] \in {"ask", "run"} /\ pc'[r] = "look" /\ mem' = mem
    BY <1>0, <1>4, <2>2 DEF Intends, WorkPlaces, Kept
  <2> QED BY <1>5, <2>1, <2>2
<1> QED BY <1>4, <1>6 DEF Well

LEMMA ClearWell ==
    ASSUME Scheduled, execs' \in Seq(Execution), NEW r \in Requests, ClearDownstream(r)
    PROVE  Well(r)
<1> DEFINE S == Affected(req[r].node)
<1>0. /\ Typed /\ Knows(r) /\ execs \in Seq(Execution) /\ Single(execs) /\ OnTime(execs)
      /\ Fed(execs) /\ \A j \in DOMAIN execs : execs[j] \in Execution
  BY ScheduledAre DEF Shown
<1>1. /\ req[r].node \in Nodes /\ mem[r].doomed = CurrentRows(execs, S)
      /\ execs' = [i \in DOMAIN execs |->
                     IF i \in mem[r].doomed
                     THEN [execs[i] EXCEPT !.status = "superseded"] ELSE execs[i]]
  BY <1>0 DEF ClearDownstream, Knows
<1>2. S \in SUBSET Nodes /\ \A m \in S : Downstream[m] \subseteq S
  BY <1>1, AffectedClosed
<1>3. \A i \in DOMAIN execs : i \in mem[r].doomed <=> Live(execs, i) /\ execs[i].node \in S
  <2> HIDE DEF S
  <2> QED BY <1>0, <1>1, <1>2, DoomedAre
<1>4. DOMAIN execs' = DOMAIN execs
  BY <1>1
<1>5. ASSUME NEW i \in DOMAIN execs
      PROVE  IF execs[i].node \in S THEN execs'[i].node = execs[i].node /\ ~Live(execs', i)
                                    ELSE execs'[i] = execs[i]
  <2>1. /\ [execs[i] EXCEPT !.status = "superseded"].node = execs[i].node
        /\ [execs[i] EXCEPT !.status = "superseded"].status = "superseded"
    BY <1>0 DEF Execution
  <2> HIDE DEF S
  <2>2. CASE i \in mem[r].doomed
    BY <1>1, <1>3, <2>1, <2>2 DEF Live
  <2>3. CASE i \notin mem[r].doomed
    BY <1>1, <1>3, <2>3 DEF Live
  <2> QED BY <2>2, <2>3
<1>6. OnTime(execs') /\ Fed(execs')
  <2> HIDE DEF S
  <2> QED BY <1>0, <1>2, <1>4, <1>5, DropDue
<1>7. pc'[r] = "continue"
  BY <1>0, Went DEF ClearDownstream
<1> QED BY <1>6, <1>7, IntendsElsewhere DEF Well, WorkPlaces

\* Drafts and deletions.
LEMMA AsideWell ==
    ASSUME Scheduled, execs' \in Seq(Execution), NEW r \in Requests, Aside(r)
    PROVE  OnTime(execs') /\ Fed(execs') /\ Kept
<1>1. CASE UNCHANGED execs
  BY <1>1, NothingScheduled DEF Scheduled
<1>2. CASE ~UNCHANGED execs
  <2>1. PICK i \in DOMAIN execs : /\ WaitingAt(execs, req[r].node) = {i}
                                  /\ execs' = [execs EXCEPT ![i].fields = mem[r].fields]
    BY <1>2 DEF Aside, MergeDraft, CommitDraft, ArchiveRead, ArchiveTask, ReadView, db
  <2> DEFINE row == [execs[i] EXCEPT !.fields = mem[r].fields]
  <2>2. execs[i] \in Execution /\ execs[i].status = "waiting"
    BY <2>1, ScheduledAre DEF WaitingAt
  <2>3. /\ execs' = [execs EXCEPT ![i] = row]
        /\ row.node = execs[i].node /\ row.uses = execs[i].uses /\ row.status = "waiting"
    BY <2>1, <2>2 DEF Execution
  <2> HIDE DEF row
  <2>4. \A m \in Reads[row.node] : Feeds(row.uses[m], m, execs)
    BY <2>2, <2>3, StillFed DEF Live
  <2> QED BY <2>2, <2>3, <2>4, EditScheduled
<1> QED BY <1>1, <1>2

LEMMA ScheduledStep ==
    ASSUME Drivers \subseteq Exclusive, Scheduled, [Next \/ Crash]_vars
    PROVE  Scheduled'
<1>0. /\ Telling' /\ execs' \in Seq(Execution) /\ Single(execs')
  <2>1. Telling'
    BY TellingStep DEF Scheduled
  <2> QED BY <2>1 DEF Telling, Shown, Driven, Typed, TypeOK, RowsOK, OneCurrentExecution, Single
<1>1. ASSUME NEW r \in Requests, Handle(r) PROVE Scheduled'
  <2>1. CASE Aside(r)
    <3>1. OnTime(execs') /\ Fed(execs') /\ Kept
      BY <1>0, <2>1, AsideWell
    <3>2. /\ pc'[r] \notin DriverPlaces
          /\ \A q \in Requests \ {r} : pc'[q] = pc[q] /\ mem'[q] = mem[q] /\ req'[q] = req[q]
      BY <2>1, AsideSteps, ScheduledAre
    <3>3. Intends(r)'
      BY <3>2, IntendsElsewhere, DriverPlacesAre DEF WorkPlaces
    <3>4. \A q \in Requests \ {r} : Intends(q)'
      BY <3>1, <3>2, IntendsStill DEF Scheduled
    <3> QED BY <1>0, <3>1, <3>3, <3>4 DEF Scheduled
  <2>2. CASE ~Aside(r)
    <3>1. Well(r)
      BY <1>0, <1>1, <2>2, ReadsWell, AnswerWell, SubmitWell, StartWell, MarksWell, ClearWell
         DEF Handle, Aside
    <3>2. \A q \in Requests \ {r} : pc'[q] \notin DriverPlaces
      BY <1>1, <2>2, DriverSteps, ScheduledAre
    <3>3. \A q \in Requests \ {r} : Intends(q)'
      BY <3>2, IntendsElsewhere, DriverPlacesAre DEF WorkPlaces
    <3> QED BY <1>0, <3>1, <3>3 DEF Scheduled, Well
  <2> QED BY <2>1, <2>2
<1>2. ASSUME NEW r \in Requests, Call(r) PROVE Scheduled'
  <2>1. /\ UNCHANGED execs
        /\ pc'[r] \in {"continue", "find waiting", "find draft", "find current", "archive"}
    BY <1>2, AloneCall, ScheduledAre DEF Driven
  <2>2. \A q \in Requests : q # r => pc'[q] = pc[q] /\ mem'[q] = mem[q] /\ req'[q] = req[q]
    BY <1>2, ScheduledAre
       DEF Call, CreateTask, ResumeTask, RerunNode, SaveDraft, DeleteTask, Arrive,
           Typed, TypeOK, RequestsOK
  <2>3. Kept /\ OnTime(execs') /\ Fed(execs')
    BY <2>1, NothingScheduled DEF Scheduled
  <2>4. Intends(r)'
    BY <2>1, IntendsElsewhere DEF WorkPlaces
  <2>5. \A q \in Requests : q # r => Intends(q)'
    BY <2>2, <2>3, IntendsStill DEF Scheduled
  <2> QED BY <1>0, <2>3, <2>4, <2>5 DEF Scheduled
<1>3. CASE Crash
  <2>1. UNCHANGED execs /\ \A r \in Requests : pc'[r] \in {"new", "done"}
    BY <1>3, ScheduledAre DEF Crash, InFlight
  <2> QED BY <1>0, <2>1, NothingScheduled, IntendsElsewhere DEF Scheduled, WorkPlaces
<1>4. CASE UNCHANGED vars
  BY <1>0, <1>4, NothingScheduled, IntendsStill DEF vars, Scheduled
<1> QED BY <1>1, <1>2, <1>3, <1>4 DEF Next

LEMMA ScheduledInit == Init => Scheduled
<1> SUFFICES ASSUME Init PROVE Scheduled
  OBVIOUS
<1>1. OnTime(execs) /\ Fed(execs)
  BY DEF Init, OnTime, Fed
<1>2. \A r \in Requests : Intends(r)
  BY DEF Init, Intends, WorkPlaces
<1> QED BY <1>1, <1>2, TellingInit DEF Scheduled

----------------------------------------------------------------------------
LEMMA ScheduledBranches == Scheduled => BranchesDoneFirst
<1> SUFFICES ASSUME Scheduled, NEW i \in DOMAIN execs, NEW j \in DOMAIN execs,
                    Live(execs, i), Live(execs, j), execs[j].node \in Upstream(execs[i].node)
             PROVE  execs[j].status = "succeeded"
  BY DEF BranchesDoneFirst
<1> DEFINE outs == LatestOutputs(execs)
           u == execs[j].node
<1>1. u \in Nodes /\ Due(execs[i].node, outs) /\ Due(u, outs)
  BY ScheduledAre DEF OnTime, Execution
<1>2. u \in Completed(outs)
  BY <1>1 DEF Due, Pending
<1>3. Feeds(outs[u].by, u, execs)
  BY <1>1, <1>2, OutsBacked, ScheduledAre DEF Completed, Backed
<1>4. outs[u].by = j
  BY <1>3, ScheduledAre DEF Feeds, Single, Live
<1> QED BY <1>3, <1>4 DEF Feeds

\* A join never overtakes one of its branches: for every contract, whatever
\* values its conditions compare, a node runs only when every node above it that
\* was started has succeeded.  _ready_node_ids decides it on outputs read before.
THEOREM BranchesAlwaysDoneFirst ==
    ASSUME Drivers \subseteq Exclusive
    PROVE  CrashSpec => []BranchesDoneFirst
<1>1. Init => Scheduled
  BY ScheduledInit
<1>2. Scheduled /\ [Next \/ Crash]_vars => Scheduled'
  BY ScheduledStep
<1>3. Scheduled => BranchesDoneFirst
  BY ScheduledBranches
<1> QED BY <1>1, <1>2, <1>3, PTL DEF CrashSpec

\* Current results come from current results: after any sequence of reruns, the
\* outputs an execution in use has read are in use themselves.
THEOREM InputsAlwaysCurrent ==
    ASSUME Drivers \subseteq Exclusive
    PROVE  CrashSpec => []InputsCurrent
<1>1. Init => Scheduled
  BY ScheduledInit
<1>2. Scheduled /\ [Next \/ Crash]_vars => Scheduled'
  BY ScheduledStep
<1>3. Scheduled => InputsCurrent
  BY DEF Scheduled, Fed, Feeds, InputsCurrent
<1> QED BY <1>1, <1>2, <1>3, PTL DEF CrashSpec

----------------------------------------------------------------------------
(* What the task row says of the executions: a waiting task can be answered,  *)
(* a finished one is complete, a running one is being run, and between        *)
(* requests its view is the one the executions give.                          *)

----------------------------------------------------------------------------
(* A waiting task has a question and no failure.  The request that is about   *)
(* to ask has seen no failure, and there has been none since.                 *)

AskingPlaces == {"find waiting", "answer", "load input", "submit", "run input",
                 "load outputs", "resolve", "insert", "ask", "run"}

Calm(r) ==
    /\ pc[r] \in AskingPlaces => ~AnyFailed(execs)
    /\ pc[r] = "look" => \A i \in DOMAIN execs : execs[i].status = "failed" => i = mem[r].exec

Asked == task.status = "waiting" => ~NoneWaits(execs) /\ ~AnyFailed(execs)

Waiting == Scheduled /\ Asked /\ \A r \in Requests : Calm(r)

\* No row fails in the step, none stops waiting.
NoNewFailure ==
    \A i \in DOMAIN execs' :
        execs'[i].status = "failed" => i \in DOMAIN execs /\ execs[i].status = "failed"
StillWait ==
    \A i \in DOMAIN execs :
        execs[i].status = "waiting" => i \in DOMAIN execs' /\ execs'[i].status = "waiting"

LEMMA CalmElsewhere ==
    ASSUME NEW r \in Requests, pc'[r] \notin AskingPlaces \cup {"look"}
    PROVE  Calm(r)'
BY DEF Calm, AskingPlaces

LEMMA CalmStill ==
    ASSUME NEW r \in Requests, Calm(r), NoNewFailure, pc'[r] = pc[r], mem'[r] = mem[r]
    PROVE  Calm(r)'
BY DEF Calm, NoNewFailure, AnyFailed

LEMMA NoFailure ==
    ASSUME NoNewFailure, ~AnyFailed(execs)
    PROVE  ~AnyFailed(execs')
BY DEF NoNewFailure, AnyFailed

LEMMA NothingFails ==
    ASSUME UNCHANGED execs
    PROVE  NoNewFailure /\ StillWait
BY DEF NoNewFailure, StillWait

LEMMA AskedStill ==
    ASSUME Asked, NoNewFailure, StillWait, task'.status = task.status
    PROVE  Asked'
BY NoFailure DEF Asked, NoneWaits, StillWait

LEMMA AskedNot ==
    ASSUME task'.status # "waiting"
    PROVE  Asked'
BY DEF Asked

\* The row a request works on is edited.
LEMMA RowMarked ==
    ASSUME NEW i \in DOMAIN execs, NEW row, execs' = [execs EXCEPT ![i] = row]
    PROVE  /\ row.status # "failed" => NoNewFailure
           /\ execs[i].status # "waiting" => StillWait
BY DEF NoNewFailure, StillWait

----------------------------------------------------------------------------
(* The steps of the driving code.                                             *)

LEMMA ReadsCalm ==
    ASSUME Waiting, NEW r \in Requests,
           \/ FindWaiting(r) \/ LoadInput(r) \/ ReadExecutions(r) \/ LoadOutputs(r)
           \/ ResolveInputs(r) \/ LookAgain(r) \/ FinishRead(r) \/ FailRead(r) \/ FindCurrent(r) \/ ClearRead(r)
    PROVE  Asked' /\ Calm(r)'
<1>0. /\ Typed /\ mem \in [Requests -> Locals] /\ Calm(r) /\ Knows(r) /\ Asked
  BY ScheduledAre DEF Waiting, Shown
<1>1. UNCHANGED execs /\ UNCHANGED task
  BY DEF FindWaiting, LoadInput, ReadExecutions, LoadOutputs, ResolveInputs, LookAgain, FinishRead,
         FailRead, FindCurrent, ClearRead, ReadView, db
<1>2. Asked'
  BY <1>0, <1>1 DEF Asked
<1>3. CASE FindWaiting(r) \/ LoadInput(r) \/ ResolveInputs(r)
  <2>1. pc[r] \in {"find waiting", "load input", "resolve"}
    BY <1>3 DEF FindWaiting, LoadInput, ResolveInputs
  <2>2. ~AnyFailed(execs)
    BY <1>0, <2>1 DEF Calm, AskingPlaces
  <2>3. pc'[r] \in {"done", "load input", "answer", "submit", "insert", "fail"}
    BY <1>0, <1>3, Went DEF FindWaiting, LoadInput, ResolveInputs, Return, Raise
  <2> QED BY <1>1, <1>2, <2>2, <2>3 DEF Calm
<1>4. CASE ReadExecutions(r)
  <2>1. AnyFailed(execs) => pc'[r] = "done"
    BY <1>0, <1>4, Went DEF ReadExecutions, Return
  <2>2. pc'[r] \in {"done", "load outputs"}
    BY <1>0, <1>4, Went DEF ReadExecutions, Return
  <2> QED BY <1>1, <1>2, <2>1, <2>2 DEF Calm, AskingPlaces
<1>5. CASE LoadOutputs(r)
  <2>1. ~AnyFailed(execs)
    BY <1>0, <1>5 DEF LoadOutputs, Knows
  <2>2. pc'[r] \in {"done", "fail", "resolve", "finish"}
    BY <1>0, <1>5, Went DEF LoadOutputs, Idle, Return, Raise
  <2> QED BY <1>1, <1>2, <2>1, <2>2 DEF Calm
<1>6. CASE LookAgain(r)
  <2>1. \/ pc'[r] \in {"done", "continue"}
        \/ pc'[r] = "resolve" /\ execs[mem[r].exec].status # "failed"
    BY <1>0, <1>6, Went DEF LookAgain, Return
  <2>2. execs[mem[r].exec].status # "failed" => ~AnyFailed(execs)
    BY <1>0, <1>6 DEF LookAgain, Calm, AnyFailed
  <2> QED BY <1>1, <1>2, <2>1, <2>2 DEF Calm, AskingPlaces
<1>7. CASE FinishRead(r) \/ FailRead(r) \/ FindCurrent(r) \/ ClearRead(r)
  <2>1. pc'[r] \in {"finish commit", "fail commit", "clear", "clear commit"}
    BY <1>0, <1>7, Went DEF FinishRead, FailRead, FindCurrent, ClearRead, ReadView
  <2> QED BY <1>2, <2>1, CalmElsewhere DEF AskingPlaces
<1> QED BY <1>3, <1>4, <1>5, <1>6, <1>7

LEMMA EndsCalm ==
    ASSUME Waiting, NEW r \in Requests, FinishTask(r) \/ FailTask(r) \/ ClearDownstream(r)
    PROVE  Asked' /\ Calm(r)'
<1>0. Typed /\ Asked
  BY ScheduledAre DEF Waiting
<1>1. pc'[r] \in {"done", "continue"}
  BY <1>0, Went DEF FinishTask, FailTask, ClearDownstream, Return
<1>2. Calm(r)'
  BY <1>1, CalmElsewhere DEF AskingPlaces
<1>3. task'.status \in {"succeeded", "running", "failed"}
  <2>1. CASE FinishTask(r)
    BY <2>1 DEF FinishTask
  <2>2. CASE FailTask(r)
    BY <2>2 DEF FailTask
  <2>3. CASE ClearDownstream(r)
    <3>1. \E w : task' = [status |-> "running", view |-> w, finished |-> FALSE]
      BY <2>3 DEF ClearDownstream
    <3> QED BY <3>1
  <2> QED BY <2>1, <2>2, <2>3
<1> QED BY <1>2, <1>3, AskedNot

LEMMA AnswerCalm ==
    ASSUME Waiting, NEW r \in Requests, NEW v \in Outputs, Answer(r, v)
    PROVE  Asked' /\ Calm(r)'
<1>0. Typed /\ Asked /\ task \in [status : Statuses, view : CurrentView, finished : BOOLEAN]
  BY ScheduledAre DEF Waiting, Typed, TypeOK, RowsOK
<1>1. pc'[r] \in {"done", "continue"}
  BY <1>0, Went DEF Answer, Return
<1>2. UNCHANGED <<execs, task>> \/ task'.status = "running"
  BY <1>0 DEF Answer, db
<1>3. Asked'
  BY <1>0, <1>2, AskedNot DEF Asked
<1> QED BY <1>1, <1>3, CalmElsewhere DEF AskingPlaces

LEMMA SubmitCalm ==
    ASSUME Waiting, NEW r \in Requests, Submit(r)
    PROVE  Asked' /\ Calm(r)'
<1> DEFINE i == mem[r].exec
           row == [execs[i] EXCEPT !.status = "running",
                     !.uses = Uses(req[r].node, mem[r].outs), !.fields = {}]
<1>0. /\ Typed /\ Asked /\ Calm(r) /\ Remembers(r)
      /\ task \in [status : Statuses, view : CurrentView, finished : BOOLEAN]
      /\ \A j \in DOMAIN execs : execs[j] \in Execution
  BY ScheduledAre DEF Waiting, Typed, TypeOK, RowsOK, Driven
<1>1. i \in DOMAIN execs /\ execs[i].status = "waiting" /\ execs[i] \in Execution
  BY <1>0 DEF Submit, Remembers, HasRow
<1>2. execs' = [execs EXCEPT ![i] = row] /\ row.status = "running"
  BY <1>1 DEF Submit, Execution
<1>3. NoNewFailure
  <2> HIDE DEF i, row
  <2> QED BY <1>1, <1>2, RowMarked
<1>4. ~AnyFailed(execs')
  BY <1>0, <1>3, NoFailure DEF Submit, Calm, AskingPlaces
<1>5. pc'[r] = "run input"
  BY <1>0, Went DEF Submit
<1>6. task'.status = "running"
  BY <1>0 DEF Submit
<1> QED BY <1>4, <1>5, <1>6, AskedNot DEF Calm

LEMMA StartCalm ==
    ASSUME Waiting, NEW r \in Requests, StartNode(r)
    PROVE  Asked' /\ Calm(r)'
<1>0. Typed /\ Asked /\ Calm(r) /\ execs \in Seq(Execution)
  BY ScheduledAre DEF Waiting
<1>1. PICK row : execs' = Append(execs, row) /\ row.status = "running"
  <2> DEFINE row == [node |-> mem[r].node, attempt |-> mem[r].attempt, status |-> "running",
                     form |-> FALSE, output |-> NoOutput,
                     uses |-> Uses(mem[r].node, mem[r].outs), fields |-> {}]
  <2>1. execs' = Append(execs, row) /\ row.status = "running"
    BY DEF StartNode
  <2> HIDE DEF row
  <2> QED BY <2>1
<1>2. /\ DOMAIN execs' = DOMAIN execs \cup {Len(execs) + 1}
      /\ Len(execs) + 1 \notin DOMAIN execs
      /\ execs'[Len(execs) + 1] = row
      /\ \A j \in DOMAIN execs : execs'[j] = execs[j]
  BY <1>0, <1>1, LenProperties, AppendProperties
<1>3. NoNewFailure /\ StillWait
  BY <1>1, <1>2 DEF NoNewFailure, StillWait
<1>4. pc'[r] \in {"ask", "run"} /\ UNCHANGED task
  BY <1>0, Went DEF StartNode
<1>5. ~AnyFailed(execs')
  BY <1>0, <1>3, NoFailure DEF StartNode, Calm, AskingPlaces
<1> QED BY <1>0, <1>3, <1>4, <1>5, AskedStill DEF Calm

LEMMA MarksCalm ==
    ASSUME Waiting, NEW r \in Requests,
           MarkWaiting(r) \/ (\E v \in Outputs : MarkSucceeded(r, v)) \/ MarkFailed(r)
    PROVE  Asked' /\ Calm(r)'
<1> DEFINE i == mem[r].exec
<1>0. /\ Typed /\ Asked /\ Calm(r) /\ Remembers(r)
      /\ task \in [status : Statuses, view : CurrentView, finished : BOOLEAN]
      /\ \A j \in DOMAIN execs : execs[j] \in Execution
  BY ScheduledAre DEF Waiting, Typed, TypeOK, RowsOK, Driven
<1>1. /\ i \in DOMAIN execs /\ execs[i].status = "running" /\ pc[r] \in {"ask", "run", "run input"}
      /\ execs[i] \in Execution
  BY <1>0 DEF MarkWaiting, MarkSucceeded, MarkFailed, Remembers, HasRow
<1>2. ~AnyFailed(execs)
  BY <1>0, <1>1 DEF Calm, AskingPlaces
<1>3. \/ pc'[r] \in {"done", "continue"}
      \/ pc'[r] = "look" /\ mem' = mem
  BY <1>0, Went DEF MarkWaiting, MarkSucceeded, MarkFailed, AfterMark
<1>4. CASE MarkWaiting(r)
  <2> DEFINE row == [execs[i] EXCEPT !.status = "waiting", !.form = (pc[r] = "ask")]
  <2>1. execs' = [execs EXCEPT ![i] = row] /\ row.status = "waiting"
    BY <1>1, <1>4 DEF MarkWaiting, Execution
  <2> HIDE DEF i, row
  <2>2. NoNewFailure /\ i \in DOMAIN execs' /\ execs'[i].status = "waiting"
    BY <1>1, <2>1, RowMarked
  <2>3. ~AnyFailed(execs') /\ ~NoneWaits(execs')
    BY <1>2, <2>2, NoFailure DEF NoneWaits
  <2> QED BY <1>3, <2>3 DEF Asked, Calm, AskingPlaces, AnyFailed
<1>5. CASE \E v \in Outputs : MarkSucceeded(r, v)
  <2>0. PICK v \in Outputs : MarkSucceeded(r, v)
    BY <1>5
  <2> DEFINE row == [execs[i] EXCEPT !.status = "succeeded", !.output = v, !.form = FALSE]
  <2>1. execs' = [execs EXCEPT ![i] = row] /\ row.status = "succeeded" /\ UNCHANGED task
    BY <1>1, <2>0 DEF MarkSucceeded, Execution
  <2> HIDE DEF i, row
  <2>2. NoNewFailure /\ StillWait
    BY <1>1, <2>1, RowMarked
  <2>3. ~AnyFailed(execs') /\ Asked'
    BY <1>0, <1>2, <2>1, <2>2, NoFailure, AskedStill
  <2> QED BY <1>3, <2>3 DEF Calm, AskingPlaces, AnyFailed
<1>6. CASE MarkFailed(r)
  <2> DEFINE row == [execs[i] EXCEPT !.status = "failed"]
  <2>1. execs' = [execs EXCEPT ![i] = row] /\ task'.status = "failed"
    BY <1>6 DEF MarkFailed
  <2> HIDE DEF row
  <2>2. \A j \in DOMAIN execs' : execs'[j].status = "failed" => j = i
    BY <1>2, <2>1 DEF AnyFailed
  <2> QED BY <1>3, <2>1, <2>2, AskedNot DEF Calm, AskingPlaces
<1> QED BY <1>4, <1>5, <1>6

\* Drafts leave the status, a deletion sets it.
LEMMA AsideStatus ==
    ASSUME Typed, NEW r \in Requests, Aside(r)
    PROVE  task'.status \in {task.status, "archived"}
<1>1. task \in [status : Statuses, view : CurrentView, finished : BOOLEAN]
  BY DEF Typed, TypeOK, RowsOK
<1>2. CASE ArchiveTask(r)
  BY <1>2 DEF ArchiveTask
<1>3. CASE MergeDraft(r) \/ ArchiveRead(r)
  BY <1>3 DEF MergeDraft, ArchiveRead, ReadView, db
<1>4. CASE CommitDraft(r)
  <2>1. UNCHANGED task \/ \E w : task' = [task EXCEPT !.view = w]
    BY <1>4 DEF CommitDraft, db
  <2> QED BY <1>1, <2>1
<1> QED BY <1>2, <1>3, <1>4 DEF Aside

LEMMA AsideCalm ==
    ASSUME Waiting, NEW r \in Requests, Aside(r)
    PROVE  NoNewFailure /\ StillWait /\ Asked'
<1>1. SameRows
  BY AsideSteps, ScheduledAre DEF Waiting
<1>2. NoNewFailure /\ StillWait
  BY <1>1 DEF SameRows, NoNewFailure, StillWait
<1>3. task'.status \in {task.status, "archived"}
  BY AsideStatus, ScheduledAre DEF Waiting
<1> QED BY <1>2, <1>3, AskedStill, AskedNot DEF Waiting

LEMMA CallCalm ==
    ASSUME Waiting, NEW r \in Requests, Call(r)
    PROVE  UNCHANGED execs /\ Asked' /\ Calm(r)'
<1>0. /\ Typed /\ Asked /\ pc \in [Requests -> Places] /\ mem \in [Requests -> Locals]
  BY ScheduledAre DEF Waiting
<1>1. CASE CreateTask(r)
  <2>1. task'.status = "running" /\ UNCHANGED execs /\ pc'[r] = "continue"
    BY <1>0, <1>1 DEF CreateTask, Arrive
  <2> QED BY <2>1, AskedNot, CalmElsewhere DEF AskingPlaces
<1>2. CASE \E n \in Nodes : ResumeTask(r, n)
  <2>1. task.status = "waiting" /\ UNCHANGED <<task, execs>> /\ pc'[r] = "find waiting"
    BY <1>0, <1>2 DEF ResumeTask, Arrive, db
  <2> QED BY <1>0, <2>1 DEF Asked, Calm
<1>3. CASE \/ \E n \in Nodes : RerunNode(r, n)
           \/ \E n \in Nodes, S \in SUBSET Fields : SaveDraft(r, n, S)
           \/ DeleteTask(r)
  <2>1. UNCHANGED <<task, execs>> /\ pc'[r] \in {"find current", "find draft", "archive"}
    BY <1>0, <1>3 DEF RerunNode, SaveDraft, DeleteTask, Arrive
  <2> QED BY <1>0, <2>1, CalmElsewhere DEF Asked, AskingPlaces
<1> QED BY <1>1, <1>2, <1>3 DEF Call

LEMMA WaitingStep ==
    ASSUME Drivers \subseteq Exclusive, Waiting, [Next \/ Crash]_vars
    PROVE  Waiting'
<1>0. Scheduled'
  BY ScheduledStep DEF Waiting
<1>1. ASSUME NEW r \in Requests, Handle(r) PROVE Waiting'
  <2>1. CASE Aside(r)
    <3>1. NoNewFailure /\ Asked'
      BY <2>1, AsideCalm
    <3>2. /\ pc'[r] \notin DriverPlaces
          /\ \A q \in Requests \ {r} : pc'[q] = pc[q] /\ mem'[q] = mem[q]
      BY <2>1, AsideSteps, ScheduledAre DEF Waiting
    <3>3. Calm(r)'
      BY <3>2, CalmElsewhere, DriverPlacesAre DEF AskingPlaces
    <3>4. \A q \in Requests \ {r} : Calm(q)'
      BY <3>1, <3>2, CalmStill DEF Waiting
    <3> QED BY <1>0, <3>1, <3>3, <3>4 DEF Waiting
  <2>2. CASE ~Aside(r)
    <3>1. Asked' /\ Calm(r)'
      BY <1>1, <2>2, ReadsCalm, EndsCalm, AnswerCalm, SubmitCalm, StartCalm, MarksCalm
         DEF Handle, Aside
    <3>2. \A q \in Requests \ {r} : pc'[q] \notin DriverPlaces
      BY <1>1, <2>2, DriverSteps, ScheduledAre DEF Waiting
    <3>3. \A q \in Requests \ {r} : Calm(q)'
      BY <3>2, CalmElsewhere, DriverPlacesAre DEF AskingPlaces
    <3> QED BY <1>0, <3>1, <3>3 DEF Waiting
  <2> QED BY <2>1, <2>2
<1>2. ASSUME NEW r \in Requests, Call(r) PROVE Waiting'
  <2>1. UNCHANGED execs /\ Asked' /\ Calm(r)'
    BY <1>2, CallCalm
  <2>2. \A q \in Requests : q # r => pc'[q] = pc[q] /\ mem'[q] = mem[q]
    BY <1>2, ScheduledAre
       DEF Waiting, Call, CreateTask, ResumeTask, RerunNode, SaveDraft, DeleteTask, Arrive
  <2>3. \A q \in Requests : q # r => Calm(q)'
    BY <2>1, <2>2, CalmStill, NothingFails DEF Waiting
  <2> QED BY <1>0, <2>1, <2>3 DEF Waiting
<1>3. CASE Crash
  <2>1. UNCHANGED <<task, execs>> /\ \A r \in Requests : pc'[r] \in {"new", "done"}
    BY <1>3, ScheduledAre DEF Crash, InFlight, Waiting
  <2>2. Asked'
    BY <2>1 DEF Waiting, Asked
  <2>3. \A r \in Requests : Calm(r)'
    BY <2>1, CalmElsewhere DEF AskingPlaces
  <2> QED BY <1>0, <2>2, <2>3 DEF Waiting
<1>4. CASE UNCHANGED vars
  BY <1>0, <1>4 DEF vars, Waiting, Asked, Calm
<1> QED BY <1>1, <1>2, <1>3, <1>4 DEF Next

LEMMA WaitingInit == Init => Waiting
<1> SUFFICES ASSUME Init PROVE Waiting
  OBVIOUS
<1>1. Asked /\ \A r \in Requests : Calm(r)
  BY DEF Init, Asked, Calm, AskingPlaces
<1> QED BY <1>1, ScheduledInit DEF Waiting

\* A task that waits has a node somebody can answer and no failed one, whatever
\* the order in which its nodes asked, were answered and were rerun.
THEOREM WaitingAlwaysAnswerable ==
    ASSUME Drivers \subseteq Exclusive
    PROVE  CrashSpec => []WaitingIsAnswerable
<1>1. Init => Waiting
  BY WaitingInit
<1>2. Waiting /\ [Next \/ Crash]_vars => Waiting'
  BY WaitingStep
<1>3. Waiting => WaitingIsAnswerable
  BY DEF Waiting, Asked, NoneWaits, AnyFailed, WaitingIsAnswerable
<1> QED BY <1>1, <1>2, <1>3, PTL DEF CrashSpec

----------------------------------------------------------------------------
(* A task that has succeeded is complete.  First the scheduler: when nothing  *)
(* is ready and every started node has completed, no active node is left.     *)

\* Of a set of nodes that is not empty, one has none of the others above it.
LEMMA TopmostNode ==
    ASSUME NEW D \in SUBSET Nodes, D # {}
    PROVE  \E n \in D : Upstream(n) \cap D = {}
<1> DEFINE A == {Upstream(n) : n \in D}
<1>1. A \subseteq FiniteSubsetsOf(Nodes)
  BY NodesAssumption, FS_Subset DEF FiniteSubsetsOf, Upstream
<1>2. A # {}
  OBVIOUS
<1>3. IsWellFoundedOn(StrictSubsetOrdering(Nodes), FiniteSubsetsOf(Nodes))
  BY FS_StrictSubsetOrderingWellFounded
<1> HIDE DEF A
<1>4. PICK X \in A : \A Y \in A : ~(<<Y, X>> \in StrictSubsetOrdering(Nodes))
  BY <1>1, <1>2, <1>3, WFMin
<1>5. PICK n \in D : X = Upstream(n)
  BY <1>4 DEF A
<1>6. ASSUME NEW u \in D, u \in Upstream(n) PROVE FALSE
  <2>1. Upstream(u) \subseteq Upstream(n)
    BY <1>6, BelowBelow DEF Upstream
  <2>2. u \notin Upstream(u)
    BY ContractAssumption DEF ContractOK, Upstream
  <2>3. <<Upstream(u), Upstream(n)>> \in StrictSubsetOrdering(Nodes)
    BY <1>6, <2>1, <2>2 DEF StrictSubsetOrdering, Upstream
  <2> QED BY <1>4, <1>5, <2>3 DEF A
<1> QED BY <1>6

LEMMA NothingLeft ==
    ASSUME NEW outs, \A n \in Completed(outs) : n \in ActiveNodes(outs),
           ReadyNodes(outs, Completed(outs)) = {}
    PROVE  ActiveNodes(outs) = Completed(outs)
<1> DEFINE D == ActiveNodes(outs) \ Completed(outs)
<1> SUFFICES ASSUME D # {} PROVE FALSE
  OBVIOUS
<1>1. D \in SUBSET Nodes
  BY ActiveType
<1>2. PICK n \in D : Upstream(n) \cap D = {}
  <2> HIDE DEF D
  <2> QED BY <1>1, TopmostNode
<1>3. \E e \in Edges : e.to = n /\ <<e.from, n>> \in ActivePairs(outs)
  BY <1>2 DEF ActiveNodes, ActivePairs, ActiveEdges, Settled
<1>4. ASSUME NEW e \in Edges, e.to = n, e.from # START,
             e.from \in ActiveNodes(outs) \cup PotentialNodes(outs), e.from \notin Completed(outs)
      PROVE  FALSE
  <2>1. e.from \in Nodes /\ n \in Nodes
    BY <1>1, <1>4, EdgesAre
  <2>2. n \in Downstream[e.from]
    BY <1>4, <2>1, EdgeBelow
  <2>3. CASE e.from \in ActiveNodes(outs)
    BY <1>2, <1>4, <2>1, <2>2, <2>3 DEF Upstream
  <2>4. CASE e.from \in PotentialNodes(outs)
    <3>1. PICK m \in D : e.from \in Downstream[m]
      BY <2>4 DEF PotentialNodes
    <3>2. m \in Nodes /\ n \in Downstream[m]
      BY <1>1, <2>2, <3>1, BelowBelow
    <3> QED BY <1>2, <3>1, <3>2 DEF Upstream
  <2> QED BY <1>4, <2>3, <2>4
<1>5. NodeIsReady(n, outs)
  BY <1>3, <1>4 DEF NodeIsReady
<1> QED BY <1>1, <1>2, <1>5 DEF ReadyNodes, Ready

----------------------------------------------------------------------------
(* The inductive invariant, of a process that is not killed: a row that runs  *)
(* has a request that runs it.                                                *)

Complete(es) ==
    /\ \A i \in DOMAIN es : es[i].status \in {"succeeded", "superseded"}
    /\ ActiveNodes(LatestOutputs(es)) = Completed(LatestOutputs(es))

RunPlaces == {"ask", "run", "run input"}

Attended ==
    \A i \in DOMAIN execs : execs[i].status = "running" =>
        \E r \in Requests : pc[r] \in RunPlaces /\ mem[r].exec = i

Closing(r) ==
    /\ pc[r] \in {"finish", "finish commit"} => Complete(execs)
    /\ pc[r] = "finish commit" => mem[r].view.final = LatestOutputs(execs)
    /\ pc[r] \in DriverPlaces \ RerunPlaces => task.status # "succeeded"

Finished == Scheduled /\ Attended /\ SucceededIsComplete /\ \A r \in Requests : Closing(r)

LEMMA FinishedAre ==
    ASSUME Finished
    PROVE  /\ Scheduled /\ Shown /\ Driven /\ Typed /\ execs \in Seq(Execution) /\ Single(execs)
           /\ mem \in [Requests -> Locals] /\ pc \in [Requests -> Places]
           /\ task \in [status : Statuses, view : CurrentView, finished : BOOLEAN]
           /\ \A i \in DOMAIN execs : execs[i] \in Execution
BY ScheduledAre DEF Finished, Typed, TypeOK, RowsOK

\* Of the driving request's row alone can be running.
LEMMA RunsAlone ==
    ASSUME Finished, NEW r \in Requests, pc[r] \in DriverPlaces, NEW i \in DOMAIN execs,
           execs[i].status = "running"
    PROVE  pc[r] \in RunPlaces /\ mem[r].exec = i
<1>1. PICK q \in Requests : pc[q] \in RunPlaces /\ mem[q].exec = i
  BY DEF Finished, Attended
<1>2. q = r
  BY <1>1, FinishedAre, DriverPlacesAre DEF RunPlaces, Driven, Alone
<1> QED BY <1>1, <1>2

LEMMA ClosingElsewhere ==
    ASSUME NEW r \in Requests, pc'[r] \notin DriverPlaces \ RerunPlaces
    PROVE  Closing(r)'
BY DriverPlacesAre DEF Closing, RerunPlaces

LEMMA ClosingStill ==
    ASSUME NEW r \in Requests, Closing(r), UNCHANGED execs, pc'[r] = pc[r], mem'[r] = mem[r],
           task'.status \in {task.status, "running", "waiting", "archived"}
    PROVE  Closing(r)'
BY DEF Closing

\* No step of the driving code but the last of _finish_task ends in success.
LEMMA StatusMoves ==
    ASSUME Typed, NEW r \in Requests, Handle(r), ~Aside(r), ~FinishTask(r)
    PROVE  task'.status \in {task.status, "running", "waiting", "failed"}
<1>0. task \in [status : Statuses, view : CurrentView, finished : BOOLEAN]
  BY DEF Typed, TypeOK, RowsOK
<1>1. CASE UNCHANGED task
  BY <1>1
<1>2. CASE \E v \in Outputs : Answer(r, v)
  <2>1. UNCHANGED task \/ \E w : task' = [task EXCEPT !.status = "running", !.view = w]
    BY <1>2 DEF Answer, db
  <2> QED BY <1>0, <2>1
<1>3. CASE Submit(r) \/ MarkWaiting(r)
  <2>1. \E st \in {"running", "waiting"} : \E w : task' = [task EXCEPT !.status = st, !.view = w]
    BY <1>3 DEF Submit, MarkWaiting
  <2> QED BY <1>0, <2>1
<1>4. CASE MarkFailed(r) \/ FailTask(r) \/ ClearDownstream(r)
  <2>1. UNCHANGED task \/ \E st \in {"failed", "running"} : \E w, b :
                            task' = [status |-> st, view |-> w, finished |-> b]
    BY <1>4 DEF MarkFailed, FailTask, ClearDownstream
  <2> QED BY <2>1
<1> QED BY <1>1, <1>2, <1>3, <1>4
        DEF Handle, Aside, FindWaiting, LoadInput, ReadExecutions, LoadOutputs, ResolveInputs,
            StartNode, MarkSucceeded, LookAgain, FinishRead, FailRead, FindCurrent, ClearRead, ReadView, db

----------------------------------------------------------------------------
(* The steps.                                                                 *)

\* The step into _finish_task.
LEMMA IdleCloses ==
    ASSUME Finished, NEW r \in Requests, LoadOutputs(r), pc'[r] = "finish"
    PROVE  Complete(execs)
<1> DEFINE outs == LatestOutputs(execs)
<1>0. Typed /\ Knows(r) /\ Remembers(r) /\ pc[r] = "load outputs"
  BY FinishedAre DEF Shown, Driven, LoadOutputs
<1>1. ~mem[r].waiting /\ ReadyNodes(outs, mem[r].started) = {}
  <2>1. ~Return(r) /\ ~Raise(r) /\ ~Goto(r, "resolve")
    BY <1>0, Went DEF Return, Raise
  <2> QED BY <2>1 DEF LoadOutputs, Idle
<1>2. \A i \in DOMAIN execs : execs[i].status \in {"succeeded", "superseded"}
  <2>1. ~AnyFailed(execs) /\ NoneWaits(execs)
    BY <1>0, <1>1 DEF Knows
  <2>2. \A i \in DOMAIN execs : execs[i].status # "running"
    BY <1>0, RunsAlone, DriverPlacesAre DEF RunPlaces
  <2>3. \A i \in DOMAIN execs : execs[i].status \in ExecStatuses
    BY FinishedAre DEF Execution
  <2>4. \A i \in DOMAIN execs : execs[i].status # "failed" /\ execs[i].status # "waiting"
    BY <2>1 DEF AnyFailed, NoneWaits
  <2> QED BY <2>2, <2>3, <2>4 DEF ExecStatuses
<1>3. StartedNodes(execs) = Completed(outs)
  <2>1. ASSUME NEW i \in DOMAIN execs, Live(execs, i) PROVE execs[i].node \in Completed(outs)
    <3>1. execs[i].status = "succeeded" /\ execs[i].node \in Nodes
      BY <1>2, <2>1, FinishedAre DEF Live, Execution
    <3>2. outs[execs[i].node] = [by |-> i, val |-> execs[i].output] /\ i # 0
      BY <3>1, FinishedAre, OutsAre
    <3> HIDE DEF outs
    <3> QED BY <3>1, <3>2 DEF Completed
  <2>2. ASSUME NEW n \in Completed(outs) PROVE n \in StartedNodes(execs)
    <3>1. Feeds(outs[n].by, n, execs)
      BY <2>2, FinishedAre, OutsBacked DEF Completed, Backed
    <3> QED BY <3>1 DEF Feeds, StartedNodes, Live
  <2> QED BY <2>1, <2>2 DEF StartedNodes
<1>4. ReadyNodes(outs, Completed(outs)) = {}
  BY <1>0, <1>1, <1>3 DEF Remembers
<1>5. \A n \in Completed(outs) : n \in ActiveNodes(outs)
  BY FinishedAre, ScheduledAre, CompletedIsDue DEF Due
<1>6. ActiveNodes(outs) = Completed(outs)
  <2> HIDE DEF outs
  <2> QED BY <1>4, <1>5, NothingLeft
<1> QED BY <1>2, <1>6 DEF Complete

LEMMA HandleCloses ==
    ASSUME Finished, NEW r \in Requests, Handle(r), ~Aside(r)
    PROVE  Closing(r)'
<1>0. /\ Typed /\ Closing(r) /\ mem \in [Requests -> Locals] /\ pc[r] \in DriverPlaces
  <2>1. pc[r] \in DriverPlaces
    BY DriverPlacesAre
       DEF Handle, Aside, FindWaiting, Answer, LoadInput, Submit, ReadExecutions, LoadOutputs,
           ResolveInputs, StartNode, MarkWaiting, MarkSucceeded, MarkFailed, LookAgain, FinishRead,
           FinishTask, FailRead, FailTask, FindCurrent, ClearRead, ClearDownstream, ReadView
  <2> QED BY <2>1, FinishedAre DEF Finished
<1>1. CASE FinishTask(r) \/ FindCurrent(r) \/ ClearRead(r)
  <2>1. pc'[r] \in {"done", "clear", "clear commit"}
    BY <1>0, <1>1, Went DEF FinishTask, FindCurrent, ClearRead, ReadView, Return
  <2> QED BY <2>1, ClosingElsewhere, DriverPlacesAre DEF RerunPlaces
<1>2. CASE ClearDownstream(r)
  <2>1. \E w : task' = [status |-> "running", view |-> w, finished |-> FALSE]
    BY <1>2 DEF ClearDownstream
  <2>2. task'.status = "running" /\ pc'[r] = "continue"
    BY <1>0, <1>2, <2>1, Went DEF ClearDownstream
  <2> QED BY <2>2 DEF Closing
<1>3. CASE ~FinishTask(r) /\ ~FindCurrent(r) /\ ~ClearRead(r) /\ ~ClearDownstream(r)
  <2>1. pc[r] \in DriverPlaces \ RerunPlaces
    BY <1>0, <1>3, DriverPlacesAre
       DEF Handle, Aside, FindWaiting, Answer, LoadInput, Submit, ReadExecutions, LoadOutputs,
           ResolveInputs, StartNode, MarkWaiting, MarkSucceeded, MarkFailed, LookAgain, FinishRead,
           FailRead, FailTask, ReadView, RerunPlaces
  <2>2. task'.status # "succeeded"
    BY <1>0, <1>3, <2>1, StatusMoves DEF Closing
  <2>3. CASE LoadOutputs(r)
    <3>1. UNCHANGED execs /\ pc'[r] # "finish commit"
      BY <1>0, <2>3, Went DEF LoadOutputs, Idle, Return, Raise, db
    <3> QED BY <2>2, <2>3, <3>1, IdleCloses DEF Closing
  <2>4. CASE FinishRead(r)
    <3>1. /\ pc[r] = "finish" /\ pc'[r] = "finish commit" /\ UNCHANGED execs
          /\ mem'[r].view = View("succeeded", execs, LatestOutputs(execs))
      BY <1>0, <2>4, Went DEF FinishRead, ReadView, Locals, db
    <3>2. View("succeeded", execs, LatestOutputs(execs)).final = LatestOutputs(execs)
      BY DEF View
    <3>3. mem'[r].view.final = LatestOutputs(execs)
      BY <3>1, <3>2
    <3> QED BY <1>0, <2>2, <3>1, <3>3 DEF Closing
  <2>5. CASE ~LoadOutputs(r) /\ ~FinishRead(r)
    <3>1. CASE \/ FindWaiting(r) \/ (\E v \in Outputs : Answer(r, v)) \/ LoadInput(r) \/ Submit(r)
               \/ ReadExecutions(r) \/ ResolveInputs(r) \/ StartNode(r) \/ LookAgain(r)
      <4>1. pc'[r] \in {"done", "load input", "answer", "continue", "submit", "run input", "fail",
                        "load outputs", "insert", "ask", "run", "resolve"}
        BY <1>0, <3>1, Went DEF FindWaiting, Answer, LoadInput, Submit, ReadExecutions,
                                ResolveInputs, StartNode, LookAgain, Return, Raise
      <4> QED BY <2>2, <4>1 DEF Closing
    <3>2. CASE \/ MarkWaiting(r) \/ (\E v \in Outputs : MarkSucceeded(r, v)) \/ MarkFailed(r)
               \/ FailRead(r) \/ FailTask(r)
      <4>1. pc'[r] \in {"done", "look", "continue", "fail commit"}
        BY <1>0, <3>2, Went DEF MarkWaiting, MarkSucceeded, MarkFailed, AfterMark, FailRead, FailTask,
                                ReadView, Return
      <4> QED BY <2>2, <4>1 DEF Closing
    <3> QED BY <1>3, <2>5, <3>1, <3>2 DEF Handle, Aside
  <2> QED BY <2>3, <2>4, <2>5
<1> QED BY <1>1, <1>2, <1>3

LEMMA HandleAttends ==
    ASSUME Finished, NEW r \in Requests, Handle(r), ~Aside(r)
    PROVE  Attended'
<1> DEFINE i == mem[r].exec
<1>0. /\ Typed /\ Remembers(r) /\ mem \in [Requests -> Locals] /\ execs \in Seq(Execution)
      /\ \A j \in DOMAIN execs : execs[j] \in Execution
  BY FinishedAre DEF Driven
<1>1. CASE MarkWaiting(r) \/ (\E v \in Outputs : MarkSucceeded(r, v)) \/ MarkFailed(r)
  <2>1. /\ pc[r] \in DriverPlaces /\ i \in DOMAIN execs /\ execs[i] \in Execution
    BY <1>0, <1>1, DriverPlacesAre DEF MarkWaiting, MarkSucceeded, MarkFailed, Remembers, HasRow
  <2>2. PICK row : execs' = [execs EXCEPT ![i] = row] /\ row.status # "running"
    <3>1. CASE MarkWaiting(r)
      <4> DEFINE row == [execs[i] EXCEPT !.status = "waiting", !.form = (pc[r] = "ask")]
      <4>1. execs' = [execs EXCEPT ![i] = row] /\ row.status = "waiting"
        BY <2>1, <3>1 DEF MarkWaiting, Execution
      <4> HIDE DEF row
      <4> QED BY <4>1
    <3>2. CASE \E v \in Outputs : MarkSucceeded(r, v)
      <4>0. PICK v \in Outputs : MarkSucceeded(r, v)
        BY <3>2
      <4> DEFINE row == [execs[i] EXCEPT !.status = "succeeded", !.output = v, !.form = FALSE]
      <4>1. execs' = [execs EXCEPT ![i] = row] /\ row.status = "succeeded"
        BY <2>1, <4>0 DEF MarkSucceeded, Execution
      <4> HIDE DEF row
      <4> QED BY <4>1
    <3>3. CASE MarkFailed(r)
      <4> DEFINE row == [execs[i] EXCEPT !.status = "failed"]
      <4>1. execs' = [execs EXCEPT ![i] = row] /\ row.status = "failed"
        BY <2>1, <3>3 DEF MarkFailed, Execution
      <4> HIDE DEF row
      <4> QED BY <4>1
    <3> QED BY <1>1, <3>1, <3>2, <3>3
  <2>3. \A j \in DOMAIN execs' : execs'[j].status # "running"
    BY <2>1, <2>2, RunsAlone
  <2> QED BY <2>3 DEF Attended
<1>2. CASE StartNode(r)
  <2>1. pc[r] \in DriverPlaces /\ pc[r] \notin RunPlaces
    BY <1>2, DriverPlacesAre DEF StartNode, RunPlaces
  <2>2. \A j \in DOMAIN execs : execs[j].status # "running"
    BY <2>1, RunsAlone
  <2>3. PICK row : execs' = Append(execs, row)
    BY <1>2 DEF StartNode
  <2>4. /\ DOMAIN execs' = DOMAIN execs \cup {Len(execs) + 1}
        /\ \A j \in DOMAIN execs : execs'[j] = execs[j]
    BY <1>0, <2>3, LenProperties, AppendProperties
  <2>5. pc'[r] \in RunPlaces /\ mem'[r].exec = Len(execs) + 1
    BY <1>0, <1>2, Went DEF StartNode, RunPlaces, Locals
  <2> QED BY <2>2, <2>4, <2>5 DEF Attended
<1>3. CASE Submit(r)
  <2>1. pc[r] \in DriverPlaces /\ pc[r] \notin RunPlaces
    BY <1>3, DriverPlacesAre DEF Submit, RunPlaces
  <2>2. \A j \in DOMAIN execs : execs[j].status # "running"
    BY <2>1, RunsAlone
  <2>3. DOMAIN execs' = DOMAIN execs /\ \A j \in DOMAIN execs : j # i => execs'[j] = execs[j]
    BY <1>3 DEF Submit
  <2>4. pc'[r] \in RunPlaces /\ mem'[r].exec = i
    BY <1>0, <1>3, Went DEF Submit, RunPlaces, NoMem
  <2> HIDE DEF i
  <2> QED BY <2>2, <2>3, <2>4 DEF Attended
<1>4. CASE \E v \in Outputs : Answer(r, v)
  <2>1. pc[r] \in DriverPlaces /\ pc[r] \notin RunPlaces
    BY <1>4, DriverPlacesAre DEF Answer, RunPlaces
  <2>2. \A j \in DOMAIN execs : execs[j].status # "running"
    BY <2>1, RunsAlone
  <2>3. \/ UNCHANGED execs
        \/ \E v \in Outputs, k \in DOMAIN execs :
              execs' = [execs EXCEPT ![k].status = "succeeded", ![k].output = v]
    BY <1>4 DEF Answer, db
  <2>4. ASSUME NEW v \in Outputs, NEW k \in DOMAIN execs,
               execs' = [execs EXCEPT ![k].status = "succeeded", ![k].output = v]
        PROVE  \A j \in DOMAIN execs' : execs'[j].status # "running"
    <3> DEFINE row == [execs[k] EXCEPT !.status = "succeeded", !.output = v]
    <3>1. execs' = [execs EXCEPT ![k] = row] /\ row.status = "succeeded"
      BY <1>0, <2>4 DEF Execution
    <3> HIDE DEF row
    <3> QED BY <2>2, <3>1
  <2> QED BY <2>2, <2>3, <2>4 DEF Attended
<1>5. CASE ClearDownstream(r)
  <2>1. pc[r] \in DriverPlaces /\ pc[r] \notin RunPlaces
    BY <1>5, DriverPlacesAre DEF ClearDownstream, RunPlaces
  <2>2. \A j \in DOMAIN execs : execs[j].status # "running"
    BY <2>1, RunsAlone
  <2>3. execs' = [j \in DOMAIN execs |->
                    IF j \in mem[r].doomed
                    THEN [execs[j] EXCEPT !.status = "superseded"] ELSE execs[j]]
    BY <1>5 DEF ClearDownstream
  <2>4. \A j \in DOMAIN execs : [execs[j] EXCEPT !.status = "superseded"].status = "superseded"
    BY <1>0 DEF Execution
  <2>5. \A j \in DOMAIN execs' : execs'[j].status # "running"
    BY <2>2, <2>3, <2>4
  <2> QED BY <2>5 DEF Attended
<1>6. CASE \/ FindWaiting(r) \/ LoadInput(r) \/ ReadExecutions(r) \/ LoadOutputs(r)
           \/ ResolveInputs(r) \/ LookAgain(r) \/ FinishRead(r) \/ FailRead(r)
           \/ FinishTask(r) \/ FailTask(r) \/ FindCurrent(r) \/ ClearRead(r)
  <2>1. pc[r] \in DriverPlaces /\ pc[r] \notin RunPlaces
    BY <1>6, DriverPlacesAre DEF FindWaiting, LoadInput, ReadExecutions, LoadOutputs, ResolveInputs,
         LookAgain, FinishRead, FailRead, FinishTask, FailTask, FindCurrent, ClearRead, ReadView, RunPlaces
  <2>2. \A j \in DOMAIN execs : execs[j].status # "running"
    BY <2>1, RunsAlone
  <2>3. UNCHANGED execs
    BY <1>6 DEF FindWaiting, LoadInput, ReadExecutions, LoadOutputs, ResolveInputs, LookAgain,
         FinishRead, FailRead, FinishTask, FailTask, FindCurrent, ClearRead, ReadView, db
  <2> QED BY <2>2, <2>3 DEF Attended
<1> QED BY <1>1, <1>2, <1>3, <1>4, <1>5, <1>6 DEF Handle, Aside

LEMMA HandleCompletes ==
    ASSUME Finished, NEW r \in Requests, Handle(r), ~Aside(r)
    PROVE  SucceededIsComplete'
<1>0. Typed /\ Closing(r)
  BY FinishedAre DEF Finished
<1>1. CASE FinishTask(r)
  <2>1. /\ task' = [status |-> "succeeded", view |-> mem[r].view, finished |-> TRUE]
        /\ UNCHANGED execs /\ pc[r] = "finish commit"
    BY <1>1 DEF FinishTask
  <2> QED BY <1>0, <2>1 DEF Closing, Complete, SucceededIsComplete
<1>2. CASE FindCurrent(r) \/ ClearRead(r)
  BY <1>2 DEF FindCurrent, ClearRead, ReadView, db, Finished, SucceededIsComplete
<1>3. CASE ClearDownstream(r)
  <2>1. \E w : task' = [status |-> "running", view |-> w, finished |-> FALSE]
    BY <1>3 DEF ClearDownstream
  <2> QED BY <2>1 DEF SucceededIsComplete
<1>4. CASE ~FinishTask(r) /\ ~FindCurrent(r) /\ ~ClearRead(r) /\ ~ClearDownstream(r)
  <2>1. pc[r] \in DriverPlaces \ RerunPlaces
    BY <1>4, DriverPlacesAre
       DEF Handle, Aside, FindWaiting, Answer, LoadInput, Submit, ReadExecutions, LoadOutputs,
           ResolveInputs, StartNode, MarkWaiting, MarkSucceeded, MarkFailed, LookAgain, FinishRead,
           FailRead, FailTask, ReadView, RerunPlaces
  <2>2. task'.status # "succeeded"
    BY <1>0, <1>4, <2>1, StatusMoves DEF Closing
  <2> QED BY <2>2 DEF SucceededIsComplete
<1> QED BY <1>1, <1>2, <1>3, <1>4

LEMMA AsideFinished ==
    ASSUME Finished, NEW r \in Requests, Aside(r)
    PROVE  /\ Attended' /\ SucceededIsComplete'
           /\ \A q \in Requests : Closing(q)'
<1>0. /\ Driven /\ Typed /\ SameRows /\ pc'[r] \notin DriverPlaces
      /\ \A q \in Requests \ {r} : pc'[q] = pc[q] /\ mem'[q] = mem[q] /\ req'[q] = req[q]
  BY FinishedAre, AsideSteps
<1>1. pc[r] \notin DriverPlaces
  BY DriverPlacesAre DEF Aside, MergeDraft, CommitDraft, ArchiveRead, ArchiveTask, ReadView
<1>2. Attended'
  <2> SUFFICES ASSUME NEW i \in DOMAIN execs', execs'[i].status = "running"
               PROVE  \E q \in Requests : pc'[q] \in RunPlaces /\ mem'[q].exec = i
    BY DEF Attended
  <2>1. i \in DOMAIN execs /\ execs[i].status = "running"
    BY <1>0 DEF SameRows
  <2>2. PICK q \in Requests : pc[q] \in RunPlaces /\ mem[q].exec = i
    BY <2>1 DEF Finished, Attended
  <2>3. q # r
    BY <1>1, <2>2, DriverPlacesAre DEF RunPlaces
  <2> QED BY <1>0, <2>2, <2>3
<1>3. CASE UNCHANGED execs /\ (UNCHANGED task \/ task'.status = "archived")
  <2>1. SucceededIsComplete'
    BY <1>3 DEF Finished, SucceededIsComplete
  <2>2. \A q \in Requests : Closing(q)'
    BY <1>0, <1>3, ClosingStill, ClosingElsewhere DEF Finished
  <2> QED BY <1>2, <2>1, <2>2
<1>4. CASE ~(UNCHANGED execs /\ (UNCHANGED task \/ task'.status = "archived"))
  <2>0. CommitDraft(r)
    <3>1. ASSUME ArchiveTask(r) PROVE FALSE
      <4>1. UNCHANGED execs /\ task'.status = "archived"
        BY <3>1 DEF ArchiveTask
      <4> QED BY <1>4, <4>1
    <3> QED BY <1>4, <3>1 DEF Aside, MergeDraft, ArchiveRead, ReadView, db
  <2>1. PICK i \in DOMAIN execs : /\ WaitingAt(execs, req[r].node) = {i}
                                  /\ task' = [task EXCEPT !.view = View("waiting", execs', NoOutputs)]
    BY <1>4, <2>0 DEF CommitDraft, db
  <2>2. execs[i].status = "waiting" /\ execs'[i].status = "waiting" /\ i \in DOMAIN execs'
    BY <1>0, <2>1 DEF WaitingAt, SameRows
  <2>3. ~Complete(execs) /\ task.status # "succeeded"
    BY <2>2 DEF Complete, Finished, SucceededIsComplete
  <2>4. task'.status = task.status
    <3>1. \E w : task' = [task EXCEPT !.view = w]
      BY <2>1
    <3> QED BY <3>1, FinishedAre
  <2>5. ASSUME NEW q \in Requests, q # r PROVE Closing(q)'
    BY <1>0, <2>3, <2>4, <2>5 DEF Finished, Closing
  <2> QED BY <1>0, <1>2, <2>3, <2>4, <2>5, ClosingElsewhere DEF SucceededIsComplete
<1> QED BY <1>3, <1>4

LEMMA CallFinished ==
    ASSUME Finished, Drivers \subseteq Exclusive, NEW r \in Requests, Call(r)
    PROVE  /\ Attended' /\ SucceededIsComplete'
           /\ \A q \in Requests : Closing(q)'
<1>0. /\ UNCHANGED execs /\ pc[r] = "new"
      /\ pc'[r] \in {"continue", "find waiting", "find draft", "find current", "archive"}
      /\ \A q \in Requests : pc'[q] \in DriverPlaces /\ q # r => pc'[q] = pc[q] /\ mem'[q] = mem[q]
  BY AloneCall, FinishedAre
     DEF Driven, Call, CreateTask, ResumeTask, RerunNode, SaveDraft, DeleteTask, Arrive
<1>t. pc \in [Requests -> Places] /\ mem \in [Requests -> Locals]
  BY FinishedAre
<1>1. \A q \in Requests : q # r => pc'[q] = pc[q] /\ mem'[q] = mem[q]
  BY <1>t DEF Call, CreateTask, ResumeTask, RerunNode, SaveDraft, DeleteTask, Arrive
<1>2. Attended'
  <2> SUFFICES ASSUME NEW i \in DOMAIN execs, execs[i].status = "running"
               PROVE  \E q \in Requests : pc'[q] \in RunPlaces /\ mem'[q].exec = i
    BY <1>0 DEF Attended
  <2>1. PICK q \in Requests : pc[q] \in RunPlaces /\ mem[q].exec = i
    BY DEF Finished, Attended
  <2>2. q # r
    BY <1>0, <2>1 DEF RunPlaces
  <2> QED BY <1>1, <2>1, <2>2
<1>3. UNCHANGED task \/ task'.status = "running"
  <2>1. CASE CreateTask(r)
    BY <2>1 DEF CreateTask
  <2>2. CASE ~CreateTask(r)
    BY <2>2 DEF Call, ResumeTask, RerunNode, SaveDraft, DeleteTask, db
  <2> QED BY <2>1, <2>2
<1>4. SucceededIsComplete'
  BY <1>0, <1>3 DEF Finished, SucceededIsComplete
<1>5. \A q \in Requests : q # r => Closing(q)'
  BY <1>0, <1>1, <1>3, ClosingStill DEF Finished
<1>6. Closing(r)'
  <2>1. CASE pc'[r] \in {"find draft", "find current", "archive"}
    BY <2>1, ClosingElsewhere, DriverPlacesAre DEF RerunPlaces
  <2>2. CASE pc'[r] \in {"continue", "find waiting"}
    <3>1. CreateTask(r) \/ \E n \in Nodes : ResumeTask(r, n)
      BY <1>t, <2>2 DEF Call, RerunNode, SaveDraft, DeleteTask, Arrive
    <3>2. task'.status # "succeeded"
      <4>1. CASE CreateTask(r)
        BY <4>1 DEF CreateTask
      <4>2. CASE \E n \in Nodes : ResumeTask(r, n)
        BY <4>2 DEF ResumeTask, db
      <4> QED BY <3>1, <4>1, <4>2
    <3> QED BY <2>2, <3>2 DEF Closing
  <2> QED BY <1>0, <2>1, <2>2
<1> QED BY <1>2, <1>4, <1>5, <1>6

LEMMA FinishedStep ==
    ASSUME Drivers \subseteq Exclusive, Finished, [Next]_vars
    PROVE  Finished'
<1>0. Scheduled'
  BY ScheduledStep DEF Finished
<1>1. ASSUME NEW r \in Requests, Handle(r) PROVE Finished'
  <2>1. CASE Aside(r)
    BY <1>0, <2>1, AsideFinished DEF Finished
  <2>2. CASE ~Aside(r)
    <3>1. \A q \in Requests \ {r} : pc'[q] \notin DriverPlaces
      BY <1>1, <2>2, DriverSteps, FinishedAre
    <3>2. \A q \in Requests \ {r} : Closing(q)'
      BY <3>1, ClosingElsewhere
    <3> QED BY <1>0, <1>1, <2>2, <3>2, HandleCloses, HandleAttends, HandleCompletes DEF Finished
  <2> QED BY <2>1, <2>2
<1>2. ASSUME NEW r \in Requests, Call(r) PROVE Finished'
  BY <1>0, <1>2, CallFinished DEF Finished
<1>3. CASE UNCHANGED vars
  BY <1>0, <1>3 DEF vars, Finished, Attended, SucceededIsComplete, Closing
<1> QED BY <1>1, <1>2, <1>3 DEF Next

LEMMA FinishedInit == Init => Finished
<1> SUFFICES ASSUME Init PROVE Finished
  OBVIOUS
<1>1. Attended /\ SucceededIsComplete
  BY DEF Init, Attended, SucceededIsComplete
<1>2. \A r \in Requests : Closing(r)
  BY DriverPlacesAre DEF Init, Closing
<1> QED BY <1>1, <1>2, ScheduledInit DEF Finished

\* As long as the process lives, success is never claimed too early: when
\* _finish_task has committed, every node the outputs activate has succeeded, no
\* execution runs, waits or has failed, and the final output is theirs.
THEOREM SucceededAlwaysComplete ==
    ASSUME Drivers \subseteq Exclusive
    PROVE  Spec => []SucceededIsComplete
<1>1. Init => Finished
  BY FinishedInit
<1>2. Finished /\ [Next]_vars => Finished'
  BY FinishedStep
<1>3. Finished => SucceededIsComplete
  BY DEF Finished
<1> QED BY <1>1, <1>2, <1>3, PTL DEF Spec

----------------------------------------------------------------------------
(* A task that says it is running, and that nobody runs.  A request leaves    *)
(* the loop beside something that waits or has failed, or because the rows    *)
(* let it go no further: what it chose it chose by outputs it read before,    *)
(* but nothing a chosen node reads has been added to them since.              *)

WorkingPlaces == {"continue", "load outputs", "resolve", "insert", "ask", "run", "run input",
                  "look", "finish", "finish commit", "fail", "fail commit"}

RerunOver == \E q \in Requests : pc[q] = "done" /\ req[q].kind = "rerun"
Reason == Stopped(execs) \/ (Blocked(execs) /\ RerunOver)
Minded == task.status = "running" => (\E r \in Requests : pc[r] \in WorkingPlaces) \/ Reason

\* The nodes a request has yet to start in this round.
Remaining(r) == IF pc[r] = "resolve" THEN mem[r].todo ELSE mem[r].todo \ {mem[r].node}

\* Every output the node depends on that is there now was there when outs was read.
UpToDate(n, outs) == Upstream(n) \cap Completed(LatestOutputs(execs)) \subseteq Completed(outs)

Leads(r) ==
    /\ pc[r] = "load outputs" /\ mem[r].waiting => Stopped(execs)
    /\ pc[r] = "look" => mem[r].exec \in DOMAIN execs
    /\ pc[r] \in WorkPlaces => \A n \in Remaining(r) : UpToDate(n, mem[r].outs)

Led == Scheduled /\ Minded /\ \A r \in Requests : Leads(r)

LEMMA LedAre ==
    ASSUME Led
    PROVE  /\ Scheduled /\ Driven /\ Typed /\ execs \in Seq(Execution) /\ Single(execs)
           /\ mem \in [Requests -> Locals] /\ pc \in [Requests -> Places]
           /\ task \in [status : Statuses, view : CurrentView, finished : BOOLEAN]
           /\ \A i \in DOMAIN execs : execs[i] \in Execution
BY ScheduledAre DEF Led, Typed, TypeOK, RowsOK

\* Rows that add no results but those of the nodes in K.
LEMMA NewResults ==
    ASSUME NEW es \in Seq(Execution), Single(es), NEW fs \in Seq(Execution), NEW K,
           \A i \in DOMAIN fs : fs[i].status = "succeeded" =>
               \/ fs[i].node \in K
               \/ i \in DOMAIN es /\ es[i].status = "succeeded" /\ es[i].node = fs[i].node
    PROVE  Completed(LatestOutputs(fs)) \subseteq Completed(LatestOutputs(es)) \cup K
<1> SUFFICES ASSUME NEW m \in Completed(LatestOutputs(fs)), m \notin K
             PROVE  m \in Completed(LatestOutputs(es))
  OBVIOUS
<1>1. m \in Nodes /\ Feeds(LatestOutputs(fs)[m].by, m, fs)
  BY OutsBacked DEF Completed, Backed
<1>2. Feeds(LatestOutputs(fs)[m].by, m, es)
  BY <1>1 DEF Feeds
<1>3. LatestOutputs(es)[m].by # 0
  <2> DEFINE j == LatestOutputs(fs)[m].by
  <2>1. j \in DOMAIN es /\ es[j].node = m /\ es[j].status = "succeeded"
    BY <1>2 DEF Feeds
  <2> HIDE DEF j
  <2>2. LatestOutputs(es)[m] = [by |-> j, val |-> es[j].output] /\ j # 0
    BY <1>1, <2>1, OutsAre
  <2> QED BY <2>2
<1> QED BY <1>1, <1>3 DEF Completed

\* What a step has to show: it goes on, or there is a reason to stop.
Goes(r) == task'.status # "running" \/ pc'[r] \in WorkingPlaces \/ Reason'
Proceeds(r) == Goes(r) /\ Leads(r)'

LEMMA LeadsElsewhere ==
    ASSUME NEW r \in Requests, pc'[r] \notin WorkPlaces \cup {"load outputs"}
    PROVE  Leads(r)'
BY DEF Leads, WorkPlaces

\* A request that is not working leaves nothing running without a reason.
LEMMA NotWorking ==
    ASSUME Led, NEW r \in Requests, pc[r] \in DriverPlaces, pc[r] \notin WorkingPlaces,
           Handle(r), UNCHANGED <<task, execs>>
    PROVE  Goes(r)
<1> SUFFICES ASSUME task.status = "running" PROVE Reason'
  BY DEF Goes
<1>1. ASSUME NEW q \in Requests, pc[q] \in WorkingPlaces PROVE FALSE
  <2>1. pc[q] \in DriverPlaces
    BY <1>1, DriverPlacesAre DEF WorkingPlaces
  <2> QED BY <1>1, <2>1, LedAre DEF Driven, Alone
<1>2. Reason
  BY <1>1 DEF Led, Minded
<1>3. RerunOver => RerunOver'
  <2> SUFFICES ASSUME NEW q \in Requests, pc[q] = "done", req[q].kind = "rerun" PROVE RerunOver'
    BY DEF RerunOver
  <2>1. q # r
    BY DriverPlacesAre
  <2>2. pc'[q] = pc[q] /\ req'[q] = req[q]
    BY <2>1, OthersStay, LedAre
  <2> QED BY <2>2 DEF RerunOver
<1> QED BY <1>2, <1>3 DEF Reason

----------------------------------------------------------------------------
(* The steps of the driving code.                                             *)

LEMMA SearchesLead ==
    ASSUME Led, NEW r \in Requests, Handle(r),
           FindWaiting(r) \/ LoadInput(r) \/ FindCurrent(r) \/ ClearRead(r)
    PROVE  Proceeds(r)
<1>1. pc[r] \in {"find waiting", "load input", "find current", "clear"} /\ UNCHANGED <<task, execs>>
  BY DEF FindWaiting, LoadInput, FindCurrent, ClearRead, ReadView, db
<1>2. Goes(r)
  BY <1>1, NotWorking, DriverPlacesAre DEF WorkingPlaces
<1>3. pc'[r] \in {"done", "answer", "load input", "submit", "clear", "clear commit"}
  BY LedAre, Went DEF FindWaiting, LoadInput, FindCurrent, ClearRead, ReadView, Return
<1> QED BY <1>2, <1>3, LeadsElsewhere DEF Proceeds, WorkPlaces

LEMMA ResumesLead ==
    ASSUME Led, NEW r \in Requests, Handle(r), Submit(r) \/ \E v \in Outputs : Answer(r, v)
    PROVE  Proceeds(r)
<1>1. CASE UNCHANGED <<task, execs>> /\ pc'[r] = "done" /\ pc[r] = "answer"
  BY <1>1, NotWorking, LeadsElsewhere, DriverPlacesAre DEF Proceeds, WorkingPlaces, WorkPlaces
<1>2. CASE pc'[r] \in {"continue", "run input"}
  BY <1>2, LeadsElsewhere DEF Proceeds, Goes, WorkingPlaces, WorkPlaces
<1> QED BY <1>1, <1>2, LedAre, Went DEF Submit, Answer, Return, db

LEMMA ReadExecutionsLeads ==
    ASSUME Led, NEW r \in Requests, Handle(r), ReadExecutions(r)
    PROVE  Proceeds(r)
<1>1. pc[r] = "continue" /\ UNCHANGED <<task, execs>>
  BY DEF ReadExecutions, db
<1>2. CASE AnyFailed(execs)
  <2>1. Reason'
    BY <1>1, <1>2 DEF Reason, Stopped, Stops, AnyFailed
  <2>2. pc'[r] = "done"
    BY <1>2, LedAre, Went DEF ReadExecutions, Return
  <2> QED BY <2>1, <2>2, LeadsElsewhere DEF Proceeds, Goes, WorkPlaces
<1>3. CASE ~AnyFailed(execs)
  <2> DEFINE some == \E i \in DOMAIN execs : execs[i].status = "waiting"
             S == StartedNodes(execs)
  <2>1. pc'[r] = "load outputs" /\ mem' = [mem EXCEPT ![r].started = S, ![r].waiting = some]
    BY <1>3, LedAre, Went DEF ReadExecutions
  <2>2. some => Stopped(execs')
    BY <1>1 DEF Stopped, Stops
  <2> HIDE DEF some, S
  <2>3. mem'[r].waiting = some
    BY <2>1, LedAre DEF Locals
  <2> QED BY <2>1, <2>2, <2>3 DEF Proceeds, Goes, Leads, WorkingPlaces, WorkPlaces
<1> QED BY <1>2, <1>3

\* An exception ends a rerun, and any other request goes on to say so.
LEMMA RaiseLeads ==
    ASSUME Led, NEW r \in Requests, Handle(r), Raise(r), UNCHANGED execs, Blocked(execs)
    PROVE  Proceeds(r)
<1>1. CASE req[r].kind = "rerun"
  <2>1. pc'[r] = "done" /\ req'[r].kind = "rerun"
    BY <1>1, LedAre, Went, HandleMoves DEF Raise, Return
  <2>2. RerunOver'
    BY <2>1 DEF RerunOver
  <2>3. Reason'
    BY <2>2 DEF Reason
  <2> QED BY <2>1, <2>3, LeadsElsewhere DEF Proceeds, Goes, WorkPlaces
<1>2. CASE req[r].kind # "rerun"
  <2>1. pc'[r] = "fail"
    BY <1>2, LedAre, Went DEF Raise
  <2> QED BY <2>1, LeadsElsewhere DEF Proceeds, Goes, WorkPlaces, WorkingPlaces
<1> QED BY <1>1, <1>2

LEMMA LoadOutputsLeads ==
    ASSUME Led, NEW r \in Requests, Handle(r), LoadOutputs(r)
    PROVE  Proceeds(r)
<1> DEFINE outs == LatestOutputs(execs)
           todo == ReadyNodes(outs, mem[r].started)
<1>1. pc[r] = "load outputs" /\ UNCHANGED <<task, execs>> /\ Leads(r)
  BY DEF LoadOutputs, db, Led
<1>2. CASE ActivationFails(outs) /\ Raise(r)
  <2>1. Blocked(execs)
    BY <1>2 DEF Blocked
  <2> QED BY <1>1, <1>2, <2>1, RaiseLeads
<1>3. CASE Idle(r)
  <2>1. CASE mem[r].waiting
    <3>1. Reason' /\ pc'[r] = "done"
      BY <1>1, <1>3, <2>1, LedAre, Went DEF Idle, Return, Leads, Reason
    <3> QED BY <3>1, LeadsElsewhere DEF Proceeds, Goes, WorkPlaces
  <2>2. CASE ~mem[r].waiting
    <3>1. pc'[r] = "finish"
      BY <1>3, <2>2, LedAre, Went DEF Idle
    <3> QED BY <3>1, LeadsElsewhere DEF Proceeds, Goes, WorkPlaces, WorkingPlaces
  <2> QED BY <2>1, <2>2
<1>4. CASE Goto(r, "resolve") /\ mem' = [mem EXCEPT ![r] = [NoMem EXCEPT !.outs = outs, !.todo = todo]]
  <2>1. pc'[r] = "resolve"
    BY <1>4, LedAre, Went
  <2>2. mem'[r].outs = outs
    <3> HIDE DEF outs, todo
    <3> QED BY <1>4, LedAre DEF NoMem
  <2>3. \A n : UpToDate(n, mem[r].outs)'
    BY <1>1, <2>2 DEF UpToDate
  <2> QED BY <2>1, <2>3 DEF Proceeds, Goes, Leads, WorkingPlaces, WorkPlaces
<1> QED BY <1>2, <1>3, <1>4 DEF LoadOutputs

\* A node that is due, and not started, is ready by the rows as they are.
LEMMA DueIsReady ==
    ASSUME NEW outs, NEW started, NEW n \in Nodes, Due(n, outs), n \notin started
    PROVE  n \in ReadyNodes(outs, started)
<1>1. n \in ActiveNodes(outs)
  BY DEF Due
<1>2. \E e \in Edges : e.to = n /\ <<e.from, n>> \in ActivePairs(outs)
  BY <1>1 DEF ActiveNodes, ActivePairs, ActiveEdges, Settled
<1>3. ASSUME NEW e \in Edges, e.to = n, e.from # START, e.from \notin Completed(outs),
             e.from \in ActiveNodes(outs) \cup PotentialNodes(outs)
      PROVE  FALSE
  <2>1. e.from \in Nodes /\ n \in Downstream[e.from]
    BY <1>3, EdgesAre, EdgeBelow
  <2>2. e.from \in Upstream(n) /\ e.from \in Pending(outs)
    BY <1>3, <2>1 DEF Upstream, Pending
  <2> QED BY <2>2 DEF Due
<1>4. NodeIsReady(n, outs)
  BY <1>2, <1>3 DEF NodeIsReady
<1> QED BY <1>1, <1>4 DEF ReadyNodes, Ready

LEMMA ResolveInputsLeads ==
    ASSUME Led, NEW r \in Requests, Handle(r), ResolveInputs(r)
    PROVE  Proceeds(r)
<1>0. /\ Remembers(r) /\ Intends(r) /\ Leads(r) /\ mem[r] \in Locals
      /\ pc[r] = "resolve" /\ UNCHANGED <<task, execs>>
  BY LedAre DEF ResolveInputs, db, Led, Scheduled, Driven
<1>1. PICK n \in mem[r].todo :
        IF Reads[n] \subseteq Completed(mem[r].outs)
        THEN /\ mem' = [mem EXCEPT ![r].node = n, ![r].attempt = NextAttempt(execs, n)]
             /\ Goto(r, "insert")
        ELSE Raise(r)
  BY DEF ResolveInputs
<1>2. n \in Nodes
  BY <1>0 DEF Locals
<1>3. UpToDate(n, mem[r].outs)
  BY <1>0 DEF Leads, Remaining, WorkPlaces
<1>4. CASE Reads[n] \subseteq Completed(mem[r].outs)
  <2>1. pc'[r] = "insert"
    BY <1>1, <1>4, LedAre, Went
  <2> DEFINE k == NextAttempt(execs, n)
  <2>2. mem' = [mem EXCEPT ![r].node = n, ![r].attempt = k]
    BY <1>1, <1>4
  <2> HIDE DEF k
  <2>3. mem'[r].todo = mem[r].todo /\ mem'[r].outs = mem[r].outs
    BY <1>0, <2>2, LedAre DEF Locals
  <2>4. \A m \in mem[r].todo : UpToDate(m, mem[r].outs)'
    BY <1>0, <2>3 DEF Leads, Remaining, WorkPlaces, UpToDate
  <2> QED BY <2>1, <2>3, <2>4 DEF Proceeds, Goes, Leads, Remaining, UpToDate, WorkingPlaces, WorkPlaces
<1>5. CASE ~(Reads[n] \subseteq Completed(mem[r].outs))
  <2> DEFINE now == LatestOutputs(execs)
  <2>1. Due(n, now) /\ n \notin StartedNodes(execs)
    BY <1>0 DEF Intends, Remembers, WorkPlaces
  <2>2. n \in ReadyNodes(now, StartedNodes(execs))
    BY <1>2, <2>1, DueIsReady
  <2>3. Reads[n] \subseteq Upstream(n)
    BY <1>2, ContractAssumption DEF ContractOK
  <2>4. ~(Reads[n] \subseteq Completed(now))
    BY <1>3, <1>5, <2>3 DEF UpToDate
  <2>5. Blocked(execs)
    BY <2>2, <2>4 DEF Blocked
  <2> QED BY <1>0, <1>1, <1>5, <2>5, RaiseLeads
<1> QED BY <1>4, <1>5

LEMMA StartNodeLeads ==
    ASSUME Led, execs' \in Seq(Execution), NEW r \in Requests, Handle(r), StartNode(r)
    PROVE  Proceeds(r)
<1> DEFINE n == mem[r].node
           row == [node |-> n, attempt |-> mem[r].attempt, status |-> "running",
                   form |-> FALSE, output |-> NoOutput,
                   uses |-> Uses(n, mem[r].outs), fields |-> {}]
<1>0. Leads(r) /\ pc[r] = "insert" /\ mem[r] \in Locals
  BY LedAre DEF StartNode, Led
<1>1. execs' = Append(execs, row) /\ row.status = "running"
  BY DEF StartNode
<1>2. pc'[r] \in {"ask", "run"}
  BY LedAre, Went DEF StartNode
<1> DEFINE i == Len(execs) + 1
<1>3. mem'[r].todo = mem[r].todo /\ mem'[r].outs = mem[r].outs /\ mem'[r].node = n
  BY <1>0, LedAre DEF StartNode, Locals
<1> HIDE DEF row, n
<1>4. \A j \in DOMAIN execs' : execs'[j].status = "succeeded" =>
          j \in DOMAIN execs /\ execs'[j] = execs[j]
  BY <1>1, LedAre, LenProperties, AppendProperties
<1>5. Completed(LatestOutputs(execs')) \subseteq Completed(LatestOutputs(execs))
  <2>1. Completed(LatestOutputs(execs')) \subseteq Completed(LatestOutputs(execs)) \cup {}
    BY <1>4, LedAre, NewResults
  <2> QED BY <2>1
<1>6. \A m \in mem[r].todo \ {n} : UpToDate(m, mem[r].outs)'
  BY <1>0, <1>3, <1>5 DEF Leads, Remaining, UpToDate, WorkPlaces, n
<1> QED BY <1>2, <1>3, <1>6 DEF Proceeds, Goes, Leads, Remaining, UpToDate, WorkingPlaces, WorkPlaces

\* The result of a node this round ran is no input of another one it chose.
LEMMA MarksLead ==
    ASSUME Led, execs' \in Seq(Execution), NEW r \in Requests, Handle(r),
           MarkWaiting(r) \/ (\E v \in Outputs : MarkSucceeded(r, v)) \/ MarkFailed(r)
    PROVE  Proceeds(r)
<1> DEFINE i == mem[r].exec
           k == execs[i].node
           now == LatestOutputs(execs)
<1>0. /\ Remembers(r) /\ Intends(r) /\ Leads(r) /\ mem[r] \in Locals
      /\ pc[r] \in {"ask", "run", "run input"} /\ OnTime(execs)
  BY LedAre DEF Led, Scheduled, Driven, MarkWaiting, MarkSucceeded, MarkFailed
<1>1. i \in DOMAIN execs /\ execs[i].status = "running" /\ execs[i] \in Execution /\ k \in Nodes
  BY <1>0, LedAre DEF Remembers, HasRow, Execution
<1>2. PICK row : execs' = [execs EXCEPT ![i] = row] /\ row.node = k
  <2>1. CASE MarkWaiting(r)
    <3> DEFINE row == [execs[i] EXCEPT !.status = "waiting", !.form = (pc[r] = "ask")]
    <3>1. execs' = [execs EXCEPT ![i] = row] /\ row.node = k
      BY <1>1, <2>1 DEF MarkWaiting, Execution
    <3> HIDE DEF row, k
    <3> QED BY <3>1
  <2>2. CASE \E v \in Outputs : MarkSucceeded(r, v)
    <3>1. PICK v \in Outputs : MarkSucceeded(r, v)
      BY <2>2
    <3> DEFINE row == [execs[i] EXCEPT !.status = "succeeded", !.output = v, !.form = FALSE]
    <3>2. execs' = [execs EXCEPT ![i] = row] /\ row.node = k
      BY <1>1, <3>1 DEF MarkSucceeded, Execution
    <3> HIDE DEF row, k
    <3> QED BY <3>2
  <2>3. CASE MarkFailed(r)
    <3> DEFINE row == [execs[i] EXCEPT !.status = "failed"]
    <3>1. execs' = [execs EXCEPT ![i] = row] /\ row.node = k
      BY <1>1, <2>3 DEF MarkFailed, Execution
    <3> HIDE DEF row, k
    <3> QED BY <3>1
  <2> QED BY <2>1, <2>2, <2>3
<1>3. DOMAIN execs' = DOMAIN execs /\ \A j \in DOMAIN execs : j # i => execs'[j] = execs[j]
  BY <1>2
<1>4. Completed(LatestOutputs(execs')) \subseteq Completed(now) \cup {k}
  <2>1. \A j \in DOMAIN execs' : execs'[j].status = "succeeded" =>
          \/ execs'[j].node \in {k}
          \/ j \in DOMAIN execs /\ execs[j].status = "succeeded" /\ execs[j].node = execs'[j].node
    <3> HIDE DEF k, i
    <3> QED BY <1>1, <1>2, <1>3
  <2> HIDE DEF k
  <2> QED BY <2>1, LedAre, NewResults
<1>5. k \in Pending(now)
  <2>1. Due(k, now)
    BY <1>0, <1>1 DEF OnTime, Live
  <2>2. k \notin Completed(now)
    <3> SUFFICES ASSUME k \in Completed(now) PROVE FALSE
      OBVIOUS
    <3>1. Feeds(now[k].by, k, execs)
      BY <1>1, LedAre, OutsBacked DEF Completed, Backed
    <3> QED BY <1>1, <3>1, LedAre DEF Feeds, Single, Live
  <2> QED BY <2>1, <2>2 DEF Due, Pending
<1>6. \/ pc'[r] \in {"done", "continue"}
      \/ pc[r] \in {"ask", "run"} /\ pc'[r] = "look" /\ mem' = mem
  BY <1>0, LedAre, Went DEF MarkWaiting, MarkSucceeded, MarkFailed, AfterMark
<1>7. Leads(r)'
  <2>1. CASE pc'[r] \in {"done", "continue"}
    BY <2>1, LeadsElsewhere DEF WorkPlaces
  <2>2. CASE pc[r] \in {"ask", "run"} /\ pc'[r] = "look" /\ mem' = mem
    <3>1. ASSUME NEW n \in Remaining(r) PROVE UpToDate(n, mem[r].outs)'
      <4>1. Due(n, now) /\ UpToDate(n, mem[r].outs)
        BY <1>0, <2>2, <3>1 DEF Intends, Leads, Remaining, WorkPlaces
      <4>2. k \notin Upstream(n)
        BY <1>5, <4>1 DEF Due
      <4> HIDE DEF k, now
      <4>3. Upstream(n) \cap Completed(LatestOutputs(execs')) \subseteq Completed(mem[r].outs)
        BY <1>4, <4>1, <4>2 DEF UpToDate, now
      <4> QED BY <2>2, <4>3 DEF UpToDate
    <3>2. Remaining(r)' = Remaining(r)
      BY <2>2 DEF Remaining
    <3>3. mem'[r].exec \in DOMAIN execs'
      BY <1>1, <1>3, <2>2
    <3> QED BY <2>2, <3>1, <3>2, <3>3 DEF Leads, UpToDate
  <2> QED BY <1>6, <2>1, <2>2
<1>8. Goes(r)
  <2>1. CASE MarkWaiting(r)
    <3>1. \E w : task' = [task EXCEPT !.status = "waiting", !.view = w]
      BY <2>1 DEF MarkWaiting
    <3> QED BY <3>1, LedAre DEF Goes
  <2>2. CASE MarkFailed(r)
    <3>1. \E w : task' = [status |-> "failed", view |-> w, finished |-> TRUE]
      BY <2>2 DEF MarkFailed
    <3> QED BY <3>1 DEF Goes
  <2>3. CASE \E v \in Outputs : MarkSucceeded(r, v)
    <3>1. pc'[r] \in {"look", "continue"}
      BY <2>3, LedAre, Went DEF MarkSucceeded, AfterMark
    <3> QED BY <3>1 DEF Goes, WorkingPlaces
  <2> QED BY <2>1, <2>2, <2>3
<1> QED BY <1>7, <1>8 DEF Proceeds

LEMMA LookAgainLeads ==
    ASSUME Led, NEW r \in Requests, Handle(r), LookAgain(r)
    PROVE  Proceeds(r)
<1> DEFINE rest == mem[r].todo \ {mem[r].node}
           outs == mem[r].outs
<1>1. pc[r] = "look" /\ UNCHANGED <<task, execs>> /\ Leads(r)
  BY DEF LookAgain, db, Led
<1>2. CASE execs[mem[r].exec].status \in Stops
  <2>1. Reason'
    BY <1>1, <1>2 DEF Leads, Reason, Stopped
  <2>2. pc'[r] = "done"
    BY <1>2, LedAre, Went DEF LookAgain, Return, Stops
  <2> QED BY <2>1, <2>2, LeadsElsewhere DEF Proceeds, Goes, WorkPlaces
<1>3. CASE execs[mem[r].exec].status \notin Stops /\ rest = {}
  <2>1. pc'[r] = "continue"
    BY <1>3, LedAre, Went DEF LookAgain, Stops
  <2> QED BY <2>1, LeadsElsewhere DEF Proceeds, Goes, WorkPlaces, WorkingPlaces
<1>4. CASE execs[mem[r].exec].status \notin Stops /\ rest # {}
  <2>1. pc'[r] = "resolve" /\ mem' = [mem EXCEPT ![r] = [NoMem EXCEPT !.outs = outs, !.todo = rest]]
    BY <1>4, LedAre, Went DEF LookAgain, Stops
  <2>2. mem'[r].todo = rest /\ mem'[r].outs = outs
    <3> HIDE DEF rest, outs
    <3> QED BY <2>1, LedAre DEF NoMem
  <2>3. \A n \in rest : UpToDate(n, outs)
    BY <1>1 DEF Leads, Remaining, WorkPlaces
  <2>4. Remaining(r)' = rest
    BY <2>1, <2>2 DEF Remaining
  <2> QED BY <1>1, <2>1, <2>2, <2>3, <2>4 DEF Proceeds, Goes, Leads, UpToDate, WorkingPlaces, WorkPlaces
<1> QED BY <1>2, <1>3, <1>4

LEMMA EndsLead ==
    ASSUME Led, NEW r \in Requests, Handle(r),
           FinishRead(r) \/ FinishTask(r) \/ FailRead(r) \/ FailTask(r) \/ ClearDownstream(r)
    PROVE  Proceeds(r)
<1>1. pc'[r] \in {"finish commit", "fail commit", "done", "continue"}
  BY LedAre, Went DEF FinishRead, FinishTask, FailRead, FailTask, ClearDownstream, ReadView, Return
<1>2. CASE pc'[r] = "done"
  <2>1. task'.status \in {"succeeded", "failed"}
    <3>1. FinishTask(r) \/ FailTask(r)
      BY <1>2, LedAre, Went DEF FinishRead, FailRead, ClearDownstream, ReadView
    <3>2. \/ task.status = "failed" /\ UNCHANGED task
          \/ \E st \in {"succeeded", "failed"} : \E w : task' = [status |-> st, view |-> w, finished |-> TRUE]
      BY <3>1 DEF FinishTask, FailTask
    <3> QED BY <3>2
  <2> QED BY <1>1, <2>1, LeadsElsewhere DEF Proceeds, Goes, WorkPlaces
<1>3. CASE pc'[r] # "done"
  BY <1>1, <1>3, LeadsElsewhere DEF Proceeds, Goes, WorkPlaces, WorkingPlaces
<1> QED BY <1>2, <1>3

----------------------------------------------------------------------------
(* The other requests, and the steps aside.                                   *)

LEMMA OthersLed ==
    ASSUME Led, execs' \in Seq(Execution), SameRows, NEW q \in Requests,
           pc'[q] = pc[q], mem'[q] = mem[q]
    PROVE  Leads(q)'
<1>0. Leads(q)
  BY DEF Led
<1>1. Stopped(execs) => Stopped(execs')
  BY DEF SameRows, Stopped
<1>2. Completed(LatestOutputs(execs')) \subseteq Completed(LatestOutputs(execs))
  <2>1. \A i \in DOMAIN execs' : execs'[i].status = "succeeded" =>
          i \in DOMAIN execs /\ execs[i].status = "succeeded" /\ execs[i].node = execs'[i].node
    BY DEF SameRows
  <2>2. Completed(LatestOutputs(execs')) \subseteq Completed(LatestOutputs(execs)) \cup {}
    BY <2>1, LedAre, NewResults
  <2> QED BY <2>2
<1>3. Remaining(q)' = Remaining(q)
  BY DEF Remaining
<1>4. \A n : UpToDate(n, mem[q].outs) => UpToDate(n, mem[q].outs)'
  BY <1>2 DEF UpToDate
<1> QED BY <1>0, <1>1, <1>3, <1>4 DEF Leads, UpToDate, SameRows

\* A step of a request that does not drive, or a call.
LEMMA MindedStill ==
    ASSUME Led, NEW r \in Requests, pc[r] \notin WorkingPlaces \cup {"done"},
           \A q \in Requests \ {r} : pc'[q] = pc[q] /\ req'[q] = req[q],
           \/ task'.status # "running"
           \/ task'.status = task.status /\ (UNCHANGED execs \/ Stopped(execs'))
    PROVE  Minded'
<1> SUFFICES ASSUME task'.status = "running",
                    \A q \in Requests : pc'[q] \notin WorkingPlaces
             PROVE  Reason'
  BY DEF Minded
<1>1. CASE Stopped(execs')
  BY <1>1 DEF Reason
<1>2. CASE UNCHANGED execs /\ task'.status = task.status
  <2>1. Reason
    BY <1>2 DEF Led, Minded
  <2>2. RerunOver => RerunOver'
    BY DEF RerunOver
  <2> QED BY <1>2, <2>1, <2>2 DEF Reason
<1> QED BY <1>1, <1>2

LEMMA AsideLed ==
    ASSUME Led, execs' \in Seq(Execution), NEW r \in Requests, Aside(r)
    PROVE  Minded' /\ \A q \in Requests : Leads(q)'
<1>0. /\ SameRows /\ pc'[r] \notin DriverPlaces
      /\ \A q \in Requests \ {r} : pc'[q] = pc[q] /\ mem'[q] = mem[q] /\ req'[q] = req[q]
  BY AsideSteps, LedAre
<1>1. pc[r] \in {"find draft", "save draft", "archive", "archive commit"}
  BY DEF Aside, MergeDraft, CommitDraft, ArchiveRead, ArchiveTask, ReadView
<1>2. \/ task'.status # "running"
      \/ task'.status = task.status /\ (UNCHANGED execs \/ Stopped(execs'))
  <2>1. task'.status # "running" \/ task'.status = task.status
    BY AsideStatus, LedAre
  <2>2. UNCHANGED execs \/ Stopped(execs')
    <3>1. CASE CommitDraft(r)
      <4>1. UNCHANGED execs \/ \E i \in DOMAIN execs : WaitingAt(execs, req[r].node) = {i}
        BY <3>1 DEF CommitDraft, db
      <4>2. ASSUME NEW i \in WaitingAt(execs, req[r].node) PROVE Stopped(execs')
        BY <1>0 DEF WaitingAt, SameRows, Stopped, Stops
      <4> QED BY <4>1, <4>2
    <3>2. CASE MergeDraft(r) \/ ArchiveRead(r) \/ ArchiveTask(r)
      BY <3>2 DEF MergeDraft, ArchiveRead, ArchiveTask, ReadView, db
    <3> QED BY <3>1, <3>2 DEF Aside
  <2> QED BY <2>1, <2>2
<1>3. Minded'
  BY <1>0, <1>1, <1>2, MindedStill DEF WorkingPlaces
<1>4. Leads(r)'
  BY <1>0, LeadsElsewhere, DriverPlacesAre DEF WorkPlaces
<1> QED BY <1>0, <1>3, <1>4, OthersLed

LEMMA CallLed ==
    ASSUME Drivers \subseteq Exclusive, Led, execs' \in Seq(Execution), NEW r \in Requests, Call(r)
    PROVE  Minded' /\ \A q \in Requests : Leads(q)'
<1>0. /\ UNCHANGED execs /\ SameRows /\ pc[r] = "new"
      /\ pc'[r] \in {"continue", "find waiting", "find draft", "find current", "archive"}
      /\ \A q \in Requests \ {r} : pc'[q] = pc[q] /\ mem'[q] = mem[q] /\ req'[q] = req[q]
  <2>1. UNCHANGED execs /\ pc[r] = "new"
    BY DEF Call, CreateTask, ResumeTask, RerunNode, SaveDraft, DeleteTask, Arrive, db
  <2> QED BY <2>1, LedAre, AloneCall, OthersStay DEF Driven, SameRows
<1>1. Minded'
  <2>1. CASE CreateTask(r)
    <3>1. pc'[r] = "continue"
      BY <2>1, LedAre DEF CreateTask, Arrive
    <3> QED BY <3>1 DEF Minded, WorkingPlaces
  <2>2. CASE ~CreateTask(r)
    <3>1. UNCHANGED task
      BY <2>2 DEF Call, ResumeTask, RerunNode, SaveDraft, DeleteTask, db
    <3> QED BY <1>0, <3>1, MindedStill DEF WorkingPlaces
  <2> QED BY <2>1, <2>2
<1>2. Leads(r)'
  BY <1>0, LeadsElsewhere DEF WorkPlaces
<1> QED BY <1>0, <1>1, <1>2, OthersLed

LEMMA LedStep ==
    ASSUME Drivers \subseteq Exclusive, Led, [Next]_vars
    PROVE  Led'
<1>0. Scheduled' /\ execs' \in Seq(Execution)
  BY ScheduledStep DEF Led, Scheduled, Telling, Shown, Driven, Typed, TypeOK, RowsOK
<1>1. ASSUME NEW r \in Requests, Handle(r), ~Aside(r) PROVE Led'
  <2>1. Proceeds(r)
    BY <1>0, <1>1, SearchesLead, ResumesLead, ReadExecutionsLeads, LoadOutputsLeads,
       ResolveInputsLeads, StartNodeLeads, MarksLead, LookAgainLeads, EndsLead DEF Handle, Aside
  <2>2. \A q \in Requests \ {r} : pc'[q] \notin DriverPlaces
    BY <1>1, DriverSteps, LedAre
  <2>3. \A q \in Requests \ {r} : Leads(q)'
    BY <2>2, LeadsElsewhere, DriverPlacesAre DEF WorkPlaces
  <2>4. Minded'
    BY <2>1 DEF Proceeds, Goes, Minded
  <2> QED BY <1>0, <2>1, <2>3, <2>4 DEF Led, Proceeds
<1>2. ASSUME NEW r \in Requests, Aside(r) PROVE Led'
  BY <1>0, <1>2, AsideLed DEF Led
<1>3. ASSUME NEW r \in Requests, Call(r) PROVE Led'
  BY <1>0, <1>3, CallLed DEF Led
<1>4. CASE UNCHANGED vars
  BY <1>0, <1>4 DEF vars, Led, Minded, Reason, RerunOver, Leads, Remaining, UpToDate
<1> QED BY <1>1, <1>2, <1>3, <1>4 DEF Next

\* As long as the process lives, a task that says it is running while nobody runs
\* it stands beside a node that waits or has failed, or was left by a rerun whose
\* loop the rows stopped: whatever is rerun, and whatever drafts and deletions
\* come in between, no request leaves the loop while it could have gone on, and
\* only a rerun lets an exception through.
THEOREM StuckOnlyForAReason ==
    ASSUME Drivers \subseteq Exclusive
    PROVE  Spec => []StuckForAReason
<1>1. Init => Led
  <2> SUFFICES ASSUME Init PROVE Led
    OBVIOUS
  <2>1. Minded /\ \A r \in Requests : Leads(r)
    BY DEF Init, Minded, Leads, WorkPlaces
  <2> QED BY <2>1, ScheduledInit DEF Led
<1>2. Led /\ [Next]_vars => Led'
  BY LedStep
<1>3. Led => StuckForAReason
  <2> SUFFICES ASSUME Led, NoDriver, task.status = "running" PROVE Reason
    BY DEF StuckForAReason, Reason, RerunOver
  <2>1. ASSUME NEW r \in Requests, pc[r] \in WorkingPlaces PROVE FALSE
    <3>1. pc[r] \in DriverPlaces
      BY <2>1, DriverPlacesAre DEF WorkingPlaces
    <3>2. req[r].kind \in Drivers /\ InFlight(r)
      BY <3>1, LedAre, DriverPlacesAre DEF Driven, Alone, InFlight
    <3> QED BY <3>2 DEF NoDriver
  <2> QED BY <2>1 DEF Led, Minded
<1> QED BY <1>1, <1>2, <1>3, PTL DEF Spec

----------------------------------------------------------------------------
(* The view the task row carries, when nothing but drafts overlaps with the   *)
(* one request that drives or deletes.  The row lags behind only while it     *)
(* says running: every step that sets another status writes the view anew,    *)
(* and a view read before the commit is still the one the executions give.    *)

BusyPlaces == DriverPlaces \cup DeletePlaces

Lone ==
    /\ \A q, r \in Requests : pc[q] \in BusyPlaces /\ pc[r] \in BusyPlaces => q = r
    /\ \A r \in Requests : pc[r] \in BusyPlaces => req[r].kind \in Drivers \cup {"delete"}

Active(es) == LatestByNode(es, {"succeeded", "waiting"})
DraftLast == events # <<>> /\ events[Len(events)].type = "node_draft_saved"

Right ==
    task.status # "running" =>
        /\ task.view.active = Active(execs)
        /\ task.view.status = task.status \/ (task.view.status = "waiting" /\ DraftLast)
Ended == task.finished <=> task.status \in {"succeeded", "failed", "archived"}

ResumingPlaces == {"find waiting", "answer", "load input", "submit"}
CommitPlaces == {"finish commit", "fail commit", "archive commit"}

\* What a request takes the status to be, and the view it is about to write.
Views(r) ==
    /\ pc[r] \in ResumingPlaces => task.status = "waiting"
    /\ pc[r] \in WorkingPlaces \ {"look"} => task.status = "running"
    /\ pc[r] = "look" =>
        /\ mem[r].exec \in DOMAIN execs
        /\ execs[mem[r].exec].status \notin Stops => task.status = "running"
    /\ pc[r] = "finish commit" => mem[r].view.status = "succeeded"
    /\ pc[r] = "fail commit" => mem[r].view.status = "failed"
    /\ pc[r] = "archive commit" => mem[r].view.status = "archived"
    /\ pc[r] \in CommitPlaces => mem[r].view.active = Active(execs)

Viewed == Driven /\ Lone /\ Right /\ Ended /\ \A r \in Requests : Views(r)

LEMMA ViewedAre ==
    ASSUME Viewed
    PROVE  /\ Driven /\ Typed /\ events \in Seq(EventRow)
           /\ mem \in [Requests -> Locals] /\ pc \in [Requests -> Places]
           /\ task \in [status : Statuses, view : CurrentView, finished : BOOLEAN]
           /\ \A i \in DOMAIN execs : execs[i] \in Execution
<1>1. Typed /\ execs \in Seq(Execution)
  BY DEF Viewed, Driven, Typed, TypeOK, RowsOK
<1>2. \A i \in DOMAIN execs : execs[i] \in Execution
  BY <1>1, ElementOfSeq, LenProperties
<1> QED BY <1>1, <1>2 DEF Viewed, Typed, TypeOK, RowsOK, RequestsOK

\* What a step of the busy request has to show.
Sees(r) == Right' /\ Ended' /\ Views(r)'

LEMMA ViewIs ==
    ASSUME NEW status, NEW es, NEW final
    PROVE  View(status, es, final).status = status /\ View(status, es, final).active = Active(es)
BY DEF View, Active

LEMMA ViewsElsewhere ==
    ASSUME NEW r \in Requests,
           pc'[r] \notin WorkingPlaces \cup ResumingPlaces \cup CommitPlaces
    PROVE  Views(r)'
BY DEF Views, WorkingPlaces, CommitPlaces

\* The view a request read, for its commit.
LEMMA ViewRead ==
    ASSUME Viewed, NEW r \in Requests, NEW from, NEW to, NEW status, NEW final,
           ReadView(r, from, to, status, final)
    PROVE  /\ pc[r] = from /\ pc'[r] = to /\ UNCHANGED <<task, execs, events>>
           /\ mem'[r].view.status = status /\ mem'[r].view.active = Active(execs)
<1> DEFINE w == View(status, execs, final)
<1>1. w.status = status /\ w.active = Active(execs)
  BY ViewIs
<1>2. mem' = [mem EXCEPT ![r].view = w]
  BY DEF ReadView
<1> HIDE DEF w
<1>3. mem'[r].view = w
  BY <1>2, ViewedAre DEF Locals
<1>4. pc[r] = from /\ pc'[r] = to /\ UNCHANGED <<task, execs, events>>
  BY Went, ViewedAre DEF ReadView, db
<1> QED BY <1>1, <1>3, <1>4

\* A row that says running owes nothing to its view.
LEMMA RunsOn ==
    ASSUME Viewed, task'.status = "running", ~task'.finished
    PROVE  Right' /\ Ended'
BY DEF Right, Ended

LEMMA NothingWritten ==
    ASSUME Viewed, UNCHANGED <<task, execs, events>>
    PROVE  Right' /\ Ended'
BY DEF Viewed, Right, Ended, DraftLast

----------------------------------------------------------------------------
LEMMA LooksSee ==
    ASSUME Viewed, NEW r \in Requests,
           FindWaiting(r) \/ LoadInput(r) \/ FindCurrent(r) \/ ClearRead(r) \/ ArchiveRead(r)
    PROVE  Sees(r)
<1>1. UNCHANGED <<task, execs, events>>
  BY DEF FindWaiting, LoadInput, FindCurrent, ClearRead, ArchiveRead, ReadView, db
<1>2. Right' /\ Ended'
  BY <1>1, NothingWritten
<1>3. CASE FindWaiting(r) \/ LoadInput(r)
  <2>1. task.status = "waiting"
    BY <1>3 DEF FindWaiting, LoadInput, Viewed, Views, ResumingPlaces
  <2>2. pc'[r] \in {"done", "answer", "load input", "submit"}
    BY <1>3, ViewedAre, Went DEF FindWaiting, LoadInput, Return
  <2> QED BY <1>1, <1>2, <2>1, <2>2 DEF Sees, Views, WorkingPlaces, CommitPlaces
<1>4. CASE FindCurrent(r) \/ ClearRead(r)
  <2>1. pc'[r] \in {"clear", "clear commit"}
    BY <1>4, ViewedAre, Went DEF FindCurrent, ClearRead, ReadView
  <2> QED BY <1>2, <2>1, ViewsElsewhere DEF Sees, WorkingPlaces, ResumingPlaces, CommitPlaces
<1>5. CASE ArchiveRead(r)
  <2>1. /\ pc'[r] = "archive commit"
        /\ mem'[r].view.status = "archived" /\ mem'[r].view.active = Active(execs)
    BY <1>5, ViewRead DEF ArchiveRead
  <2> QED BY <1>1, <1>2, <2>1 DEF Sees, Views, WorkingPlaces, ResumingPlaces
<1> QED BY <1>3, <1>4, <1>5

LEMMA LoopSees ==
    ASSUME Viewed, NEW r \in Requests,
           ReadExecutions(r) \/ LoadOutputs(r) \/ ResolveInputs(r) \/ StartNode(r)
    PROVE  Sees(r)
<1>1. pc[r] \in {"continue", "load outputs", "resolve", "insert"} /\ UNCHANGED task
  BY DEF ReadExecutions, LoadOutputs, ResolveInputs, StartNode, db
<1>2. task.status = "running" /\ ~task.finished
  BY <1>1 DEF Viewed, Views, WorkingPlaces, Ended
<1>3. pc'[r] \in {"done", "load outputs", "finish", "fail", "resolve", "insert", "ask", "run"}
  BY ViewedAre, Went DEF ReadExecutions, LoadOutputs, ResolveInputs, StartNode, Idle, Raise, Return
<1>4. Right' /\ Ended'
  BY <1>1, <1>2, RunsOn
<1> QED BY <1>1, <1>2, <1>3, <1>4 DEF Sees, Views, WorkingPlaces, ResumingPlaces, CommitPlaces

LEMMA LookAgainSees ==
    ASSUME Viewed, NEW r \in Requests, LookAgain(r)
    PROVE  Sees(r)
<1>1. pc[r] = "look" /\ UNCHANGED <<task, execs, events>>
  BY DEF LookAgain, db
<1>2. Right' /\ Ended'
  BY <1>1, NothingWritten
<1>3. CASE execs[mem[r].exec].status \in Stops
  <2>1. pc'[r] = "done"
    BY <1>3, ViewedAre, Went DEF LookAgain, Return, Stops
  <2> QED BY <1>2, <2>1, ViewsElsewhere DEF Sees, WorkingPlaces, ResumingPlaces, CommitPlaces
<1>4. CASE execs[mem[r].exec].status \notin Stops
  <2>1. task'.status = "running"
    BY <1>1, <1>4 DEF Viewed, Views
  <2>2. pc'[r] \in {"continue", "resolve"}
    BY <1>4, ViewedAre, Went DEF LookAgain, Stops
  <2> QED BY <1>2, <2>1, <2>2 DEF Sees, Views, WorkingPlaces, ResumingPlaces, CommitPlaces
<1> QED BY <1>3, <1>4

LEMMA EndReadsSee ==
    ASSUME Viewed, NEW r \in Requests, FinishRead(r) \/ FailRead(r)
    PROVE  Sees(r)
<1>1. \/ pc[r] = "finish" /\ pc'[r] = "finish commit" /\ mem'[r].view.status = "succeeded"
      \/ pc[r] = "fail" /\ pc'[r] = "fail commit" /\ mem'[r].view.status = "failed"
  BY ViewRead DEF FinishRead, FailRead
<1>2. UNCHANGED <<task, execs, events>> /\ mem'[r].view.active = Active(execs)
  BY ViewRead DEF FinishRead, FailRead
<1>3. task'.status = "running"
  BY <1>1, <1>2 DEF Viewed, Views, WorkingPlaces
<1>4. Right' /\ Ended'
  BY <1>2, NothingWritten
<1> QED BY <1>1, <1>2, <1>3, <1>4 DEF Sees, Views, WorkingPlaces, ResumingPlaces, CommitPlaces

LEMMA ResumesSee ==
    ASSUME Viewed, NEW r \in Requests, Submit(r) \/ \E v \in Outputs : Answer(r, v)
    PROVE  Sees(r)
<1>1. pc[r] \in {"answer", "submit"}
  BY DEF Answer, Submit
<1>2. task.status = "waiting" /\ ~task.finished
  BY <1>1 DEF Viewed, Views, ResumingPlaces, Ended
<1>3. CASE UNCHANGED <<task, execs, events>> /\ pc'[r] = "done"
  BY <1>3, NothingWritten, ViewsElsewhere DEF Sees, WorkingPlaces, ResumingPlaces, CommitPlaces
<1>4. CASE ~(UNCHANGED <<task, execs, events>> /\ pc'[r] = "done")
  <2>1. \E w : task' = [task EXCEPT !.status = "running", !.view = w]
    BY <1>4, ViewedAre, Went DEF Answer, Submit, Return, db
  <2>2. task'.status = "running" /\ task'.finished = task.finished
    BY <2>1, ViewedAre
  <2>3. pc'[r] \in {"continue", "run input"}
    BY <1>4, ViewedAre, Went DEF Answer, Submit, Return, db
  <2> QED BY <1>2, <2>2, <2>3, RunsOn DEF Sees, Views, WorkingPlaces, ResumingPlaces, CommitPlaces
<1> QED BY <1>3, <1>4

LEMMA MarksSee ==
    ASSUME Viewed, NEW r \in Requests,
           MarkWaiting(r) \/ (\E v \in Outputs : MarkSucceeded(r, v)) \/ MarkFailed(r)
    PROVE  Sees(r)
<1> DEFINE i == mem[r].exec
<1>1. pc[r] \in {"ask", "run", "run input"}
  BY DEF MarkWaiting, MarkSucceeded, MarkFailed
<1>2. task.status = "running" /\ ~task.finished
  BY <1>1 DEF Viewed, Views, WorkingPlaces, Ended
<1>3. i \in DOMAIN execs /\ execs[i] \in Execution /\ DOMAIN execs' = DOMAIN execs
  BY <1>1, ViewedAre DEF Driven, Remembers, HasRow, MarkWaiting, MarkSucceeded, MarkFailed
<1>4. CASE MarkWaiting(r) \/ MarkFailed(r)
  <2>1. Right' /\ Ended'
    <3>1. CASE MarkWaiting(r)
      <4> DEFINE w == View("waiting", execs', NoOutputs)
      <4>1. w.status = "waiting" /\ w.active = Active(execs')
        BY ViewIs
      <4>2. task' = [task EXCEPT !.status = "waiting", !.view = w]
        BY <3>1 DEF MarkWaiting
      <4> HIDE DEF w
      <4>3. task'.status = "waiting" /\ task'.view = w /\ task'.finished = task.finished
        BY <4>2, ViewedAre
      <4> QED BY <1>2, <4>1, <4>3 DEF Right, Ended
    <3>2. CASE MarkFailed(r)
      <4> DEFINE w == View("failed", execs', NoOutputs)
      <4>1. w.status = "failed" /\ w.active = Active(execs')
        BY ViewIs
      <4>2. task' = [status |-> "failed", view |-> w, finished |-> TRUE]
        BY <3>2 DEF MarkFailed
      <4> HIDE DEF w
      <4> QED BY <4>1, <4>2 DEF Right, Ended
    <3> QED BY <1>4, <3>1, <3>2
  <2>2. \/ pc'[r] = "done"
        \/ pc'[r] = "look" /\ mem'[r].exec = i
    BY <1>4, ViewedAre, Went DEF MarkWaiting, MarkFailed, AfterMark
  <2>3. execs'[i].status \in Stops
    <3>1. CASE MarkWaiting(r)
      BY <1>3, <3>1 DEF MarkWaiting, Execution, Stops
    <3>2. CASE MarkFailed(r)
      BY <1>3, <3>2 DEF MarkFailed, Execution, Stops
    <3> QED BY <1>4, <3>1, <3>2
  <2> QED BY <1>3, <2>1, <2>2, <2>3 DEF Sees, Views, WorkingPlaces, ResumingPlaces, CommitPlaces
<1>5. CASE \E v \in Outputs : MarkSucceeded(r, v)
  <2>0. PICK v \in Outputs : MarkSucceeded(r, v)
    BY <1>5
  <2>1. UNCHANGED task
    BY <2>0 DEF MarkSucceeded
  <2>2. \/ pc'[r] = "continue"
        \/ pc'[r] = "look" /\ mem'[r].exec = i
    BY <2>0, ViewedAre, Went DEF MarkSucceeded, AfterMark
  <2>3. Right' /\ Ended'
    BY <1>2, <2>1, RunsOn
  <2> QED BY <1>2, <1>3, <2>1, <2>2, <2>3 DEF Sees, Views, WorkingPlaces, ResumingPlaces, CommitPlaces
<1> QED BY <1>4, <1>5

LEMMA CommitsSee ==
    ASSUME Viewed, NEW r \in Requests, FinishTask(r) \/ FailTask(r) \/ ArchiveTask(r)
    PROVE  Sees(r)
<1>1. pc[r] \in CommitPlaces /\ UNCHANGED execs
  BY DEF FinishTask, FailTask, ArchiveTask, CommitPlaces
<1>2. pc'[r] = "done"
  BY ViewedAre, Went DEF FinishTask, FailTask, ArchiveTask, Return
<1>3. mem[r].view.active = Active(execs) /\ Views(r)
  BY <1>1 DEF Viewed, Views
<1>4. \E st \in {"succeeded", "failed", "archived"} :
          /\ task' = [status |-> st, view |-> mem[r].view, finished |-> TRUE]
          /\ mem[r].view.status = st
  <2>1. CASE FinishTask(r)
    BY <1>3, <2>1 DEF FinishTask, Views
  <2>2. CASE FailTask(r)
    <3>1. task.status = "running" /\ mem[r].view.status = "failed"
      BY <1>3, <2>2 DEF FailTask, Views, WorkingPlaces
    <3> QED BY <2>2, <3>1 DEF FailTask
  <2>3. CASE ArchiveTask(r)
    BY <1>3, <2>3 DEF ArchiveTask, Views
  <2> QED BY <2>1, <2>2, <2>3
<1>5. Right' /\ Ended'
  BY <1>1, <1>3, <1>4 DEF Right, Ended
<1> QED BY <1>2, <1>5, ViewsElsewhere DEF Sees, WorkingPlaces, ResumingPlaces, CommitPlaces

LEMMA ClearSees ==
    ASSUME Viewed, NEW r \in Requests, ClearDownstream(r)
    PROVE  Sees(r)
<1>1. \E w : task' = [status |-> "running", view |-> w, finished |-> FALSE]
  BY DEF ClearDownstream
<1>2. task'.status = "running" /\ ~task'.finished
  BY <1>1
<1>3. pc'[r] = "continue"
  BY Went, ViewedAre DEF ClearDownstream
<1> QED BY <1>2, <1>3, RunsOn DEF Sees, Views, WorkingPlaces, ResumingPlaces, CommitPlaces

\* A draft leaves the status and writes a view of a waiting task, which tells on
\* itself: its event is the last.
LEMMA DraftSees ==
    ASSUME Viewed, NEW r \in Requests, MergeDraft(r) \/ CommitDraft(r)
    PROVE  Right' /\ Ended' /\ task'.status = task.status
<1>1. CASE UNCHANGED db
  BY <1>1, NothingWritten DEF db
<1>2. CASE ~UNCHANGED db
  <2> DEFINE w == View("waiting", execs', NoOutputs)
             e == Event("node_draft_saved", {req[r].node})
  <2>1. w.status = "waiting" /\ w.active = Active(execs') /\ e.type = "node_draft_saved"
    BY ViewIs DEF Event
  <2>2. task' = [task EXCEPT !.view = w] /\ events' = Append(events, e) /\ e \in EventRow
    <3>1. task' = [task EXCEPT !.view = w] /\ events' = Append(events, e)
      BY <1>2 DEF MergeDraft, CommitDraft, db
    <3>2. pc[r] \in {"find draft", "save draft"}
      BY DEF MergeDraft, CommitDraft
    <3>3. e \in EventRow
      BY <3>2, ViewedAre DEF Typed, Placed, Event, EventRow, EventTypes
    <3> QED BY <3>1, <3>3
  <2> HIDE DEF w, e
  <2>3. task'.status = task.status /\ task'.view = w /\ task'.finished = task.finished
    BY <2>2, ViewedAre
  <2>4. events'[Len(events')] = e /\ events' # <<>>
    BY <2>2, ViewedAre, AppendProperties, LenProperties
  <2> QED BY <2>1, <2>3, <2>4 DEF Viewed, Right, Ended, DraftLast
<1> QED BY <1>1, <1>2

----------------------------------------------------------------------------
LEMMA BusyHandle ==
    ASSUME Typed, NEW r \in Requests, Handle(r)
    PROVE  /\ pc'[r] \in BusyPlaces => pc[r] \in BusyPlaces
           /\ ~Aside(r) => pc[r] \in DriverPlaces
           /\ MergeDraft(r) \/ CommitDraft(r) => pc'[r] \notin BusyPlaces
           /\ ArchiveRead(r) \/ ArchiveTask(r) => pc[r] \in DeletePlaces
<1>1. CASE Aside(r)
  <2>1. CASE MergeDraft(r) \/ CommitDraft(r)
    <3>1. pc[r] \in {"find draft", "save draft"} /\ pc'[r] \in {"done", "save draft"}
      BY <2>1, Went DEF MergeDraft, CommitDraft, Return
    <3> QED BY <1>1, <3>1, DriverPlacesAre
            DEF BusyPlaces, DeletePlaces, ArchiveRead, ArchiveTask, ReadView
  <2>2. CASE ArchiveRead(r) \/ ArchiveTask(r)
    <3>1. pc[r] \in DeletePlaces
      BY <2>2 DEF ArchiveRead, ArchiveTask, ReadView, DeletePlaces
    <3> QED BY <1>1, <2>2, <3>1 DEF BusyPlaces, DeletePlaces, MergeDraft, CommitDraft
  <2> QED BY <1>1, <2>1, <2>2 DEF Aside
<1>2. CASE ~Aside(r)
  <2>1. pc[r] \in DriverPlaces
    BY <1>2, DriverPlacesAre
       DEF Aside, Handle, FindWaiting, Answer, LoadInput, Submit, ReadExecutions, LoadOutputs,
           ResolveInputs, StartNode, MarkWaiting, MarkSucceeded, MarkFailed, LookAgain, FinishRead,
           FinishTask, FailRead, FailTask, FindCurrent, ClearRead, ClearDownstream, ReadView
  <2> QED BY <1>2, <2>1 DEF BusyPlaces, Aside
<1> QED BY <1>1, <1>2

LEMMA SeesHandle ==
    ASSUME Viewed, NEW r \in Requests, Handle(r)
    PROVE  Lone' /\ Right' /\ Ended' /\ \A q \in Requests : Views(q)'
<1>0. /\ req' = req /\ \A q \in Requests \ {r} : pc'[q] = pc[q] /\ mem'[q] = mem[q]
  BY HandleMoves, OthersStay, ViewedAre
<1>1. Lone'
  BY <1>0, BusyHandle, ViewedAre DEF Viewed, Lone
<1>2. CASE MergeDraft(r) \/ CommitDraft(r)
  <2>1. Right' /\ Ended' /\ task'.status = task.status
    BY <1>2, DraftSees
  <2>2. SameRows
    BY <1>2, AsideSteps, ViewedAre DEF Aside
  <2>3. Active(execs') = Active(execs)
    BY <2>2, SameLatest DEF Active
  <2>4. ASSUME NEW q \in Requests \ {r} PROVE Views(q)'
    <3>1. Views(q)
      BY DEF Viewed
    <3> QED BY <1>0, <2>1, <2>2, <2>3, <3>1 DEF Views, SameRows
  <2>5. Views(r)'
    <3>1. pc'[r] \notin BusyPlaces
      BY <1>2, BusyHandle, ViewedAre
    <3> QED BY <3>1, ViewsElsewhere, DriverPlacesAre
            DEF BusyPlaces, DeletePlaces, WorkingPlaces, ResumingPlaces, CommitPlaces
  <2> QED BY <1>1, <2>1, <2>4, <2>5
<1>3. CASE ~(MergeDraft(r) \/ CommitDraft(r))
  <2>1. Sees(r)
    BY <1>3, LooksSee, LoopSees, LookAgainSees, EndReadsSee, ResumesSee, MarksSee, CommitsSee,
       ClearSees DEF Handle
  <2>2. pc[r] \in BusyPlaces
    BY <1>3, BusyHandle, ViewedAre DEF Aside, BusyPlaces
  <2>3. \A q \in Requests \ {r} : pc'[q] \notin BusyPlaces
    BY <1>0, <2>2 DEF Viewed, Lone
  <2>4. \A q \in Requests \ {r} : Views(q)'
    BY <2>3, ViewsElsewhere, DriverPlacesAre
       DEF BusyPlaces, DeletePlaces, WorkingPlaces, ResumingPlaces, CommitPlaces
  <2> QED BY <1>1, <2>1, <2>4 DEF Sees
<1> QED BY <1>2, <1>3

LEMMA ArrivesAs ==
    ASSUME Typed, NEW r \in Requests, NEW kind, NEW n, NEW S, NEW first, Arrive(r, kind, n, S, first)
    PROVE  pc'[r] = first /\ req'[r].kind = kind /\ req'[r].node = n
BY DEF Arrive, Typed, TypeOK, RequestsOK

\* Where a call begins.
LEMMA CallBegins ==
    ASSUME Typed, NEW r \in Requests, Call(r)
    PROVE  /\ pc[r] = "new" /\ UNCHANGED execs
           /\ \/ /\ pc'[r] = "continue" /\ req'[r].kind = "create" /\ Admitted("create")
                 /\ task'.status = "running" /\ ~task'.finished
              \/ UNCHANGED <<task, events>> /\ pc'[r] = "find draft" /\ req'[r].kind = "draft"
              \/ /\ UNCHANGED <<task, events>> /\ Admitted(req'[r].kind)
                 /\ \/ pc'[r] = "find waiting" /\ req'[r].kind = "resume" /\ task.status = "waiting"
                    \/ pc'[r] = "find current" /\ req'[r].kind = "rerun"
                    \/ pc'[r] = "archive" /\ req'[r].kind = "delete" /\ task.status # "archived"
<1>0. pc[r] = "new" /\ UNCHANGED execs
  BY DEF Call, CreateTask, ResumeTask, RerunNode, SaveDraft, DeleteTask, Arrive, db
<1>1. CASE CreateTask(r)
  <2>1. \E w : task' = [status |-> "running", view |-> w, finished |-> FALSE]
    BY <1>1 DEF CreateTask
  <2>2. pc'[r] = "continue" /\ req'[r].kind = "create"
    BY <1>1, ArrivesAs DEF CreateTask
  <2> QED BY <1>0, <1>1, <2>1, <2>2 DEF CreateTask, Arrive
<1>2. CASE \E n \in Nodes : ResumeTask(r, n)
  <2>1. pc'[r] = "find waiting" /\ req'[r].kind = "resume"
    BY <1>2, ArrivesAs DEF ResumeTask
  <2> QED BY <1>0, <1>2, <2>1 DEF ResumeTask, Arrive, db
<1>3. CASE \E n \in Nodes : RerunNode(r, n)
  <2>1. pc'[r] = "find current" /\ req'[r].kind = "rerun"
    BY <1>3, ArrivesAs DEF RerunNode
  <2> QED BY <1>0, <1>3, <2>1 DEF RerunNode, Arrive
<1>4. CASE \E n \in Nodes, S \in SUBSET Fields : SaveDraft(r, n, S)
  <2>1. pc'[r] = "find draft" /\ req'[r].kind = "draft"
    BY <1>4, ArrivesAs DEF SaveDraft
  <2> QED BY <1>0, <1>4, <2>1 DEF SaveDraft
<1>5. CASE DeleteTask(r)
  <2>1. pc'[r] = "archive" /\ req'[r].kind = "delete"
    BY <1>5, ArrivesAs DEF DeleteTask
  <2> QED BY <1>0, <1>5, <2>1 DEF DeleteTask, Arrive
<1> QED BY <1>1, <1>2, <1>3, <1>4, <1>5 DEF Call

LEMMA SeesCall ==
    ASSUME Viewed, Drivers \cup {"delete"} \subseteq Exclusive, NEW r \in Requests, Call(r)
    PROVE  Lone' /\ Right' /\ Ended' /\ \A q \in Requests : Views(q)'
<1>0. /\ pc[r] = "new" /\ UNCHANGED execs
      /\ \A q \in Requests \ {r} : pc'[q] = pc[q] /\ mem'[q] = mem[q] /\ req'[q] = req[q]
  BY CallBegins, OthersStay, ViewedAre
<1>1. CASE UNCHANGED <<task, events>> /\ pc'[r] = "find draft"
  <2>1. Lone'
    BY <1>0, <1>1, DriverPlacesAre DEF Viewed, Lone, BusyPlaces, DeletePlaces
  <2>2. \A q \in Requests \ {r} : Views(q)'
    BY <1>0, <1>1 DEF Viewed, Views
  <2>3. Views(r)'
    BY <1>1, ViewsElsewhere DEF WorkingPlaces, ResumingPlaces, CommitPlaces
  <2> QED BY <1>0, <1>1, <2>1, <2>2, <2>3, NothingWritten
<1>2. CASE pc'[r] # "find draft"
  <2>1. req'[r].kind \in Drivers \cup {"delete"} /\ Admitted(req'[r].kind)
    BY <1>2, CallBegins, ViewedAre DEF Drivers
  <2>2. \A q \in Requests \ {r} : pc'[q] \notin BusyPlaces
    <3> SUFFICES ASSUME NEW q \in Requests \ {r}, pc[q] \in BusyPlaces PROVE FALSE
      BY <1>0
    <3>1. InFlight(q)
      BY DriverPlacesAre DEF BusyPlaces, DeletePlaces, InFlight
    <3> QED BY <2>1, <3>1 DEF Admitted, Viewed, Lone
  <2>3. Lone'
    BY <2>1, <2>2 DEF Lone
  <2>4. \A q \in Requests \ {r} : Views(q)'
    BY <2>2, ViewsElsewhere, DriverPlacesAre
       DEF BusyPlaces, DeletePlaces, WorkingPlaces, ResumingPlaces, CommitPlaces
  <2>5. CASE pc'[r] = "continue" /\ task'.status = "running" /\ ~task'.finished
    BY <2>3, <2>4, <2>5, RunsOn DEF Views, WorkingPlaces, ResumingPlaces, CommitPlaces
  <2>6. CASE /\ UNCHANGED <<task, events>>
             /\ \/ pc'[r] = "find waiting" /\ task.status = "waiting"
                \/ pc'[r] \in {"find current", "archive"}
    <3>1. Views(r)'
      BY <2>6 DEF Views, WorkingPlaces, ResumingPlaces, CommitPlaces
    <3> QED BY <1>0, <2>3, <2>4, <2>6, <3>1, NothingWritten
  <2> QED BY <1>2, <2>5, <2>6, CallBegins, ViewedAre
<1> QED BY <1>1, <1>2, CallBegins, ViewedAre

LEMMA ViewedStep ==
    ASSUME Drivers \cup {"delete"} \subseteq Exclusive, Viewed, [Next \/ Crash]_vars
    PROVE  Viewed'
<1>0. Driven'
  BY DrivenStep DEF Viewed
<1>1. CASE Crash
  <2>1. UNCHANGED <<task, execs, events>> /\ \A r \in Requests : pc'[r] \in {"new", "done"}
    BY <1>1, ViewedAre DEF Crash, InFlight
  <2>2. Lone'
    BY <2>1, DriverPlacesAre DEF Lone, BusyPlaces, DeletePlaces
  <2> QED BY <1>0, <2>1, <2>2, NothingWritten, ViewsElsewhere
          DEF Viewed, WorkingPlaces, ResumingPlaces, CommitPlaces
<1>2. CASE UNCHANGED vars
  BY <1>0, <1>2 DEF vars, Viewed, Lone, Right, Ended, DraftLast, Views
<1> QED BY <1>0, <1>1, <1>2, SeesHandle, SeesCall DEF Next, Viewed

LEMMA ViewedInit == Init => Viewed
<1> SUFFICES ASSUME Init PROVE Viewed
  OBVIOUS
<1>1. Lone /\ \A r \in Requests : Views(r)
  BY DriverPlacesAre
     DEF Init, Lone, BusyPlaces, DeletePlaces, Views, WorkingPlaces, ResumingPlaces, CommitPlaces
<1>2. Right /\ Ended
  <2> DEFINE w == View("none", <<>>, NoOutputs)
  <2>1. w.status = "none" /\ w.active = Active(<<>>)
    BY ViewIs
  <2>2. task = [status |-> "none", view |-> w, finished |-> FALSE] /\ execs = <<>>
    BY DEF Init
  <2> HIDE DEF w
  <2> QED BY <2>1, <2>2 DEF Right, Ended
<1> QED BY <1>1, <1>2, DrivenInit DEF Viewed

\* When callers make one request at a time that drives or deletes the task,
\* whatever is rerun, whatever drafts overlap with it and wherever the process
\* dies, a task at rest that does not say running shows its executions as they
\* are: the view read before a commit, or by a draft beside it, is never stale,
\* and only a draft leaves it saying waiting; and the time of the end is set
\* exactly on a task that has ended.
THEOREM ViewAlwaysCurrent ==
    ASSUME Drivers \cup {"delete"} \subseteq Exclusive
    PROVE  CrashSpec => []ViewIsCurrent
<1>1. Init => Viewed
  BY ViewedInit
<1>2. Viewed /\ [Next \/ Crash]_vars => Viewed'
  BY ViewedStep
<1>3. Viewed => ViewIsCurrent
  BY DEF Viewed, Right, Ended, DraftLast, Active, ViewIsCurrent
<1> QED BY <1>1, <1>2, <1>3, PTL DEF CrashSpec

----------------------------------------------------------------------------
(* A deleted task.  Nothing is assumed of which requests overlap: once the    *)
(* task is archived and the last request that drove it is gone, only the      *)
(* rerun of a node brings it back.                                            *)

Kinded == \A r \in Requests : pc[r] \in DriverPlaces => req[r].kind \in Drivers

LEMMA KindedStep ==
    ASSUME Typed, Kinded, [Next \/ Crash]_vars
    PROVE  Kinded'
<1>1. ASSUME NEW r \in Requests, Handle(r) PROVE Kinded'
  <2>1. req' = req /\ \A q \in Requests \ {r} : pc'[q] = pc[q]
    BY <1>1, HandleMoves, OthersStay
  <2>2. pc'[r] \in DriverPlaces => pc[r] \in DriverPlaces
    <3>1. PICK to : pc' = [pc EXCEPT ![r] = to] /\ (to \in DriverPlaces => pc[r] \in DriverPlaces)
      BY <1>1, HandleMoves
    <3> QED BY <3>1 DEF Typed, TypeOK, RequestsOK
  <2> QED BY <2>1, <2>2 DEF Kinded
<1>2. ASSUME NEW r \in Requests, Call(r) PROVE Kinded'
  <2>1. \A q \in Requests \ {r} : pc'[q] = pc[q] /\ req'[q] = req[q]
    BY <1>2, OthersStay
  <2>2. pc'[r] \in DriverPlaces => req'[r].kind \in Drivers
    BY <1>2, CallBegins, DriverPlacesAre DEF Drivers
  <2> QED BY <2>1, <2>2 DEF Kinded
<1>3. CASE Crash
  BY <1>3, DriverPlacesAre DEF Crash, InFlight, Kinded, Typed, TypeOK, RequestsOK
<1>4. CASE UNCHANGED vars
  BY <1>4 DEF vars, Kinded
<1> QED BY <1>1, <1>2, <1>3, <1>4 DEF Next

LEMMA ArchivedStep ==
    ASSUME Typed, Kinded, Next \/ Crash, task.status = "archived", NoDriver
    PROVE  /\ task'.status = "archived"
           /\ \A r \in Requests :
                  InFlight(r)' /\ req'[r].kind \in Drivers => pc[r] = "new" /\ req'[r].kind = "rerun"
<1>1. ASSUME NEW r \in Requests, Handle(r)
      PROVE  task'.status = "archived" /\ \A q \in Requests : ~(InFlight(q)' /\ req'[q].kind \in Drivers)
  <2>1. pc[r] \notin DriverPlaces
    BY DriverPlacesAre DEF Kinded, NoDriver, InFlight
  <2>2. Aside(r)
    BY <1>1, <2>1, BusyHandle
  <2>3. task'.status = "archived"
    BY <2>2, AsideStatus
  <2>4. InFlight(r)
    BY <2>2 DEF Aside, MergeDraft, CommitDraft, ArchiveRead, ArchiveTask, ReadView, InFlight
  <2>5. req' = req /\ \A q \in Requests \ {r} : pc'[q] = pc[q]
    BY <1>1, HandleMoves, OthersStay
  <2> QED BY <2>3, <2>4, <2>5 DEF NoDriver, InFlight
<1>2. ASSUME NEW r \in Requests, Call(r)
      PROVE  /\ task'.status = "archived"
             /\ \A q \in Requests :
                   InFlight(q)' /\ req'[q].kind \in Drivers => pc[q] = "new" /\ req'[q].kind = "rerun"
  <2>1. \A q \in Requests \ {r} : pc'[q] = pc[q] /\ req'[q] = req[q]
    BY <1>2, OthersStay
  <2>2. ~CreateTask(r)
    BY DEF CreateTask
  <2>3. UNCHANGED task
    BY <1>2, <2>2 DEF Call, ResumeTask, RerunNode, SaveDraft, DeleteTask, db
  <2>4. pc[r] = "new" /\ (req'[r].kind \in Drivers => req'[r].kind = "rerun")
    <3>1. task'.status # "running"
      BY <2>3
    <3> QED BY <1>2, <3>1, CallBegins DEF Drivers
  <2> QED BY <2>1, <2>3, <2>4 DEF NoDriver, InFlight
<1>3. CASE Crash
  BY <1>3 DEF Crash, InFlight, Typed, TypeOK, RequestsOK
<1> QED BY <1>1, <1>2, <1>3 DEF Next

\* A deleted task that nobody drives any more stays deleted, and nobody begins to
\* drive it, until one of its nodes is rerun: whatever requests overlap, and
\* wherever the process dies, no draft or deletion that was under way, and no
\* answer that comes too late, brings it back.
THEOREM ArchivedAlwaysStays == CrashSpec => ArchivedStays
<1>1. Init => Typed /\ Kinded
  <2> SUFFICES ASSUME Init PROVE Kinded
    BY TypedInit
  <2> QED BY DriverPlacesAre DEF Init, Kinded
<1>2. Typed /\ Kinded /\ [Next \/ Crash]_vars => (Typed /\ Kinded)'
  BY TypedStep, KindedStep
<1>3. Typed /\ Kinded /\ [Next \/ Crash]_vars =>
        [task.status = "archived" /\ NoDriver =>
           /\ task'.status = "archived"
           /\ \A r \in Requests :
                  InFlight(r)' /\ req'[r].kind \in Drivers => pc[r] = "new" /\ req'[r].kind = "rerun"]_vars
  BY ArchivedStep
<1> QED BY <1>1, <1>2, <1>3, PTL DEF CrashSpec, ArchivedStays
=============================================================================
