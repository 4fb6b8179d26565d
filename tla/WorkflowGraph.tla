---------------------------- MODULE WorkflowGraph ----------------------------
(* The workflow contract and the scheduler's view of it.  A contract is a     *)
(* validated DAG: nodes in contract order, and edges, some with a "when"      *)
(* condition on the output of an upstream node.                               *)
(*                                                                            *)
(* "outs" is the scheduler's node_outputs dictionary: outs[n] is [by, val],    *)
(* the execution whose output it holds for n, 0 if it holds none, and the one *)
(* field of that output that conditions compare.                              *)
EXTENDS Naturals, FiniteSets

CONSTANTS
    Nodes,      \* contract["nodes"]: the node ids
    Rank,       \* Rank[n]: the position of n in the contract's list
    Edges,      \* contract["edges"]: a set of [from, to, when] records
    Reads,      \* Reads[n]: the nodes whose outputs n's inputs refer to
    Outputs,    \* values of the output field that conditions look at
    Yields,     \* Yields[n]: the values of it that n's outputs schema admits
    START, END  \* the two pseudo nodes

----------------------------------------------------------------------------
(* Conditions.  when = {} is an unconditional edge; otherwise it is the       *)
(* singleton {[node, equals]}.                                                *)

Condition == [node : Nodes, equals : Outputs]
Edge == [from : Nodes \cup {START}, to : Nodes \cup {END}, when : SUBSET Condition]

Completed(outs) == {n \in Nodes : outs[n].by # 0}

\* resolve_path raises when the node the condition names has no output.
Resolvable(e, outs) == \A w \in e.when : w.node \in Completed(outs)
EdgeMatches(e, outs) == \A w \in e.when : outs[w.node].val = w.equals

----------------------------------------------------------------------------
(* Reachability over edges between nodes (START and END left out).            *)

Successors(S) == {n \in Nodes : \E e \in Edges : e.from \in S /\ e.to = n}
ClosedFrom(S, C) == Successors(S) \subseteq C /\ Successors(C) \subseteq C

\* The least set closed under edges that holds the successors of n: what the
\* stack loops of the code compute.
Downstream == [n \in Nodes |-> {m \in Nodes : \A C \in SUBSET Nodes :
                                               ClosedFrom({n}, C) => m \in C}]
Upstream(n) == {m \in Nodes : n \in Downstream[m]}

\* Mutants: a rerun affects the node alone; the node and those next to it.
AffectedSelf(n) == {n}
AffectedNext(n) == {n} \cup Successors({n})
Affected(n) == {n} \cup Downstream[n]

----------------------------------------------------------------------------
(* What validate_workflow_contract has established before a task exists.      *)

ReachableFromStart ==
    {n \in Nodes : \A C \in SUBSET Nodes : ClosedFrom({START}, C) => n \in C}
ReachesEnd(n) == \E e \in Edges : e.to = END /\ e.from \in {n} \cup Downstream[n]

ContractOK ==
    /\ Edges \subseteq Edge
    /\ \A e \in Edges : ~(e.from = START /\ e.to = END)
    /\ \A n \in Nodes : n \notin Downstream[n]
    /\ \A n \in Nodes : n \in ReachableFromStart /\ ReachesEnd(n)
    /\ \A e \in Edges : \A w \in e.when :
          e.from # START /\ w.node \in Upstream(e.from) \cup {e.from}
    /\ \A n \in Nodes : Reads[n] \subseteq Upstream(n)

ASSUME NodesAssumption ==
    /\ IsFiniteSet(Nodes) /\ Nodes # {}
    /\ START \notin Nodes /\ END \notin Nodes
    /\ Rank \in [Nodes -> Nat]
    /\ \A m, n \in Nodes : Rank[m] = Rank[n] => m = n
    /\ Reads \in [Nodes -> SUBSET Nodes]
    /\ Yields \in [Nodes -> SUBSET Outputs]

ASSUME ContractAssumption == ContractOK

----------------------------------------------------------------------------
(* The scheduler.                                                             *)

\* Edges whose source is done: START, or a node with an output.
Settled(outs) == {e \in Edges : e.from = START \/ e.from \in Completed(outs)}

\* _activation_state raises when one of them has an unresolvable condition.
ActivationFails(outs) == \E e \in Settled(outs) : ~Resolvable(e, outs)

ActiveEdges(outs) == {e \in Settled(outs) : EdgeMatches(e, outs)}
ActivePairs(outs) == {<<e.from, e.to>> : e \in ActiveEdges(outs)}
ActiveNodes(outs) == {e.to : e \in ActiveEdges(outs)} \ {END}

\* Nodes an active but uncompleted node may still lead to, conditions ignored.
PotentialNodes(outs) ==
    UNION {Downstream[n] : n \in ActiveNodes(outs) \ Completed(outs)}

NodeIsReady(n, outs) ==
    /\ \E e \in Edges : e.to = n /\ <<e.from, n>> \in ActivePairs(outs)
    /\ \A e \in Edges :
          /\ e.to = n
          /\ <<e.from, n>> \notin ActivePairs(outs)
          /\ e.from # START
          /\ e.from \notin Completed(outs)
          => e.from \notin ActiveNodes(outs) \cup PotentialNodes(outs)

Ready(n, outs, started) ==
    n \notin started /\ n \in ActiveNodes(outs) /\ NodeIsReady(n, outs)

\* _ready_node_ids.  The list is in contract order: Rank gives it back.
ReadyNodes(outs, started) == {n \in Nodes : Ready(n, outs, started)}
First(n, S) == n \in S /\ \A m \in S : Rank[n] <= Rank[m]
=============================================================================
