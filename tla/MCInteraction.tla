---------------------------- MODULE MCInteraction ----------------------------
(***************************************************************************)
(* Instances of TaskInteraction: two nodes that may wait at once.          *)
(***************************************************************************)
EXTENDS TaskInteraction, TLC

CONSTANTS n1, n2, v, w

MCNodes == {n1, n2}
MCValues == {v, w}
MCCalls == {[route |-> AssetImage, node |-> n1, value |-> x] : x \in MCValues}
           \cup {[route |-> Draft, node |-> n1, value |-> v],
                 [route |-> PanelPrompt, node |-> n2, value |-> v]}
\* One node is rerun, or a node above both.
MCReruns == {{n1}, MCNodes}
Interchangeable == Permutations(Requests)
=============================================================================
