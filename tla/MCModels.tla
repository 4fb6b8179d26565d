------------------------------ MODULE MCModels ------------------------------
(***************************************************************************)
(* The nodes at work: a behaviour is one of image generation (a job beside *)
(* a text node, a node with two prompts, a workflow), one of the nodes     *)
(* that ask a language model (segments written and reviewed, each with and *)
(* without continue_on_item_error, and run again; each node that wants one *)
(* answer), or one of the tool nodes that match a script's items to the    *)
(* library.                                                                *)
(***************************************************************************)
EXTENDS ModelProofs

CONSTANTS g1, g2, p1, p2, u1, i1, i2

Asks(kind, prompts, refs, slots) ==
  [kind |-> kind, prompts |-> prompts, refs |-> refs, slots |-> slots, user |-> u1]
MCPlans ==
  {[g \in {g1, g2} |-> IF g = g1 THEN Asks("job", {p1}, <<"asset">>, 0) ELSE Asks("text", {p2}, <<>>, 0)],
   [g \in {g1} |-> Asks("images", {p1, p2}, <<"asset">>, 0)],
   [g \in {g1} |-> Asks("image", {p1}, <<"data_uri", "asset">>, 0)],
   [g \in {g1} |-> Asks("image", {p1}, <<>>, 0)]}
  \cup {[g \in {g1} |-> Asks("workflow", {p1}, refs, slots)] :
          refs \in {<<>>, <<"url">>, <<"url", "other">>}, slots \in 0..1}

VARIABLE part
MCItems == {i1, i2}
LlmPlan(stages, its, continue, lack, runs) ==
  [stages |-> stages, items |-> its, continue |-> continue, lack |-> lack, runs |-> runs]
\* Two items written, reviewed once, or both; one run again at any stage of it;
\* one item asked for at each other node.
MCLlmPlans ==
  {LlmPlan(<<"write">>, MCItems, <<c>>, <<l>>, 2) : c \in BOOLEAN, l \in {{}, {i1}}}
  \cup {LlmPlan(<<"review">>, MCItems, <<c>>, <<l>>, 1) : c \in BOOLEAN, l \in {{}, {i1}}}
  \cup {LlmPlan(<<"write", "review">>, MCItems, <<c, d>>, <<{}, l>>, 2) :
          c \in BOOLEAN, d \in BOOLEAN, l \in {{}, {i1}}}
  \cup {LlmPlan(<<"write", "review">>, {i1}, <<c, d>>, <<{}, {}>>, 3) : c \in BOOLEAN, d \in BOOLEAN}
  \cup {LlmPlan(<<k>>, {i1}, <<FALSE>>, <<{}>>, 2) :
          k \in {"json", "assign", "draft", "metadata", "vision", "chat"}}

ASSUME NodesAssumption == LlmAssumption

\* A hero with and without a costume, a hero of a name nobody wrote whole, one
\* without a type, and one in red; a library of plain and composite names, of
\* tags within tags, and of a name that only the metadata has.
Wanted(type, name, its) == [type |-> type, name |-> name, tags |-> its]
Row(name, itags, label, its) ==
  [name |-> name, itags |-> itags, label |-> label, tags |-> its, live |-> TRUE]
PlainLin == Row(<<>>, {}, <<"Lin">>, <<"Character", "Lin">>)
CapedLin == Row(<<>>, {}, <<"Character", "Lin", "cape">>, <<"Character", "Lin", "cape">>)
RedLin == Row(<<>>, {}, <<"Lin">>, <<"Character", "red cape">>)
NamedLin == Row(<<"Lin">>, {"hat", "cape"}, <<"portrait">>, <<"Character">>)
OtherWu == Row(<<>>, {}, <<"Wu">>, <<"Character", "default">>)
PlaceLin == Row(<<>>, {}, <<"Lin">>, <<"Scene", "Lin">>)
MCScripts ==
  {<<Wanted("character", <<"Lin">>, {"cape"}), Wanted("character", <<"Lin">>, {})>>,
   <<Wanted("character", <<"Lin">>, {"hat"}), Wanted("character", <<"Wu">>, {"cape"})>>,
   <<Wanted("character", <<"Lin">>, {"red cape", "Lin"})>>,
   <<Wanted(Absent, <<"Lin">>, {"cape"})>>}
MCLibraries ==
  {<<>>, <<PlainLin, CapedLin, OtherWu>>, <<OtherWu, NamedLin, PlainLin>>,
   <<PlaceLin, CapedLin, NamedLin>>, <<CapedLin, RedLin>>}
MCWithin == {<<"cape", "red cape">>}
MCTypeTags == [character |-> "Character", scene |-> "Scene"]

all == <<part, vars, llmvars, matchingVars>>
NoImages == plan = <<>> /\ gen = <<>> /\ call = <<>> /\ remote = <<>>
NoNodes == llmplan = None /\ node = <<>> /\ co = <<>>
NoTools == items = <<>> /\ library = <<>> /\ NothingYet
ModelsInit ==
  \/ part = "images" /\ Init /\ NoNodes /\ NoTools
  \/ part = "nodes" /\ LlmInit /\ NoImages /\ NoTools
  \/ part = "tools" /\ MatchingInit /\ NoImages /\ NoNodes
ModelsNext ==
  \/ part = "images" /\ Next /\ UNCHANGED <<part, llmvars, matchingVars>>
  \/ part = "nodes" /\ LlmNext /\ UNCHANGED <<part, vars, matchingVars>>
  \/ part = "tools" /\ MatchingNext /\ UNCHANGED <<part, vars, llmvars>>
ModelsSpec ==
  /\ ModelsInit /\ [][ModelsNext]_all
  /\ \A g \in AllGenerations : WF_all(part = "images" /\ g \in DOMAIN plan /\ Run(g) /\ UNCHANGED <<part, llmvars, matchingVars>>)
  /\ \A p \in AllPrompts : WF_all(part = "images" /\ p \in Prompts /\ Step(p) /\ UNCHANGED <<part, llmvars, matchingVars>>)
  /\ WF_all(part = "images" /\ Tick /\ UNCHANGED <<part, llmvars, matchingVars>>)
  /\ \A r \in 1..MaxRuns, i \in Items :
       WF_all(part = "nodes" /\ Respond(r, i) /\ UNCHANGED <<part, vars, matchingVars>>)

(* The safety properties are those of the components, and are checked as they *)
(* stand: in the other parts their state rests.                              *)

\* Every image generation and every node's run ends, and so does each call,
\* also one that outlives the failure of what it was made for.
CallsEnd == GenerationsSettle /\ NodesEnd
=============================================================================
