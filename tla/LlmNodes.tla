------------------------------- MODULE LlmNodes -------------------------------
(***************************************************************************)
(* The nodes that ask a language model.  A node that works on many items   *)
(* runs one coroutine per item under asyncio.gather: the first exception   *)
(* ends the node and its siblings go on.  Any node may be run again at any *)
(* time, beside what still runs.  Segments are first written (the parallel *)
(* node), then reviewed and revised in bounded rounds.  Every coroutine    *)
(* asks again when an answer is not the JSON its schema wants.  A text is  *)
(* only told apart by its version, an item by whether it failed.           *)
(***************************************************************************)
EXTENDS Naturals, Sequences

CONSTANTS Items, MaxAttempts, MaxRounds, MaxRuns, LlmPlans

Kinds == {"write", "review", "json", "assign", "draft", "metadata", "vision", "chat"}
\* Every answer is asked for at least once, and a plan is a list of nodes, each
\* of which has its own continue_on_item_error.
LlmAssumption ==
  /\ MaxAttempts \in Nat \ {0} /\ MaxRounds \in Nat
  /\ \A p \in LlmPlans :
       /\ p.stages \in Seq(Kinds) /\ p.stages # <<>>
       /\ p.continue \in [DOMAIN p.stages -> BOOLEAN]
       /\ p.runs \in 0..MaxRuns

VARIABLES llmplan,  \* the nodes in order, which continue, who lacks what, how many runs
          node,     \* the runs so far: [stage, status, the run whose results it was given]
          co        \* [runs -> [items -> coroutine]]
llmvars == <<llmplan, node, co>>

-----------------------------------------------------------------------------
(* One coroutine: c is its state, a what its chat came back with.          *)

Idle == [pc |-> "none", step |-> "none", attempt |-> 1, round |-> 1, ver |-> 0,
         reviewed |-> 0, passed |-> FALSE, status |-> "ok"]

\* A chat returns a text that the schema accepts or not, and that accepts the
\* segment or not, refuses without a key (a ValidationError) or fails.
Replies == {"valid", "passed", "invalid", "refused", "lost"}
Done(c) == [c EXCEPT !.pc = "done", !.attempt = 1]
\* An error that is caught makes the item a failed one.
Fail(c, caught) == IF caught THEN [Done(c) EXCEPT !.status = "failed"] ELSE [Idle EXCEPT !.pc = "raised"]
\* Mutant: one attempt too many.
AgainOnce(c, caught) ==
  IF c.attempt <= MaxAttempts THEN [c EXCEPT !.attempt = @ + 1] ELSE Fail(c, caught)
Again(c, caught) ==
  IF c.attempt < MaxAttempts THEN [c EXCEPT !.attempt = @ + 1] ELSE Fail(c, caught)

\* process_one: only an answer that is no valid object counts as an item's error.
WriteItem(c, a, continue) ==
  CASE a \in {"valid", "passed"} -> [Done(c) EXCEPT !.ver = 1]
    [] a = "invalid" -> Again(c, continue)
    [] OTHER -> Fail(c, FALSE)

\* _merge_revision_fields: the revision becomes the text, and the next round.
Merge(c) == [c EXCEPT !.ver = @ + 1, !.round = @ + 1, !.step = "review", !.attempt = 1]
\* _with_review_fields takes the last review.
Reviewed(c, a) == [c EXCEPT !.reviewed = c.ver, !.passed = (a = "passed")]
\* _call_structured_json, whose ValidationErrors the loop catches.
Structured(c, a, continue) ==
  CASE a = "invalid" -> Again(c, continue)
    [] a = "refused" -> Fail(c, continue)
    [] a = "lost" -> Fail(c, FALSE)
    [] OTHER -> c
\* Mutant: the last revision is returned without a review.
ReviewShort(c, a, continue) ==
  CASE a \notin {"valid", "passed"} -> Structured(c, a, continue)
    [] a \in {"valid", "passed"} /\ c.step = "revise" ->
         IF c.round = MaxRounds THEN Done(Merge(c)) ELSE Merge(c)
    [] OTHER -> IF a = "passed" THEN Done(Reviewed(c, a))
                ELSE [Reviewed(c, a) EXCEPT !.step = "revise", !.attempt = 1]
\* _review_and_refine_segment: review, then revise unless it passed or the
\* rounds are used up.
ReviewItem(c, a, continue) ==
  CASE a \notin {"valid", "passed"} -> Structured(c, a, continue)
    [] a \in {"valid", "passed"} /\ c.step = "revise" -> Merge(c)
    [] OTHER -> IF a = "passed" \/ c.round > MaxRounds THEN Done(Reviewed(c, a))
                ELSE [Reviewed(c, a) EXCEPT !.step = "revise", !.attempt = 1]

\* Nodes that want one object: any JSON, segment assignments, an asset draft,
\* the metadata of an upload (the last two through capabilities).
OneObject(c, a) ==
  CASE a \in {"valid", "passed"} -> Done(c)
    [] a = "invalid" -> Again(c, FALSE)
    [] OTHER -> Fail(c, FALSE)
StructuredJson(c, a) == OneObject(c, a)
AssignAssets(c, a) == OneObject(c, a)
DraftAsset(c, a) == OneObject(c, a)
CompleteUpload(c, a) == OneObject(c, a)
\* The vision node takes any text but asks again when the call itself fails.
Vision(c, a) == IF a \in {"refused", "lost"} THEN Again(c, FALSE) ELSE Done(c)
Chat(c, a) == IF a \in {"refused", "lost"} THEN Fail(c, FALSE) ELSE Done(c)

Resume(kind, c, a, continue) ==
  CASE kind = "write" -> WriteItem(c, a, continue)
    [] kind = "review" -> ReviewItem(c, a, continue)
    [] kind = "json" -> StructuredJson(c, a)
    [] kind = "assign" -> AssignAssets(c, a)
    [] kind = "draft" -> DraftAsset(c, a)
    [] kind = "metadata" -> CompleteUpload(c, a)
    [] kind = "vision" -> Vision(c, a)
    [] kind = "chat" -> Chat(c, a)

-----------------------------------------------------------------------------
(* The nodes                                                               *)

Runs == DOMAIN node
KindOf(r) == llmplan.stages[node[r].stage]
Continues(r) == llmplan.continue[node[r].stage]
\* What a run was given of item i: the result of the run before, or the item.
Input(r, i) == IF node[r].source = 0 THEN Idle ELSE co[node[r].source][i]

\* Mutant: an item that failed upstream is tried.
BeginItemAnyway(kind, c, lacks, continue) ==
  LET step == IF kind = "review" THEN "review" ELSE "write"
      c1 == [Idle EXCEPT !.ver = c.ver, !.step = step]
  IN IF lacks THEN Fail(c1, continue) ELSE [c1 EXCEPT !.pc = "chat"]
\* The head of a coroutine: an item that failed upstream stays as it is, one
\* that lacks a required field fails.
BeginItem(kind, c, lacks, continue) ==
  LET step == IF kind = "review" THEN "review" ELSE "write"
      c1 == [Idle EXCEPT !.ver = c.ver, !.step = step]
  IN CASE c.status = "failed" -> Fail(c1, TRUE)
       [] c.status = "ok" /\ lacks -> Fail(c1, continue)
       [] OTHER -> [c1 EXCEPT !.pc = "chat"]

\* Mutants: gather returns with the first result, or never raises.
GatherFirst(cs) ==
  CASE \E i \in DOMAIN cs : cs[i].pc = "raised" -> "failed"
    [] \E i \in DOMAIN cs : cs[i].pc = "done" -> "succeeded"
    [] OTHER -> "running"
GatherAll(cs) == IF \A i \in DOMAIN cs : cs[i].pc = "done" THEN "succeeded" ELSE "running"
Gather(cs) ==
  CASE \E i \in DOMAIN cs : cs[i].pc = "raised" -> "failed"
    [] \A i \in DOMAIN cs : cs[i].pc = "done" -> "succeeded"
    [] OTHER -> "running"

\* The last run of a stage counts, until a stage before it is run again.
Current(r) == \A q \in Runs : q > r => node[q].stage > node[r].stage
HasRun(n) == \E r \in Runs : node[r].stage = n /\ Current(r)
\* The runs whose results a run of stage n may be given, 0 for none.
Sources(n) ==
  IF n = 1 THEN {0}
  ELSE {q \in Runs : node[q].stage = n - 1 /\ node[q].status = "succeeded" /\ Current(q)}
\* A run of the node at stage n, on what run q made.
StartAt(n, q) ==
  LET of(i) == IF q = 0 THEN Idle ELSE co[q][i]
      cs == [i \in llmplan.items |->
               BeginItem(llmplan.stages[n], of(i), i \in llmplan.lack[n], llmplan.continue[n])]
  IN /\ Len(node) < llmplan.runs
     /\ co' = Append(co, cs)
     /\ node' = Append(node, [stage |-> n, status |-> Gather(cs), source |-> q])
     /\ UNCHANGED llmplan
\* The runtime runs a node when the one before it has succeeded.
Start(n) == ~HasRun(n) /\ \E q \in Sources(n) : StartAt(n, q)
\* rerun_node, whatever has become of the node's run: its coroutines go on.
Rerun(n) == HasRun(n) /\ \E q \in Sources(n) : StartAt(n, q)

\* A chat returns and its coroutine runs to the next one.
Respond(r, i) ==
  /\ r \in Runs /\ i \in llmplan.items /\ co[r][i].pc = "chat"
  /\ \E a \in Replies :
       LET cs == [co[r] EXCEPT ![i] = Resume(KindOf(r), @, a, Continues(r))] IN
       /\ co' = [co EXCEPT ![r] = cs]
       /\ node' = [node EXCEPT ![r].status = IF @ = "running" THEN Gather(cs) ELSE @]
  /\ UNCHANGED llmplan

LlmInit == llmplan \in LlmPlans /\ node = <<>> /\ co = <<>>
LlmNext ==
  \/ \E n \in DOMAIN llmplan.stages : Start(n) \/ Rerun(n)
  \/ \E r \in 1..MaxRuns, i \in Items : Respond(r, i)
\* Every chat returns or raises (the client has a timeout); what starts the
\* nodes is the runtime's affair.
LlmSpec == LlmInit /\ [][LlmNext]_llmvars /\ \A r \in 1..MaxRuns, i \in Items : WF_llmvars(Respond(r, i))

-----------------------------------------------------------------------------
(* Properties                                                              *)

\* What a node's calls count stays in its bounds: attempts of one answer, rounds
\* of one review.
LlmTypeOK ==
  /\ DOMAIN co = Runs
  /\ \A r \in Runs :
       /\ node[r].status \in {"running", "succeeded", "failed"}
       /\ \A i \in llmplan.items :
            /\ co[r][i].pc \in {"chat", "done", "raised"} /\ co[r][i].status \in {"ok", "failed"}
            /\ co[r][i].attempt \in 1..MaxAttempts /\ co[r][i].round \in 1..(MaxRounds + 1)

\* A segment that comes out of the review carries the review of the very text
\* it carries, and that review passed it or the rounds were used up.
ReviewFits ==
  \A r \in Runs : KindOf(r) = "review" =>
    \A i \in llmplan.items : co[r][i].pc = "done" /\ co[r][i].status = "ok" =>
      /\ co[r][i].reviewed = co[r][i].ver
      /\ co[r][i].passed \/ co[r][i].round = MaxRounds + 1

\* An item that failed at one node goes through the nodes after it untouched:
\* it is not asked about and comes out failed.
FailuresPass ==
  \A r \in Runs : \A i \in llmplan.items : Input(r, i).status = "failed" =>
    co[r][i].pc = "done" /\ co[r][i].status = "failed" /\ co[r][i].ver = Input(r, i).ver

\* A node that succeeded has every item's result, none of its calls goes on,
\* and where items may not fail none has failed that had not before.
AllComplete ==
  \A r \in Runs : node[r].status = "succeeded" =>
    \A i \in llmplan.items :
      /\ co[r][i].pc = "done"
      /\ ~Continues(r) /\ Input(r, i).status = "ok" => co[r][i].status = "ok"

\* What came in comes out: as a result, or as the failure it was.
ResultsComplete == AllComplete /\ FailuresPass

\* A node's run ends, and so does every call that outlives its node's failure.
NodesEnd ==
  \A r \in 1..MaxRuns :
    /\ (r \in Runs /\ node[r].status = "running") ~> (r \in Runs /\ node[r].status # "running")
    /\ \A i \in Items : (r \in Runs /\ i \in llmplan.items /\ co[r][i].pc = "chat")
                          ~> (r \in Runs /\ i \in llmplan.items /\ co[r][i].pc # "chat")
=============================================================================
