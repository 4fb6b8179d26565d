--------------------------- MODULE TaskInteraction ---------------------------
(***************************************************************************)
(* A task that waits, and what the page does on it besides answering: it   *)
(* saves drafts of the waiting node's input, and it runs AI interactions   *)
(* (an asset draft, an asset image, a panel image, a panel prompt) whose   *)
(* result is saved as a draft too.  _run_task_ai_interaction records a     *)
(* started event, calls providers for minutes, saves the draft, and        *)
(* records succeeded, or failed.  Meanwhile the node may be answered, the  *)
(* task deleted, and the node rerun until it asks again.                   *)
(* A step is what happens between two awaits that let others in; the       *)
(* request of a client that goes away is cancelled and records nothing.    *)
(* Of the requests that drive the task only their number is kept, and      *)
(* what they do to the task's status and to the nodes that wait.           *)
(***************************************************************************)
EXTENDS Integers, Sequences, FiniteSets, SequencesExt

CONSTANTS Nodes, Requests, Values, None,
          Calls,               \* what clients ask for: [route, node, value]
          Reruns,              \* Reruns: the nodes a rerun supersedes, of each node one may rerun
          PanelCalls,
          MaxMoves,            \* a bound on the events of the task itself
          Overlap              \* may others come between the two halves of a draft?

ASSUME InteractionAssumption ==
  /\ PanelCalls \in Nat /\ MaxMoves \in Nat /\ Overlap \in BOOLEAN
  /\ Reruns \subseteq SUBSET Nodes
  /\ None \notin Values

VARIABLES task,      \* "waiting", "archived", or "running" for every other status
          open,      \* nodes whose latest execution waits
          snapshot,  \* [Nodes -> [Keys -> the value saved there, or None]]
          log,       \* the events, as rows of task_events
          drivers,   \* how many requests drive the task
          req        \* [Requests -> what the handler remembers]

rows == <<task, open, snapshot, log>>
vars == <<rows, drivers, req>>

-----------------------------------------------------------------------------
(* The routes: the key their result is saved under, how many provider      *)
(* calls make it, and whether they look at the task before they call.      *)

AssetDraft == [key |-> "ai_draft_result", calls |-> 1, looks |-> FALSE]
AssetImage == [key |-> "ai_generated_asset_image", calls |-> 1, looks |-> FALSE]
PanelImage == [key |-> "ai_generated_storyboard_panel_image", calls |-> 1, looks |-> FALSE]
\* PanelCalls: five nodes of the task's workflow and the one that makes the cards.
PanelPrompt == [key |-> "ai_generated_storyboard_panel_prompt", calls |-> PanelCalls, looks |-> TRUE]
Draft == [key |-> "approved_assets", calls |-> 0, looks |-> FALSE]
Routes == {AssetDraft, AssetImage, PanelImage, PanelPrompt, Draft}
Keys == {route.key : route \in Routes}

Blank == [pc |-> "idle", route |-> Draft, node |-> None, value |-> None, calls |-> 0,
          read |-> [k \in Keys |-> None], since |-> 0, next |-> None]
At(r, pc) == req[r].pc = pc
Set(r, q) == req' = [req EXCEPT ![r] = q]
Goto(r, pc) == Set(r, [req[r] EXCEPT !.pc = pc])
\* A handler that ends remembers nothing but how.
Finish(r, how) == Set(r, [Blank EXCEPT !.pc = how, !.since = req[r].since])
\* An event of a request names its node, and with it what the request saves.
Event(type, r) ==
  [type |-> type, node |-> req[r].node, by |-> r, key |-> req[r].route.key, value |-> req[r].value]
\* An event of the task itself.
TaskEvent(type, n) == [type |-> type, node |-> n, by |-> None, key |-> None, value |-> None]
Insert(e) == log' = Append(log, e)
Told(types) == {i \in DOMAIN log : log[i].type \in types}

\* Between the read of a snapshot and its write nothing else happens to the
\* node, unless requests overlap.
Writing(n) == \E r \in Requests : At(r, "write_draft") /\ req[r].node = n
Free(n) == Overlap \/ ~Writing(n)

Waits(n) == task = "waiting" /\ n \in open

\* A body that misses its text, prompt, images or item, or names an asset that
\* is not there, is refused before anything is recorded: as if it never came.
Call(r) ==
  /\ At(r, "idle")
  /\ \E c \in Calls :
       Set(r, [Blank EXCEPT !.since = Len(log), !.route = c.route, !.node = c.node,
                            !.value = c.value, !.calls = c.route.calls, !.next = "started",
                            !.pc = IF c.route = Draft THEN "read_draft" ELSE "check"])
  /\ UNCHANGED <<rows, drivers>>

-----------------------------------------------------------------------------
(* record_waiting_node_interaction_event: the task, the execution, and     *)
(* then, in a transaction that looks at neither again, the event.          *)

\* Mutant: the started event is recorded within the try as well.
RaisedAlways(r) ==
  IF req[r].next = "failed" \/ req[r].route = Draft
  THEN Finish(r, "raised")
  ELSE Set(r, [req[r] EXCEPT !.pc = "check", !.next = "failed"])
\* Mutant: nothing is caught.
RaisedOnly(r) == Finish(r, "raised")
\* Where an exception leads: within the try the failed event is recorded,
\* before it, and when that fails too, the client gets the error.
Raised(r) ==
  IF req[r].next \in {"started", "failed"} \/ req[r].route = Draft
  THEN Finish(r, "raised")
  ELSE Set(r, [req[r] EXCEPT !.pc = "check", !.next = "failed"])

CheckWaiting(r) ==
  /\ At(r, "check")
  /\ IF Waits(req[r].node) THEN Goto(r, "record") ELSE Raised(r)
  /\ UNCHANGED <<rows, drivers>>

RecordEvent(r) ==
  LET q == req[r] IN
  /\ At(r, "record")
  /\ Insert(Event(q.next, r))
  /\ CASE q.next = "started" ->
            Set(r, [q EXCEPT !.next = "run", !.pc = IF q.route.looks THEN "look" ELSE "run"])
       [] q.next = "succeeded" -> Finish(r, "returned")
       [] q.next = "failed" -> Finish(r, "raised")
  /\ UNCHANGED <<task, open, snapshot, drivers>>

-----------------------------------------------------------------------------
(* run()                                                                   *)

\* The workflow must have the five nodes, and the execution must still wait.
WaitingExecution(r) ==
  /\ At(r, "look")
  /\ \/ req[r].node \in open /\ Goto(r, "run")
     \/ Raised(r)
  /\ UNCHANGED <<rows, drivers>>

\* Each call's result must be a list with an item, which feeds the next.
RunNode(r) ==
  /\ At(r, "run")
  /\ req[r].calls > 0
  /\ \/ Set(r, [req[r] EXCEPT !.calls = @ - 1])
     \/ Raised(r)
  /\ UNCHANGED <<rows, drivers>>

Result(r) ==
  /\ At(r, "run")
  /\ req[r].calls = 0
  /\ Goto(r, "read_draft")
  /\ UNCHANGED <<rows, drivers>>

-----------------------------------------------------------------------------
(* save_waiting_node_draft                                                 *)

\* A draft that is saved, or has nothing to save: the route's work is done, or
\* its end is still to be recorded.
Saved(r) ==
  IF req[r].route = Draft THEN Finish(r, "returned")
  ELSE Set(r, [req[r] EXCEPT !.pc = "check", !.next = "succeeded"])

\* Where the value is there already nothing is written, and no event tells so.
ReadDraft(r) ==
  LET q == req[r] IN
  /\ At(r, "read_draft")
  /\ Free(q.node)
  /\ \/ ~Waits(q.node) /\ Raised(r)
     \/ Waits(q.node) /\ snapshot[q.node][q.route.key] = q.value /\ Saved(r)
     \/ /\ Waits(q.node) /\ snapshot[q.node][q.route.key] # q.value
        /\ Set(r, [q EXCEPT !.pc = "write_draft", !.read = snapshot[q.node]])
  /\ UNCHANGED <<rows, drivers>>

\* Mutant: the patch replaces the input instead of being merged into it.
WriteDraftReplaces(r) ==
  LET q == req[r] IN
  /\ At(r, "write_draft")
  /\ IF q.node \in open
     THEN /\ snapshot' = [snapshot EXCEPT ![q.node] = [Blank.read EXCEPT ![q.route.key] = q.value]]
          /\ Insert(Event("saved", r))
          /\ Saved(r)
     ELSE Raised(r) /\ UNCHANGED <<snapshot, log>>
  /\ UNCHANGED <<task, open, drivers>>
\* The merged input replaces the whole snapshot of whatever execution of the
\* node waits now.
WriteDraft(r) ==
  LET q == req[r] IN
  /\ At(r, "write_draft")
  /\ IF q.node \in open
     THEN /\ snapshot' = [snapshot EXCEPT ![q.node] = [q.read EXCEPT ![q.route.key] = q.value]]
          /\ Insert(Event("saved", r))
          /\ Saved(r)
     ELSE Raised(r) /\ UNCHANGED <<snapshot, log>>
  /\ UNCHANGED <<task, open, drivers>>

\* The handler is cancelled, or dies with the process.
Cancel(r) ==
  /\ req[r].pc \notin {"idle", "raised", "returned", "cancelled"}
  /\ Finish(r, "cancelled")
  /\ UNCHANGED <<rows, drivers>>

-----------------------------------------------------------------------------
(* The task beside it                                                      *)

TaskTypes == {"asked", "answered", "rerun", "ended", "archived"}
TaskMoves(type, n) ==
  /\ Cardinality(Told(TaskTypes)) < MaxMoves
  /\ Insert(TaskEvent(type, n))

\* A resume takes the answer; the task goes on.
Answer(n) ==
  /\ Waits(n)
  /\ open' = open \ {n}
  /\ task' = "running"
  /\ TaskMoves("answered", n)
  /\ drivers' = drivers + 1
  /\ UNCHANGED <<snapshot, req>>

\* rerun_node asks nothing of the task: the questions of the node and of those
\* below it are gone, whatever the task was it runs, and no answer is recorded.
Rerun ==
  /\ \E cleared \in Reruns : open' = open \ cleared
  /\ task' = "running"
  /\ TaskMoves("rerun", None)
  /\ drivers' = drivers + 1
  /\ UNCHANGED <<snapshot, req>>

\* A driving request runs a node that asks, with a new input, and leaves its loop:
\* another node can only ask at the same time when another request runs it.
Ask(n) ==
  /\ drivers > 0 /\ n \notin open /\ Free(n)
  /\ open' = open \cup {n}
  /\ snapshot' = [snapshot EXCEPT ![n] = [k \in Keys |-> None]]
  /\ task' = "waiting"
  /\ TaskMoves("asked", n)
  /\ drivers' = drivers - 1
  /\ UNCHANGED req

\* Or it leaves its loop without a question: the task has failed or succeeded,
\* which an event tells, or its row is left as it is.
Leave ==
  /\ drivers > 0
  /\ drivers' = drivers - 1
  /\ \/ task' = "running" /\ TaskMoves("ended", None)
     \/ UNCHANGED <<task, log>>
  /\ UNCHANGED <<open, snapshot, req>>

Archive ==
  /\ task # "archived"
  /\ task' = "archived"
  /\ TaskMoves("archived", None)
  /\ UNCHANGED <<open, snapshot, drivers, req>>

-----------------------------------------------------------------------------
\* The task has been created, and the request that did drives it.
Init ==
  /\ task = "running"
  /\ open = {}
  /\ snapshot = [n \in Nodes |-> [k \in Keys |-> None]]
  /\ log = <<>>
  /\ drivers = 1
  /\ req = [r \in Requests |-> Blank]

Handle(r) ==
  \/ CheckWaiting(r) \/ RecordEvent(r)
  \/ WaitingExecution(r) \/ RunNode(r) \/ Result(r) \/ ReadDraft(r) \/ WriteDraft(r)
Next ==
  \/ \E r \in Requests : Call(r) \/ Handle(r) \/ Cancel(r)
  \/ \E n \in Nodes : Answer(n) \/ Ask(n)
  \/ Rerun \/ Leave \/ Archive
Spec == Init /\ [][Next]_vars

-----------------------------------------------------------------------------
(* Properties                                                              *)

\* The events a request recorded, their types, and which may follow which.
Own(r) == {i \in DOMAIN log : log[i].by = r}
Types(r) == {log[i].type : i \in Own(r)}
Order == {<<"started", "saved">>, <<"started", "succeeded">>, <<"started", "failed">>,
          <<"saved", "succeeded">>, <<"saved", "failed">>}

\* An interaction tells one story: it started, may have saved its result, and
\* then succeeded or failed, never both and never twice.  It does not succeed
\* before its result is saved for its node, by its own draft or by an earlier one
\* that gave the same value.  Only a draft saves without a start.
StoriesInOrder ==
  \A r \in Requests :
    /\ \A i, j \in Own(r) : i < j => <<log[i].type, log[j].type>> \in Order
    /\ "started" \notin Types(r) =>
         \A i \in Own(r) : log[i].type = "saved" /\ log[i].key = Draft.key
    /\ \A i \in Own(r) : log[i].type = "succeeded" =>
         \E j \in 1..(i - 1) :
           /\ log[j].type = "saved" /\ log[j].node = log[i].node
           /\ log[j].key = log[i].key /\ log[j].value = log[i].value

\* An interaction that returned or raised, and whose start was recorded, has its
\* end recorded, unless the task moved on meanwhile: it took an answer, to
\* whichever node, was rerun, failed, succeeded or was deleted.
EndsRecorded ==
  \A r \in Requests :
    "started" \in Types(r) /\ req[r].pc \in {"raised", "returned"} =>
      \/ Types(r) \cap {"succeeded", "failed"} # {}
      \/ \E j \in Told({"answered", "rerun", "ended", "archived"}) : j > req[r].since

\* The input of the question that waits holds, under each key, what the last
\* draft saved since it was asked put there: no draft loses another's.
LastSaved(n, k) ==
  LET i == SelectLastInSeq(log, LAMBDA e : e.node = n /\ <<e.type, e.key>> \in {<<"asked", None>>, <<"saved", k>>})
  IN  IF i = 0 THEN None ELSE log[i].value
DraftsKept == \A n \in open, k \in Keys : snapshot[n][k] = LastSaved(n, k)
=============================================================================
