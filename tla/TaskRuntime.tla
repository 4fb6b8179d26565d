----------------------------- MODULE TaskRuntime -----------------------------
(* SqliteRuntimeService on one task: the rows of the task, its node           *)
(* executions and its events, and the requests that work on them.  The        *)
(* service is one asyncio process and a request gives way at every database   *)
(* call, so an action is one transaction, or one read, of one request; what   *)
(* the request remembers in between is mem[r].                                *)
(*                                                                            *)
(* A request that a check turns away before it wrote anything leaves no       *)
(* trace: where that is its first step it is a stuttering step, later it is   *)
(* Return.  Access control, payload validation and the workflow template row  *)
(* (here the constant contract) are left out.                                 *)
EXTENDS WorkflowGraph, Sequences

CONSTANTS
    Requests,   \* the HTTP requests about this task; each is made once
    FormNodes,  \* nodes with a from_user input: they wait for a form first
    Results,    \* Results[n]: the ways node.run of n may end
    RerunNodes, \* nodes a caller may ask to rerun
    Fields,     \* form fields a draft may save
    Exclusive   \* kinds of request of which callers have one in flight at most

VARIABLES
    task,       \* the row of tasks: [status, view, finished]
    execs,      \* the rows of node_executions, in insertion order
    events,     \* the rows of task_events, in insertion order
    pc,         \* pc[r]: where request r is
    req,        \* req[r]: what r asks for, [kind, node, fields]
    mem         \* mem[r]: the local variables of r's handler

db == <<task, execs, events>>
vars == <<task, execs, events, pc, req, mem>>

Kinds == {"create", "resume", "draft", "rerun", "delete"}
Drivers == {"create", "resume", "rerun"}
Statuses == {"none", "running", "waiting", "failed", "succeeded", "archived"}
ExecStatuses == {"running", "waiting", "failed", "succeeded", "superseded"}

ASSUME RuntimeAssumption ==
    /\ FormNodes \subseteq Nodes
    /\ RerunNodes \subseteq Nodes
    /\ Results \in [Nodes -> SUBSET {"succeeded", "waiting", "failed"}]
    /\ Exclusive \subseteq Kinds

----------------------------------------------------------------------------
(* What the code computes from the rows.                                      *)

NoOutput == "no output"
NoOutputs == [n \in Nodes |-> [by |-> 0, val |-> NoOutput]]   \* an empty dictionary

Live(es, i) == es[i].status # "superseded"

\* Mutants: superseded executions count as started; only results do.
StartedNodesEver(es) == {es[i].node : i \in DOMAIN es}
StartedNodesDone(es) == {es[i].node : i \in {j \in DOMAIN es : es[j].status = "succeeded"}}
StartedNodes(es) == {es[i].node : i \in {j \in DOMAIN es : Live(es, j)}}

\* Mutant: the rows of the node, without asking whether they wait.
AnyAt(es, n) == {i \in DOMAIN es : es[i].node = n}
WaitingAt(es, n) == {i \in DOMAIN es : es[i].node = n /\ es[i].status = "waiting"}
Latest(S) == CHOOSE i \in S : \A j \in S : j <= i

\* The newest row of each node among those with one of the given statuses, or 0.
LatestByNode(es, sts) ==
    [n \in Nodes |-> Latest({0} \cup {i \in DOMAIN es : es[i].node = n /\ es[i].status \in sts})]

LatestOutputs(es) ==
    [n \in Nodes |->
        LET i == LatestByNode(es, {"succeeded"})[n]
        IN  [by |-> i, val |-> IF i = 0 THEN NoOutput ELSE es[i].output]]

\* Mutant: a rerun supersedes what the view shows, and no failed row.
CurrentInView(es, S) == {LatestByNode(es, {"succeeded", "waiting"})[n] : n \in S} \ {0}

\* The rows rerun_node supersedes: the newest current one of each node in S.
CurrentRows(es, S) ==
    {LatestByNode(es, ExecStatuses \ {"superseded"})[n] : n \in S} \ {0}

\* build_current_view
View(status, es, final) ==
    [status |-> status,
     active |-> LatestByNode(es, {"succeeded", "waiting"}),
     final |-> final]

\* Mutant: superseded attempts are not counted.
NextLiveAttempt(es, n) ==
    1 + Latest({0} \cup {es[i].attempt : i \in {j \in DOMAIN es : es[j].node = n /\ Live(es, j)}})
NextAttempt(es, n) ==
    1 + Latest({0} \cup {es[i].attempt : i \in {j \in DOMAIN es : es[j].node = n}})

Event(type, nodes) == [type |-> type, nodes |-> nodes]

----------------------------------------------------------------------------
(* Requests.                                                                  *)

NoMem == [view |-> View("none", <<>>, NoOutputs), exec |-> 0, node |-> START,
          started |-> {}, waiting |-> FALSE, outs |-> NoOutputs, todo |-> {},
          attempt |-> 0, fields |-> {}, doomed |-> {}]

InFlight(r) == pc[r] \notin {"new", "done"}

Admitted(kind) ==
    kind \in Exclusive =>
        \A q \in Requests : InFlight(q) => req[q].kind \notin Exclusive

Arrive(r, kind, n, S, first) ==
    /\ pc[r] = "new"
    /\ Admitted(kind)
    /\ req' = [req EXCEPT ![r] = [kind |-> kind, node |-> n, fields |-> S]]
    /\ pc' = [pc EXCEPT ![r] = first]

Goto(r, to) == pc' = [pc EXCEPT ![r] = to] /\ UNCHANGED req
Return(r) == Goto(r, "done") /\ mem' = [mem EXCEPT ![r] = NoMem]

\* Mutant: no request turns an exception into a failed task.
RaiseOnly(r) == Return(r)

\* create_task and resume_task turn an exception of _continue_task into
\* _fail_task; rerun_node lets it through.
Raise(r) ==
    IF req[r].kind = "rerun"
    THEN Return(r)
    ELSE Goto(r, "fail") /\ UNCHANGED mem

Init ==
    /\ task = [status |-> "none", view |-> View("none", <<>>, NoOutputs),
               finished |-> FALSE]
    /\ execs = <<>>
    /\ events = <<>>
    /\ pc = [r \in Requests |-> "new"]
    /\ req = [r \in Requests |-> [kind |-> "create", node |-> START, fields |-> {}]]
    /\ mem = [r \in Requests |-> NoMem]

----------------------------------------------------------------------------
(* create_task_from_contract: the transaction that inserts the task.          *)

CreateTask(r) ==
    /\ task.status = "none"
    /\ Arrive(r, "create", START, {}, "continue")
    /\ task' = [status |-> "running", view |-> View("running", <<>>, NoOutputs),
                finished |-> FALSE]
    /\ events' = events \o <<Event("task_created", {}), Event("task_started", {})>>
    /\ UNCHANGED <<execs, mem>>

----------------------------------------------------------------------------
(* resume_task.                                                               *)

\* The task row is read and must be waiting; its view is kept for the commit.
ResumeTask(r, n) ==
    /\ task.status = "waiting"
    /\ Arrive(r, "resume", n, {}, "find waiting")
    /\ mem' = [mem EXCEPT ![r].view = task.view]
    /\ UNCHANGED db

\* _get_waiting_execution, and the choice between the two ways to resume.
FindWaiting(r) ==
    LET found == WaitingAt(execs, req[r].node)
    IN  /\ pc[r] = "find waiting"
        /\ IF found = {}
           THEN Return(r)
           ELSE /\ mem' = [mem EXCEPT ![r].exec = Latest(found)]
                /\ Goto(r, IF execs[Latest(found)].form THEN "load input" ELSE "answer")
        /\ UNCHANGED db

\* The payload becomes the node's output, if one row is still waiting.
Answer(r, v) ==
    LET n == req[r].node
    IN  /\ pc[r] = "answer"
        /\ v \in Yields[n]
        /\ \/ /\ \A i \in WaitingAt(execs, n) : WaitingAt(execs, n) # {i}
              /\ Return(r)
              /\ UNCHANGED db
           \/ \E i \in DOMAIN execs :
              /\ WaitingAt(execs, n) = {i}
              /\ execs' = [execs EXCEPT ![i].status = "succeeded", ![i].output = v]
              /\ task' = [task EXCEPT !.status = "running",
                                      !.view = [mem[r].view EXCEPT !.status = "running"]]
              /\ events' = events \o <<Event("task_resumed", {n}), Event("node_succeeded", {n})>>
              /\ Goto(r, "continue")
              /\ mem' = [mem EXCEPT ![r] = NoMem]

\* _resume_node_with_input up to its transaction: resolve_node_inputs.
LoadInput(r) ==
    LET outs == LatestOutputs(execs)
    IN  /\ pc[r] = "load input"
        /\ IF Reads[req[r].node] \subseteq Completed(outs)
           THEN Goto(r, "submit") /\ mem' = [mem EXCEPT ![r].outs = outs]
           ELSE Return(r)
        /\ UNCHANGED db

\* input_snapshot: which execution each input was taken from.
Uses(n, outs) == [m \in Nodes |-> IF m \in Reads[n] THEN outs[m].by ELSE 0]

\* The row is set running if it is still waiting; either way the run goes on.
Submit(r) ==
    LET n == req[r].node
        i == mem[r].exec
    IN  /\ pc[r] = "submit"
        /\ execs' = IF execs[i].status # "waiting" THEN execs
                    ELSE [execs EXCEPT ![i].status = "running",
                                       ![i].uses = Uses(n, mem[r].outs),
                                       ![i].fields = {}]
        /\ task' = [task EXCEPT !.status = "running",
                                !.view = [mem[r].view EXCEPT !.status = "running"]]
        /\ events' = Append(events, Event("task_resumed", {n}))
        /\ Goto(r, "run input")
        /\ mem' = [mem EXCEPT ![r] = [NoMem EXCEPT !.exec = i, !.node = n]]

----------------------------------------------------------------------------
(* _continue_task: the loop that drives a task.                               *)

\* Mutant: the loop goes on beside a failure.
NoneFailed(es) == FALSE
AnyFailed(es) == \E i \in DOMAIN es : es[i].status = "failed"

\* The first read: any failed execution ends the request.
ReadExecutions(r) ==
    /\ pc[r] = "continue"
    /\ IF AnyFailed(execs)
       THEN Return(r)
       ELSE /\ mem' = [mem EXCEPT
                 ![r].started = StartedNodes(execs),
                 ![r].waiting = \E i \in DOMAIN execs : execs[i].status = "waiting"]
            /\ Goto(r, "load outputs")
    /\ UNCHANGED db

\* Mutant: an idle task is not finished.
IdleReturns(r) == Return(r)

\* Nothing is ready: a task that waits is left, any other is finished.
Idle(r) ==
    IF mem[r].waiting
    THEN Return(r)
    ELSE Goto(r, "finish") /\ mem' = [mem EXCEPT ![r] = NoMem]

\* The second read, and the nodes that are ready by the two of them.
LoadOutputs(r) ==
    LET outs == LatestOutputs(execs)
        todo == ReadyNodes(outs, mem[r].started)
    IN  /\ pc[r] = "load outputs"
        /\ \/ ActivationFails(outs) /\ Raise(r)
           \/ /\ ~ActivationFails(outs) /\ todo # {}
              /\ mem' = [mem EXCEPT ![r] = [NoMem EXCEPT !.outs = outs, !.todo = todo]]
              /\ Goto(r, "resolve")
           \/ ~ActivationFails(outs) /\ todo = {} /\ Idle(r)
        /\ UNCHANGED db

\* _start_node_execution up to its transaction: the inputs are resolved, which
\* raises when an output they refer to is missing, and the attempt is read.
ResolveInputs(r) ==
    /\ pc[r] = "resolve"
    /\ \E n \in mem[r].todo :
        /\ First(n, mem[r].todo)
        /\ IF Reads[n] \subseteq Completed(mem[r].outs)
           THEN /\ mem' = [mem EXCEPT ![r].node = n, ![r].attempt = NextAttempt(execs, n)]
                /\ Goto(r, "insert")
           ELSE Raise(r)
    /\ UNCHANGED db

\* The new row.  A node with a form waits at once, any other is run.
StartNode(r) ==
    LET n == mem[r].node
    IN  /\ pc[r] = "insert"
        /\ execs' = Append(execs,
              [node |-> n, attempt |-> mem[r].attempt, status |-> "running",
               form |-> FALSE, output |-> NoOutput,
               uses |-> Uses(n, mem[r].outs), fields |-> {}])
        /\ events' = Append(events, Event("node_started", {n}))
        /\ mem' = [mem EXCEPT ![r].exec = Len(execs) + 1]
        /\ Goto(r, IF n \in FormNodes THEN "ask" ELSE "run")
        /\ UNCHANGED task

\* After a mark the loop looks at the row again.  The run of a resumed node is
\* outside the loop: it ends there, or goes on to it.
AfterMark(r, next) ==
    IF pc[r] = "run input"
    THEN Goto(r, next) /\ mem' = [mem EXCEPT ![r] = NoMem]
    ELSE Goto(r, "look") /\ UNCHANGED mem

\* Mutant: the view is built before the row is marked.
MarkWaitingLate(r) ==
    LET i == mem[r].exec
        n == mem[r].node
    IN  /\ \/ pc[r] = "ask"
           \/ pc[r] \in {"run", "run input"} /\ "waiting" \in Results[n]
        /\ execs' = [execs EXCEPT ![i].status = "waiting", ![i].form = (pc[r] = "ask")]
        /\ task' = [task EXCEPT !.status = "waiting", !.view = View("waiting", execs, NoOutputs)]
        /\ events' = events \o <<Event("node_waiting", {n}), Event("human_input_requested", {n}),
                                 Event("task_waiting", {n})>>
        /\ AfterMark(r, "done")

\* _mark_node_waiting
MarkWaiting(r) ==
    LET i == mem[r].exec
        n == mem[r].node
    IN  /\ \/ pc[r] = "ask"
           \/ pc[r] \in {"run", "run input"} /\ "waiting" \in Results[n]
        /\ execs' = [execs EXCEPT ![i].status = "waiting", ![i].form = (pc[r] = "ask")]
        /\ task' = [task EXCEPT !.status = "waiting",
                                !.view = View("waiting", execs', NoOutputs)]
        /\ events' = events \o <<Event("node_waiting", {n}), Event("human_input_requested", {n}),
                                 Event("task_waiting", {n})>>
        /\ AfterMark(r, "done")

\* _mark_node_succeeded leaves the task row, and so its view, as it was.
MarkSucceeded(r, v) ==
    LET i == mem[r].exec
        n == mem[r].node
    IN  /\ pc[r] \in {"run", "run input"}
        /\ "succeeded" \in Results[n]
        /\ v \in Yields[n]
        /\ execs' = [execs EXCEPT ![i].status = "succeeded", ![i].output = v, ![i].form = FALSE]
        /\ events' = Append(events, Event("node_succeeded", {n}))
        /\ AfterMark(r, "continue")
        /\ UNCHANGED task

\* _mark_node_failed, after node.run raised or returned something unusable.
MarkFailed(r) ==
    LET i == mem[r].exec
        n == mem[r].node
    IN  /\ pc[r] \in {"run", "run input"}
        /\ "failed" \in Results[n]
        /\ execs' = [execs EXCEPT ![i].status = "failed"]
        /\ task' = [status |-> "failed", view |-> View("failed", execs', NoOutputs),
                    finished |-> TRUE]
        /\ events' = events \o <<Event("node_failed", {n}), Event("task_failed", {n})>>
        /\ AfterMark(r, "done")

\* Mutant: the request stays until its question is answered.
LookPolls(r) ==
    /\ pc[r] = "look"
    /\ IF execs[mem[r].exec].status = "waiting"
       THEN Goto(r, "look") /\ UNCHANGED mem
       ELSE Return(r)
    /\ UNCHANGED db

\* _get_execution after the mark: what it says now decides how the loop goes on.
LookAgain(r) ==
    LET rest == mem[r].todo \ {mem[r].node}
    IN  /\ pc[r] = "look"
        /\ IF execs[mem[r].exec].status \in {"waiting", "failed"}
           THEN Return(r)
           ELSE IF rest = {}
           THEN Goto(r, "continue") /\ mem' = [mem EXCEPT ![r] = NoMem]
           ELSE /\ Goto(r, "resolve")
                /\ mem' = [mem EXCEPT ![r] = [NoMem EXCEPT !.outs = mem[r].outs, !.todo = rest]]
        /\ UNCHANGED db

\* Some handlers read the executions before the first write of their
\* transaction, which is where sqlite3 begins it: a commit can come in between.
ReadView(r, from, to, status, final) ==
    /\ pc[r] = from
    /\ mem' = [mem EXCEPT ![r].view = View(status, execs, final)]
    /\ Goto(r, to)
    /\ UNCHANGED db

\* _finish_task
FinishRead(r) == ReadView(r, "finish", "finish commit", "succeeded", LatestOutputs(execs))
FinishTask(r) ==
    /\ pc[r] = "finish commit"
    /\ task' = [status |-> "succeeded", view |-> mem[r].view, finished |-> TRUE]
    /\ events' = Append(events, Event("task_succeeded", {}))
    /\ Return(r)
    /\ UNCHANGED execs

\* _fail_task: the event is written even when the update matches no row.
FailRead(r) == ReadView(r, "fail", "fail commit", "failed", NoOutputs)
FailTask(r) ==
    /\ pc[r] = "fail commit"
    /\ task' = IF task.status = "failed" THEN task
               ELSE [status |-> "failed", view |-> mem[r].view, finished |-> TRUE]
    /\ events' = Append(events, Event("task_failed", {}))
    /\ Return(r)
    /\ UNCHANGED execs

----------------------------------------------------------------------------
(* save_waiting_node_draft.                                                   *)

SaveDraft(r, n, S) ==
    /\ task.status = "waiting"
    /\ S # {}
    /\ Arrive(r, "draft", n, S, "find draft")
    /\ UNCHANGED <<mem, task, execs, events>>

\* The snapshot is merged with the fields sent; nothing new, nothing saved.  A
\* field that was saved before may come with another value, and is new then.
MergeDraft(r) ==
    LET found == WaitingAt(execs, req[r].node)
    IN  /\ pc[r] = "find draft"
        /\ \/ /\ found # {} => req[r].fields \subseteq execs[Latest(found)].fields
              /\ Return(r)
           \/ /\ found # {}
              /\ mem' = [mem EXCEPT
                     ![r].fields = execs[Latest(found)].fields \cup req[r].fields]
              /\ Goto(r, "save draft")
        /\ UNCHANGED db

\* Mutant: a draft sets the task's status too, not just its view.
CommitDraftStatus(r) ==
    LET n == req[r].node
    IN  /\ pc[r] = "save draft"
        /\ Return(r)
        /\ \E i \in DOMAIN execs :
              /\ WaitingAt(execs, n) = {i}
              /\ execs' = [execs EXCEPT ![i].fields = mem[r].fields]
              /\ task' = [task EXCEPT !.status = "waiting", !.view = View("waiting", execs', NoOutputs)]
              /\ events' = Append(events, Event("node_draft_saved", {n}))

CommitDraft(r) ==
    LET n == req[r].node
    IN  /\ pc[r] = "save draft"
        /\ Return(r)
        /\ \/ /\ \A i \in WaitingAt(execs, n) : WaitingAt(execs, n) # {i}
              /\ UNCHANGED db
           \/ \E i \in DOMAIN execs :
              /\ WaitingAt(execs, n) = {i}
              /\ execs' = [execs EXCEPT ![i].fields = mem[r].fields]
              /\ task' = [task EXCEPT !.view = View("waiting", execs', NoOutputs)]
              /\ events' = Append(events, Event("node_draft_saved", {n}))

----------------------------------------------------------------------------
(* rerun_node and delete_task.                                                *)

\* The task must exist; nothing else is asked of it.
RerunNode(r, n) ==
    /\ task.status # "none"
    /\ n \in RerunNodes
    /\ Arrive(r, "rerun", n, {}, "find current")
    /\ UNCHANGED <<mem, task, execs, events>>

FindCurrent(r) ==
    /\ pc[r] = "find current"
    /\ mem' = [mem EXCEPT ![r].doomed = CurrentRows(execs, Affected(req[r].node))]
    /\ Goto(r, "clear")
    /\ UNCHANGED db

\* Where there is nothing to supersede, the executions are read for the view
\* before the first write.
ClearRead(r) ==
    mem[r].doomed = {} /\ ReadView(r, "clear", "clear commit", "running", NoOutputs)

ClearDownstream(r) ==
    LET n == req[r].node
        none == mem[r].doomed = {}
    IN  /\ pc[r] = IF none THEN "clear commit" ELSE "clear"
        /\ execs' = [i \in DOMAIN execs |->
                        IF i \in mem[r].doomed
                        THEN [execs[i] EXCEPT !.status = "superseded"] ELSE execs[i]]
        /\ task' = [status |-> "running", finished |-> FALSE,
                    view |-> IF none THEN mem[r].view ELSE View("running", execs', NoOutputs)]
        /\ events' = events \o <<Event("node_rerun_started", {n}),
                                 Event("downstream_cleared", Affected(n))>>
        /\ Goto(r, "continue")
        /\ mem' = [mem EXCEPT ![r] = NoMem]

DeleteTask(r) ==
    /\ task.status \notin {"none", "archived"}
    /\ Arrive(r, "delete", START, {}, "archive")
    /\ UNCHANGED <<mem, task, execs, events>>

\* Mutant: a status nobody else knows.
ArchiveReadDeleted(r) == ReadView(r, "archive", "archive commit", "deleted", NoOutputs)
ArchiveRead(r) == ReadView(r, "archive", "archive commit", "archived", NoOutputs)
ArchiveTask(r) ==
    /\ pc[r] = "archive commit"
    /\ task' = [status |-> "archived", view |-> mem[r].view, finished |-> TRUE]
    /\ events' = Append(events, Event("task_archived", {}))
    /\ Return(r)
    /\ UNCHANGED execs

----------------------------------------------------------------------------
(* The process dies: the requests in flight are gone, the rows stay.  Nothing *)
(* in the code picks such a task up again when the process is restarted.      *)

Crash ==
    /\ \E r \in Requests : InFlight(r)
    /\ pc' = [r \in Requests |-> IF InFlight(r) THEN "done" ELSE pc[r]]
    /\ mem' = [r \in Requests |-> NoMem]
    /\ UNCHANGED <<task, execs, events, req>>

----------------------------------------------------------------------------
Handle(r) ==
    \/ FindWaiting(r) \/ (\E v \in Outputs : Answer(r, v))
    \/ LoadInput(r) \/ Submit(r)
    \/ ReadExecutions(r) \/ LoadOutputs(r) \/ ResolveInputs(r) \/ StartNode(r)
    \/ MarkWaiting(r) \/ (\E v \in Outputs : MarkSucceeded(r, v)) \/ MarkFailed(r)
    \/ LookAgain(r)
    \/ FinishRead(r) \/ FinishTask(r) \/ FailRead(r) \/ FailTask(r)
    \/ MergeDraft(r) \/ CommitDraft(r)
    \/ FindCurrent(r) \/ ClearRead(r) \/ ClearDownstream(r)
    \/ ArchiveRead(r) \/ ArchiveTask(r)

Call(r) ==
    \/ CreateTask(r)
    \/ \E n \in Nodes : ResumeTask(r, n) \/ RerunNode(r, n)
    \/ \E n \in Nodes, S \in SUBSET Fields : SaveDraft(r, n, S)
    \/ DeleteTask(r)

Next == \E r \in Requests : Call(r) \/ Handle(r)

Spec == Init /\ [][Next]_vars

\* A handler that can take its next step takes it: awaits are served in turn.
\* Callers owe nothing.
FairSpec == Spec /\ \A r \in Requests : WF_vars(Handle(r))

\* The process may die, too.
CrashSpec == Init /\ [][Next \/ Crash]_vars
=============================================================================
