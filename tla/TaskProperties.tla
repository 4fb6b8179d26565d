--------------------------- MODULE TaskProperties ---------------------------
(* What the rows of a task promise: the type of the state, and properties     *)
(* that relate executions, task row, view and events across requests.         *)
EXTENDS TaskRuntime

----------------------------------------------------------------------------
(* Types.                                                                     *)

NodeOutput == [by : Nat, val : Outputs \cup {NoOutput}]
CurrentView == [status : Statuses, active : [Nodes -> Nat], final : [Nodes -> NodeOutput]]
Execution == [node : Nodes, attempt : Nat, status : ExecStatuses, form : BOOLEAN,
              output : Outputs \cup {NoOutput}, uses : [Nodes -> Nat], fields : SUBSET Fields]
EventTypes == {"task_created", "task_started", "task_resumed", "task_waiting",
               "task_succeeded", "task_failed", "task_archived",
               "node_started", "node_waiting", "node_succeeded", "node_failed",
               "human_input_requested", "node_draft_saved",
               "node_rerun_started", "downstream_cleared"}
EventRow == [type : EventTypes, nodes : SUBSET Nodes]
Locals == [view : CurrentView, exec : Nat, node : Nodes \cup {START},
           started : SUBSET Nodes, waiting : BOOLEAN, outs : [Nodes -> NodeOutput],
           todo : SUBSET Nodes, attempt : Nat, fields : SUBSET Fields,
           doomed : SUBSET Nat]

ResumePlaces == {"find waiting", "answer", "load input", "submit", "run input"}
LoopPlaces == {"continue", "load outputs", "resolve", "insert", "ask", "run", "look",
               "finish", "finish commit", "fail", "fail commit"}
RerunPlaces == {"find current", "clear", "clear commit"}
DriverPlaces == ResumePlaces \cup LoopPlaces \cup RerunPlaces
DraftPlaces == {"find draft", "save draft"}
DeletePlaces == {"archive", "archive commit"}
Places == {"new", "done"} \cup DriverPlaces \cup DraftPlaces \cup DeletePlaces

RowsOK ==
    /\ task \in [status : Statuses, view : CurrentView, finished : BOOLEAN]
    /\ execs \in Seq(Execution)
    /\ events \in Seq(EventRow)

RequestsOK ==
    /\ pc \in [Requests -> Places]
    /\ req \in [Requests -> [kind : Kinds, node : Nodes \cup {START}, fields : SUBSET Fields]]
    /\ mem \in [Requests -> Locals]

\* Every row, and everything a request remembers, has its type.
TypeOK == RowsOK /\ RequestsOK

----------------------------------------------------------------------------
(* Executions.                                                                *)

\* A node has at most one current execution: no request ever starts a node
\* that another one has already started and not superseded.
OneCurrentExecution ==
    \A i, j \in DOMAIN execs :
        Live(execs, i) /\ Live(execs, j) /\ execs[i].node = execs[j].node => i = j

\* Attempts of a node count up from one, and only the newest can be current.
AttemptsInOrder ==
    \A i \in DOMAIN execs :
        LET earlier == {j \in 1..(i-1) : execs[j].node = execs[i].node}
        IN  /\ execs[i].attempt = 1 + Cardinality(earlier)
            /\ \A j \in earlier : ~Live(execs, j)

\* A node runs only when every node above it that was started has succeeded:
\* a join never overtakes one of its branches.
BranchesDoneFirst ==
    \A i, j \in DOMAIN execs :
        Live(execs, i) /\ Live(execs, j) /\ execs[j].node \in Upstream(execs[i].node)
            => execs[j].status = "succeeded"

\* Current results were computed from current results: after any sequence of
\* reruns no execution in use has read an output that is no longer in use.
InputsCurrent ==
    \A i \in DOMAIN execs : Live(execs, i) =>
        \A m \in Reads[execs[i].node] :
            LET j == execs[i].uses[m]
            IN  execs[j].node = m /\ execs[j].status = "succeeded"

\* Rows are history: none is removed or renamed, a superseded one stays
\* superseded, and a result once recorded is never overwritten.
HistoryStep ==
    \A i \in DOMAIN execs :
        /\ i \in DOMAIN execs'
        /\ execs'[i].node = execs[i].node
        /\ execs'[i].attempt = execs[i].attempt
        /\ ~Live(execs, i) => ~Live(execs', i)
        /\ execs[i].status \in {"succeeded", "superseded"} => execs'[i].output = execs[i].output
HistoryKept == [][HistoryStep]_execs

----------------------------------------------------------------------------
(* The task row.                                                              *)

NoDriver == \A r \in Requests : InFlight(r) => req[r].kind \notin Drivers
NoRequest == \A r \in Requests : ~InFlight(r)

\* A task that says it is running has a request that runs it.
NothingStuck == NoDriver => task.status # "running"

\* The scheduler gets no further from these rows: a condition cannot be
\* resolved, or a node that is ready misses an output it reads.
Blocked(es) ==
    LET outs == LatestOutputs(es)
    IN  \/ ActivationFails(outs)
        \/ \E n \in ReadyNodes(outs, StartedNodes(es)) : ~(Reads[n] \subseteq Completed(outs))

Stops == {"waiting", "failed"}
Stopped(es) == \E i \in DOMAIN es : es[i].status \in Stops

\* A task that says running while nobody runs it, whatever was rerun, is left so
\* beside something that waits or has failed, or by a rerun whose loop the rows
\* let go no further: no request leaves behind a task it could have continued,
\* and only a rerun lets an exception through.
StuckForAReason ==
    NoDriver /\ task.status = "running" =>
        \/ Stopped(execs)
        \/ Blocked(execs) /\ \E r \in Requests : pc[r] = "done" /\ req[r].kind = "rerun"

\* A waiting task waits for a node somebody can answer.
WaitingIsAnswerable ==
    NoDriver /\ task.status = "waiting" =>
        /\ \E i \in DOMAIN execs : execs[i].status = "waiting"
        /\ \A i \in DOMAIN execs : execs[i].status # "failed"

\* A task succeeds only when every node the outputs activate has succeeded, and
\* its final output is that of the current executions.
SucceededIsComplete ==
    task.status = "succeeded" =>
        LET outs == LatestOutputs(execs)
        IN  /\ \A i \in DOMAIN execs : execs[i].status \in {"succeeded", "superseded"}
            /\ ActiveNodes(outs) = Completed(outs)
            /\ task.view.final = outs

\* When no request is under way and the task is at rest, the view names the
\* current executions, finished_at is set exactly on a task that has ended, and
\* the view's status is the task's, unless a draft was the last to write it.
ViewIsCurrent ==
    NoRequest /\ task.status # "running" =>
        /\ task.view.active = LatestByNode(execs, {"succeeded", "waiting"})
        /\ task.finished <=> task.status \in {"succeeded", "failed", "archived"}
        /\ \/ task.view.status = task.status
           \/ /\ task.view.status = "waiting"
              /\ events # <<>> /\ events[Len(events)].type = "node_draft_saved"

\* A deleted task that nobody drives any more stays deleted and undriven, until
\* one of its nodes is rerun.
ArchivedStays ==
    [][task.status = "archived" /\ NoDriver =>
           /\ task'.status = "archived"
           /\ \A r \in Requests :
                  InFlight(r)' /\ req'[r].kind \in Drivers => pc[r] = "new" /\ req'[r].kind = "rerun"]_vars

\* A question is answered once: a node is resumed at most as often as it asked.
AnswersMatchQuestions ==
    \A n \in Nodes :
        LET told(type) == {k \in DOMAIN events : events[k] = Event(type, {n})}
        IN  Cardinality(told("task_resumed")) <= Cardinality(told("node_waiting"))

----------------------------------------------------------------------------
(* The event stream.                                                          *)

Tells(type) ==
    CASE type \in {"node_started", "task_resumed"} -> "running"
      [] type \in {"node_waiting", "human_input_requested", "task_waiting",
                   "node_draft_saved"} -> "waiting"
      [] type = "node_succeeded" -> "succeeded"
      [] type \in {"node_failed", "task_failed"} -> "failed"
      [] type \in {"node_rerun_started", "downstream_cleared"} -> "cleared"

\* A client that only follows the events knows the state of every node: the
\* last event about a node tells the status of its current execution.
EventsTellTheRows ==
    \A n \in Nodes :
        LET about == {k \in DOMAIN events : n \in events[k].nodes}
            current == {i \in DOMAIN execs : execs[i].node = n /\ Live(execs, i)}
            told == IF about = {} THEN "cleared" ELSE Tells(events[Latest(about)].type)
        IN  /\ current = {} => told = "cleared"
            /\ \A i \in current : execs[i].status = told

----------------------------------------------------------------------------
(* Progress.                                                                  *)

\* Every request ends, whatever the others do.
RequestsReturn == \A r \in Requests : InFlight(r) ~> ~InFlight(r)

\* A running task comes to rest.
TaskSettles == (task.status = "running") ~> (task.status # "running")

----------------------------------------------------------------------------
(* What a client may rely on: the task implements TaskBoard.                  *)

CurrentAt(es, n) == {i \in DOMAIN es : es[i].node = n /\ Live(es, i)}
Cell(es, n) ==
    IF CurrentAt(es, n) = {} THEN "idle" ELSE es[CHOOSE i \in CurrentAt(es, n) : TRUE].status

Board == INSTANCE TaskBoard WITH
    board <- [n \in Nodes |-> Cell(execs, n)], phase <- task.status,
    Below <- [n \in Nodes |-> Affected(n)]

\* With one driving request at a time, whatever drafts, deletions and crashes
\* come in between, every step of every handler is a step of the board or
\* changes nothing on it: rows, snapshots and the reads before a commit never
\* show a client a node that starts twice, a result that was not worked for,
\* or a success beside a question or a failure.
BoardShown == Board!Spec
=============================================================================
