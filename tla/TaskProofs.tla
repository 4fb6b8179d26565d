---------------------------- MODULE TaskProofs -----------------------------
(* Theorems about TaskRuntime, for every contract and any number of         *)
(* requests: its types; what holds of a task's executions, of their attempts  *)
(* and of the answers to their questions; that it implements TaskBoard; and   *)
(* that its events tell what its rows say.                                    *)
EXTENDS TaskProperties, TLAPS, FiniteSetTheorems, WellFoundedInduction, SequenceTheorems

----------------------------------------------------------------------------
(* The newest of a finite set of row numbers.                                 *)

\* A finite set of naturals that is not empty has a greatest element.
LEMMA GreatestExists ==
    ASSUME NEW S \in SUBSET Nat, IsFiniteSet(S), S # {}
    PROVE  \E i \in S : \A j \in S : j <= i
<1> DEFINE Above(i) == {j \in S : i < j}
           A == {Above(i) : i \in S}
<1>1. A \subseteq FiniteSubsetsOf(S)
  BY FS_Subset DEF FiniteSubsetsOf
<1>2. A # {}
  OBVIOUS
<1>3. IsWellFoundedOn(StrictSubsetOrdering(S), FiniteSubsetsOf(S))
  BY FS_StrictSubsetOrderingWellFounded
<1> HIDE DEF A
<1>4. PICK X \in A : \A Y \in A : ~(<<Y, X>> \in StrictSubsetOrdering(S))
  BY <1>1, <1>2, <1>3, WFMin
<1>5. PICK i \in S : X = Above(i)
  BY <1>4 DEF A
<1>6. ASSUME NEW j \in S, ~(j <= i) PROVE FALSE
  <2>1. i \in Nat /\ j \in Nat /\ \A k \in S : k \in Nat
    OBVIOUS
  <2>2. i < j /\ ~(j < j) /\ \A k \in S : j < k => i < k
    BY <1>6, <2>1
  <2>3. j \in Above(i) /\ j \notin Above(j) /\ Above(j) \subseteq Above(i)
    <3>1. j \in Above(i) /\ j \notin Above(j)
      BY <2>2
    <3>2. Above(j) \subseteq Above(i)
      BY <2>2
    <3> QED BY <3>1, <3>2
  <2>4. Above(j) \in A
    BY DEF A
  <2>5. <<Above(j), Above(i)>> \in StrictSubsetOrdering(S)
    BY <2>3 DEF StrictSubsetOrdering
  <2> QED BY <1>4, <1>5, <2>4, <2>5
<1> QED BY <1>6

\* Latest is that element.
LEMMA LatestIs ==
    ASSUME NEW S \in SUBSET Nat, IsFiniteSet(S), S # {}
    PROVE  Latest(S) \in S /\ \A j \in S : j <= Latest(S)
BY GreatestExists DEF Latest

\* Over rows of a sequence, with 0 for none.
LEMMA LatestRow ==
    ASSUME NEW n \in Nat, NEW S \in SUBSET (1..n)
    PROVE  Latest({0} \cup S) \in {0} \cup S
<1>1. IsFiniteSet(0..n)
  BY FS_Interval, n \in Int, 0 \in Int
<1>2. {0} \cup S \subseteq 0..n
  OBVIOUS
<1>3. IsFiniteSet({0} \cup S)
  BY <1>1, <1>2, FS_Subset
<1> QED BY <1>3, LatestIs

LEMMA LatestFound ==
    ASSUME NEW n \in Nat, NEW S \in SUBSET (1..n), S # {}
    PROVE  Latest(S) \in S
<1>1. IsFiniteSet(1..n)
  BY FS_Interval, n \in Int, 1 \in Int
<1>2. IsFiniteSet(S)
  BY <1>1, FS_Subset
<1> QED BY <1>2, LatestIs

----------------------------------------------------------------------------
(* The types of what is computed from the rows.                               *)

\* LatestByNode gives a row of the node, with one of the statuses, or 0.
LEMMA LatestByNodeType ==
    ASSUME NEW es \in Seq(Execution), NEW sts
    PROVE  /\ LatestByNode(es, sts) \in [Nodes -> Nat]
           /\ \A n \in Nodes : LatestByNode(es, sts)[n] # 0 =>
                /\ LatestByNode(es, sts)[n] \in DOMAIN es
                /\ es[LatestByNode(es, sts)[n]].node = n
                /\ es[LatestByNode(es, sts)[n]].status \in sts
<1> DEFINE S(n) == {i \in DOMAIN es : es[i].node = n /\ es[i].status \in sts}
<1>1. Len(es) \in Nat /\ DOMAIN es = 1..Len(es)
  BY LenProperties
<1>2. ASSUME NEW n \in Nodes PROVE Latest({0} \cup S(n)) \in {0} \cup S(n)
  BY <1>1, LatestRow
<1> QED BY <1>1, <1>2 DEF LatestByNode

LEMMA LatestOutputsType ==
    ASSUME NEW es \in Seq(Execution)
    PROVE  LatestOutputs(es) \in [Nodes -> NodeOutput]
<1>1. ASSUME NEW i \in DOMAIN es PROVE es[i].output \in Outputs \cup {NoOutput}
  <2>1. es[i] \in Execution
    BY ElementOfSeq, LenProperties
  <2> QED BY <2>1 DEF Execution
<1> QED BY <1>1, LatestByNodeType DEF LatestOutputs, NodeOutput

LEMMA ViewType ==
    ASSUME NEW es \in Seq(Execution), NEW status \in Statuses,
           NEW final \in [Nodes -> NodeOutput]
    PROVE  View(status, es, final) \in CurrentView
BY LatestByNodeType DEF View, CurrentView

LEMMA NothingType ==
    /\ NoOutputs \in [Nodes -> NodeOutput]
    /\ NoMem \in Locals
    /\ <<>> \in Seq(Execution)
<1>1. NoOutputs \in [Nodes -> NodeOutput]
  BY DEF NoOutputs, NodeOutput
<1>2. <<>> \in Seq(Execution)
  BY EmptySeq
<1>3. View("none", <<>>, NoOutputs) \in CurrentView
  BY <1>1, <1>2, ViewType DEF Statuses
<1>4. NoMem \in Locals
  BY <1>1, <1>3 DEF NoMem, Locals
<1> QED BY <1>1, <1>2, <1>4

LEMMA NextAttemptType ==
    ASSUME NEW es \in Seq(Execution), NEW n
    PROVE  NextAttempt(es, n) \in Nat
<1> DEFINE D == {j \in DOMAIN es : es[j].node = n}
           A == {es[i].attempt : i \in D}
           f == [i \in D |-> es[i].attempt]
<1>1. Len(es) \in Nat /\ DOMAIN es = 1..Len(es) /\ \A i \in DOMAIN es : es[i] \in Execution
  BY LenProperties, ElementOfSeq
<1>2. IsFiniteSet(1..Len(es))
  BY <1>1, FS_Interval, 1 \in Int
<1>3. IsFiniteSet(D)
  BY <1>1, <1>2, FS_Subset
<1>4. f \in Surjection(D, A)
  BY DEF Surjection
<1>5. IsFiniteSet(A)
  BY <1>3, <1>4, FS_Surjection
<1>6. IsFiniteSet({0} \cup A)
  BY <1>5, FS_AddElement, {0} \cup A = A \cup {0}
<1>7. A \subseteq Nat
  BY <1>1 DEF Execution
<1> HIDE DEF A
<1>8. Latest({0} \cup A) \in {0} \cup A
  BY <1>6, <1>7, LatestIs
<1>9. {0} \cup A \subseteq Nat
  BY <1>7
<1>10. Latest({0} \cup A) \in Nat
  BY <1>8, <1>9, Zenon
<1> QED BY <1>10 DEF NextAttempt, A

LEMMA UsesType ==
    ASSUME NEW n \in Nodes, NEW outs \in [Nodes -> NodeOutput]
    PROVE  Uses(n, outs) \in [Nodes -> Nat]
BY DEF Uses, NodeOutput

\* Rows rewritten in place are rows.
LEMMA RowsInPlace ==
    ASSUME NEW es \in Seq(Execution), NEW fs, DOMAIN fs = DOMAIN es,
           fs = [i \in DOMAIN es |-> fs[i]], \A i \in DOMAIN es : fs[i] \in Execution
    PROVE  fs \in Seq(Execution)
<1>1. Len(es) \in Nat /\ DOMAIN es = 1..Len(es)
  BY LenProperties
<1>2. fs \in [1..Len(es) -> Execution]
  BY <1>1
<1> QED BY <1>1, <1>2

----------------------------------------------------------------------------
(* Type correctness.  Beyond the types, a request that works on a node has    *)
(* one: START stands for no node.                                             *)

Placed ==
    \A r \in Requests :
        /\ pc[r] \in {"find waiting", "answer", "load input", "submit", "find draft",
                      "save draft", "find current", "clear", "clear commit"} => req[r].node \in Nodes
        /\ pc[r] \in {"insert", "ask", "run", "run input"} => mem[r].node \in Nodes

Typed == TypeOK /\ Placed

USE DEF Kinds, Statuses, ExecStatuses

\* The members of Places, for the provers.
LEMMA PlacesAre ==
    Places = {"new", "done", "find waiting", "answer", "load input", "submit", "run input",
              "continue", "load outputs", "resolve", "insert", "ask", "run", "look",
              "finish", "finish commit", "fail", "fail commit", "find current", "clear", "clear commit",
              "find draft", "save draft", "archive", "archive commit"}
BY DEF Places, DriverPlaces, ResumePlaces, LoopPlaces, RerunPlaces, DraftPlaces, DeletePlaces

LEMMA TypedInit == Init => Typed
<1> SUFFICES ASSUME Init PROVE Typed
  OBVIOUS
<1>1. View("none", <<>>, NoOutputs) \in CurrentView
  BY NothingType, ViewType
<1>2. RowsOK
  BY <1>1, NothingType, EmptySeq DEF Init, RowsOK
<1>3. RequestsOK /\ Placed
  BY NothingType, PlacesAre DEF Init, RequestsOK, Placed
<1> QED BY <1>2, <1>3 DEF Typed, TypeOK

\* A request that is at most sent elsewhere, with locals of their type.
LEMMA SentOn ==
    ASSUME Typed, NEW r \in Requests, NEW to \in Places, Goto(r, to),
           NEW m \in Locals, mem' = [mem EXCEPT ![r] = m],
           to \in {"find waiting", "answer", "load input", "submit", "find draft",
                   "save draft", "find current", "clear", "clear commit"} => req[r].node \in Nodes,
           to \in {"insert", "ask", "run", "run input"} => m.node \in Nodes
    PROVE  RequestsOK' /\ Placed'
<1>1. RequestsOK'
  BY DEF Typed, TypeOK, RequestsOK, Goto
<1>2. Placed'
  BY DEF Typed, TypeOK, RequestsOK, Placed, Goto
<1> QED BY <1>1, <1>2

LEMMA Returned ==
    ASSUME Typed, NEW r \in Requests, Return(r)
    PROVE  RequestsOK' /\ Placed'
BY SentOn, NothingType, PlacesAre DEF Return

LEMMA Raised ==
    ASSUME Typed, NEW r \in Requests, Raise(r)
    PROVE  RequestsOK' /\ Placed'
<1>1. CASE req[r].kind = "rerun"
  BY <1>1, Returned DEF Raise
<1>2. CASE req[r].kind # "rerun"
  <2>1. mem[r] \in Locals /\ mem' = [mem EXCEPT ![r] = mem[r]]
    BY <1>2 DEF Raise, Typed, TypeOK, RequestsOK
  <2> QED BY <1>2, <2>1, SentOn, PlacesAre DEF Raise
<1> QED BY <1>1, <1>2

LEMMA Arrived ==
    ASSUME Typed, NEW r \in Requests, NEW kind \in Kinds, NEW n \in Nodes \cup {START},
           NEW S \in SUBSET Fields, NEW first \in Places, Arrive(r, kind, n, S, first),
           NEW m \in Locals, mem' = [mem EXCEPT ![r] = m],
           first \notin {"insert", "ask", "run", "run input"},
           n = START => first \in {"continue", "archive"}
    PROVE  RequestsOK' /\ Placed'
<1>1. RequestsOK'
  BY DEF Typed, TypeOK, RequestsOK, Arrive
<1>2. Placed'
  BY DEF Typed, TypeOK, RequestsOK, Placed, Arrive
<1> QED BY <1>1, <1>2

\* A step that leaves the rows alone.
LEMMA RowsUnchanged == RowsOK /\ UNCHANGED db => RowsOK'
BY DEF RowsOK, db

LEMMA EventType ==
    ASSUME NEW type \in EventTypes, NEW S \in SUBSET Nodes
    PROVE  Event(type, S) \in EventRow
BY DEF Event, EventRow

LEMMA OneEvent ==
    ASSUME RowsOK, NEW e \in EventRow, events' = Append(events, e)
    PROVE  events' \in Seq(EventRow)
BY AppendProperties DEF RowsOK

LEMMA TwoEvents ==
    ASSUME RowsOK, NEW e1 \in EventRow, NEW e2 \in EventRow, events' = events \o <<e1, e2>>
    PROVE  events' \in Seq(EventRow)
<1>1. <<e1, e2>> \in Seq(EventRow)
  OBVIOUS
<1> QED BY <1>1, ConcatProperties DEF RowsOK

LEMMA ThreeEvents ==
    ASSUME RowsOK, NEW e1 \in EventRow, NEW e2 \in EventRow, NEW e3 \in EventRow,
           events' = events \o <<e1, e2, e3>>
    PROVE  events' \in Seq(EventRow)
<1>1. <<e1, e2, e3>> \in Seq(EventRow)
  OBVIOUS
<1> QED BY <1>1, ConcatProperties DEF RowsOK

\* Rows of which one may have been rewritten.
LEMMA RowEdited ==
    ASSUME RowsOK, NEW i, NEW row, i \in DOMAIN execs => row \in Execution,
           execs' = [execs EXCEPT ![i] = row]
    PROVE  execs' \in Seq(Execution)
<1>1. \A j \in DOMAIN execs : execs[j] \in Execution
  BY ElementOfSeq, LenProperties DEF RowsOK
<1> QED BY <1>1, RowsInPlace DEF RowsOK

LEMMA CreateTaskTyped ==
    ASSUME Typed, NEW r \in Requests, CreateTask(r)
    PROVE  Typed'
<1>1. View("running", <<>>, NoOutputs) \in CurrentView
  BY NothingType, ViewType
<1>2. task' \in [status : Statuses, view : CurrentView, finished : BOOLEAN]
  BY <1>1 DEF CreateTask
<1>3. events' \in Seq(EventRow)
  BY TwoEvents, EventType DEF CreateTask, Typed, TypeOK, EventTypes
<1>4. RowsOK'
  BY <1>2, <1>3 DEF CreateTask, RowsOK, Typed, TypeOK
<1> DEFINE m == mem[r]
<1>5. m \in Locals /\ mem' = [mem EXCEPT ![r] = m]
  BY DEF CreateTask, Typed, TypeOK, RequestsOK
<1>6. RequestsOK' /\ Placed'
  <2>1. /\ START \in Nodes \cup {START} /\ {} \in SUBSET Fields
        /\ "create" \in Kinds /\ "continue" \in Places
        /\ "continue" \notin {"insert", "ask", "run", "run input"}
        /\ Arrive(r, "create", START, {}, "continue")
    BY PlacesAre DEF CreateTask, Kinds
  <2> HIDE DEF Kinds, m
  <2> QED BY <1>5, <2>1, Arrived
<1> QED BY <1>4, <1>6 DEF Typed, TypeOK

LEMMA ResumeTaskTyped ==
    ASSUME Typed, NEW r \in Requests, NEW n \in Nodes, ResumeTask(r, n)
    PROVE  Typed'
<1> DEFINE m == [mem[r] EXCEPT !.view = task.view]
<1>1. m \in Locals
  BY DEF Typed, TypeOK, RowsOK, RequestsOK, Locals
<1>2. RequestsOK' /\ Placed'
  <2>1. /\ n \in Nodes \cup {START} /\ n # START /\ {} \in SUBSET Fields
        /\ "resume" \in Kinds /\ "find waiting" \in Places
        /\ Arrive(r, "resume", n, {}, "find waiting")
        /\ mem' = [mem EXCEPT ![r] = m]
    BY PlacesAre, NodesAssumption DEF ResumeTask
  <2> HIDE DEF Kinds, m
  <2> QED BY <1>1, <2>1, Arrived
<1>3. RowsOK'
  BY RowsUnchanged DEF ResumeTask, Typed, TypeOK
<1> QED BY <1>2, <1>3 DEF Typed, TypeOK

LEMMA FindWaitingTyped ==
    ASSUME Typed, NEW r \in Requests, FindWaiting(r)
    PROVE  Typed'
<1> DEFINE found == WaitingAt(execs, req[r].node)
<1>1. RowsOK'
  BY RowsUnchanged DEF FindWaiting, Typed, TypeOK
<1>2. RequestsOK' /\ Placed'
  <2>1. CASE found = {}
    BY <2>1, Returned DEF FindWaiting
  <2>2. CASE found # {}
    <3>1. Latest(found) \in Nat
      <4>1. Len(execs) \in Nat /\ DOMAIN execs = 1..Len(execs)
        BY LenProperties DEF Typed, TypeOK, RowsOK
      <4>2. found \subseteq 1..Len(execs)
        BY <4>1 DEF WaitingAt
      <4>3. found \subseteq Nat
        BY <4>1, <4>2
      <4> HIDE DEF found
      <4>4. Latest(found) \in found
        BY <2>2, <4>1, <4>2, LatestFound
      <4> QED BY <4>3, <4>4
    <3>2. [mem[r] EXCEPT !.exec = Latest(found)] \in Locals
      BY <3>1 DEF Typed, TypeOK, RequestsOK, Locals
    <3>3. req[r].node \in Nodes
      BY DEF FindWaiting, Typed, Placed
    <3>4. mem' = [mem EXCEPT ![r] = [mem[r] EXCEPT !.exec = Latest(found)]]
      BY <2>2 DEF FindWaiting
    <3>5. PICK to \in {"load input", "answer"} : Goto(r, to)
      BY <2>2 DEF FindWaiting
    <3> HIDE DEF found
    <3> QED BY <3>2, <3>3, <3>4, <3>5, SentOn, PlacesAre
  <2> QED BY <2>1, <2>2
<1> QED BY <1>1, <1>2 DEF Typed, TypeOK

LEMMA AnswerTyped ==
    ASSUME Typed, NEW r \in Requests, NEW v \in Outputs, Answer(r, v)
    PROVE  Typed'
<1> DEFINE n == req[r].node
<1>1. CASE Return(r) /\ UNCHANGED db
  BY <1>1, Returned, RowsUnchanged DEF Typed, TypeOK
<1>2. CASE \E i \in DOMAIN execs :
              /\ execs' = [execs EXCEPT ![i].status = "succeeded", ![i].output = v]
              /\ task' = [task EXCEPT !.status = "running",
                                      !.view = [mem[r].view EXCEPT !.status = "running"]]
              /\ events' = events \o <<Event("task_resumed", {n}), Event("node_succeeded", {n})>>
              /\ Goto(r, "continue")
              /\ mem' = [mem EXCEPT ![r] = NoMem]
  <2>1. PICK i \in DOMAIN execs : execs' = [execs EXCEPT ![i].status = "succeeded", ![i].output = v]
    BY <1>2
  <2>2. execs[i] \in Execution
    BY ElementOfSeq, LenProperties DEF Typed, TypeOK, RowsOK
  <2>3. [execs[i] EXCEPT !.status = "succeeded", !.output = v] \in Execution
    BY <2>2 DEF Execution
  <2>4. execs' \in Seq(Execution)
    <3>1. execs' = [execs EXCEPT ![i] = [execs[i] EXCEPT !.status = "succeeded", !.output = v]]
      BY <2>1
    <3> QED BY <2>3, <3>1, RowEdited DEF Typed, TypeOK
  <2>5. n \in Nodes
    BY DEF Answer, Typed, Placed
  <2>6. events' \in Seq(EventRow)
    BY <1>2, <2>5, TwoEvents, EventType DEF Typed, TypeOK, EventTypes
  <2>7. mem[r].view \in CurrentView
    BY DEF Typed, TypeOK, RequestsOK, Locals
  <2>8. task' \in [status : Statuses, view : CurrentView, finished : BOOLEAN]
    <3>1. [mem[r].view EXCEPT !.status = "running"] \in CurrentView
      BY <2>7 DEF CurrentView
    <3> QED BY <1>2, <3>1 DEF Typed, TypeOK, RowsOK
  <2>9. RequestsOK' /\ Placed'
    BY <1>2, SentOn, NothingType, PlacesAre
  <2> QED BY <2>4, <2>6, <2>8, <2>9 DEF Typed, TypeOK, RowsOK
<1> QED BY <1>1, <1>2 DEF Answer

LEMMA LoadInputTyped ==
    ASSUME Typed, NEW r \in Requests, LoadInput(r)
    PROVE  Typed'
<1>1. RowsOK'
  BY RowsUnchanged DEF LoadInput, Typed, TypeOK
<1>2. [mem[r] EXCEPT !.outs = LatestOutputs(execs)] \in Locals
  BY LatestOutputsType DEF Typed, TypeOK, RowsOK, RequestsOK, Locals
<1>3. req[r].node \in Nodes
  BY DEF LoadInput, Typed, Placed
<1>4. RequestsOK' /\ Placed'
  BY <1>2, <1>3, Returned, SentOn, PlacesAre DEF LoadInput
<1> QED BY <1>1, <1>4 DEF Typed, TypeOK

LEMMA SubmitTyped ==
    ASSUME Typed, NEW r \in Requests, Submit(r)
    PROVE  Typed'
<1> DEFINE n == req[r].node
           i == mem[r].exec
           row == [execs[i] EXCEPT !.status = "running", !.uses = Uses(n, mem[r].outs),
                                   !.fields = {}]
<1>1. n \in Nodes
  BY DEF Submit, Typed, Placed
<1>2. mem[r] \in Locals /\ mem[r].view \in CurrentView
  BY DEF Typed, TypeOK, RequestsOK, Locals
<1>3. execs' \in Seq(Execution)
  <2>1. CASE execs' = execs
    BY <2>1 DEF Typed, TypeOK, RowsOK
  <2>2. CASE execs' = [execs EXCEPT ![i].status = "running", ![i].uses = Uses(n, mem[r].outs),
                                    ![i].fields = {}]
    <3>1. Uses(n, mem[r].outs) \in [Nodes -> Nat]
      BY <1>1, <1>2, UsesType DEF Locals
    <3>2. i \in DOMAIN execs => execs[i] \in Execution
      BY ElementOfSeq, LenProperties DEF Typed, TypeOK, RowsOK
    <3>3. i \in DOMAIN execs => row \in Execution
      BY <3>1, <3>2 DEF Execution
    <3>4. execs' = [execs EXCEPT ![i] = row]
      BY <2>2
    <3> HIDE DEF row
    <3> QED BY <3>3, <3>4, RowEdited DEF Typed, TypeOK
  <2> QED BY <2>1, <2>2 DEF Submit
<1>4. events' \in Seq(EventRow)
  BY <1>1, OneEvent, EventType DEF Submit, Typed, TypeOK, EventTypes
<1>5. task' \in [status : Statuses, view : CurrentView, finished : BOOLEAN]
  BY <1>2 DEF Submit, Typed, TypeOK, RowsOK, CurrentView
<1>6. [NoMem EXCEPT !.exec = i, !.node = n] \in Locals
  BY <1>1, <1>2, NothingType DEF Locals
<1>7. [NoMem EXCEPT !.exec = i, !.node = n].node \in Nodes
  BY <1>1 DEF NoMem
<1>8. RequestsOK' /\ Placed'
  BY <1>6, <1>7, SentOn, PlacesAre DEF Submit
<1> QED BY <1>3, <1>4, <1>5, <1>8 DEF Typed, TypeOK, RowsOK

LEMMA ReadExecutionsTyped ==
    ASSUME Typed, NEW r \in Requests, ReadExecutions(r)
    PROVE  Typed'
<1> DEFINE m == [mem[r] EXCEPT
                   !.started = StartedNodes(execs),
                   !.waiting = \E i \in DOMAIN execs : execs[i].status = "waiting"]
<1>1. RowsOK'
  BY RowsUnchanged DEF ReadExecutions, Typed, TypeOK
<1>2. m \in Locals
  <2>1. \A i \in DOMAIN execs : execs[i] \in Execution
    BY ElementOfSeq, LenProperties DEF Typed, TypeOK, RowsOK
  <2>2. StartedNodes(execs) \in SUBSET Nodes
    BY <2>1 DEF StartedNodes, Execution
  <2> QED BY <2>2 DEF Typed, TypeOK, RequestsOK, Locals
<1>3. Return(r) \/ (mem' = [mem EXCEPT ![r] = m] /\ Goto(r, "load outputs"))
  BY DEF ReadExecutions
<1> HIDE DEF m
<1>4. RequestsOK' /\ Placed'
  BY <1>2, <1>3, Returned, SentOn, PlacesAre
<1> QED BY <1>1, <1>4 DEF Typed, TypeOK

LEMMA LoadOutputsTyped ==
    ASSUME Typed, NEW r \in Requests, LoadOutputs(r)
    PROVE  Typed'
<1> DEFINE outs == LatestOutputs(execs)
           todo == ReadyNodes(outs, mem[r].started)
           m == [NoMem EXCEPT !.outs = outs, !.todo = todo]
<1>1. RowsOK'
  BY RowsUnchanged DEF LoadOutputs, Typed, TypeOK
<1>2. m \in Locals
  <2>1. outs \in [Nodes -> NodeOutput]
    BY LatestOutputsType DEF Typed, TypeOK, RowsOK
  <2>2. todo \in SUBSET Nodes
    BY DEF ReadyNodes
  <2> HIDE DEF outs, todo
  <2> QED BY <2>1, <2>2, NothingType DEF Locals
<1>3. \/ Raise(r)
      \/ mem' = [mem EXCEPT ![r] = m] /\ Goto(r, "resolve")
      \/ Return(r)
      \/ mem' = [mem EXCEPT ![r] = NoMem] /\ Goto(r, "finish")
  BY DEF LoadOutputs, Idle
<1> HIDE DEF m
<1>4. RequestsOK' /\ Placed'
  BY <1>2, <1>3, Raised, Returned, SentOn, NothingType, PlacesAre
<1> QED BY <1>1, <1>4 DEF Typed, TypeOK

LEMMA ResolveInputsTyped ==
    ASSUME Typed, NEW r \in Requests, ResolveInputs(r)
    PROVE  Typed'
<1>1. RowsOK'
  BY RowsUnchanged DEF ResolveInputs, Typed, TypeOK
<1>2. CASE Raise(r)
  BY <1>1, <1>2, Raised DEF Typed, TypeOK
<1>3. CASE ~Raise(r)
  <2>1. PICK n \in mem[r].todo :
           /\ mem' = [mem EXCEPT ![r].node = n, ![r].attempt = NextAttempt(execs, n)]
           /\ Goto(r, "insert")
    BY <1>3 DEF ResolveInputs
  <2> DEFINE m == [mem[r] EXCEPT !.node = n, !.attempt = NextAttempt(execs, n)]
  <2>2. n \in Nodes /\ NextAttempt(execs, n) \in Nat
    BY NextAttemptType DEF Typed, TypeOK, RowsOK, RequestsOK, Locals
  <2>3. m \in Locals /\ m.node \in Nodes
    BY <2>2 DEF Typed, TypeOK, RequestsOK, Locals
  <2>4. mem' = [mem EXCEPT ![r] = m]
    BY <2>1
  <2> HIDE DEF m
  <2>5. RequestsOK' /\ Placed'
    BY <2>1, <2>3, <2>4, SentOn, PlacesAre
  <2> QED BY <1>1, <2>5 DEF Typed, TypeOK
<1> QED BY <1>2, <1>3

LEMMA StartNodeTyped ==
    ASSUME Typed, NEW r \in Requests, StartNode(r)
    PROVE  Typed'
<1> DEFINE n == mem[r].node
           m == [mem[r] EXCEPT !.exec = Len(execs) + 1]
           row == [node |-> n, attempt |-> mem[r].attempt, status |-> "running",
                   form |-> FALSE, output |-> NoOutput,
                   uses |-> Uses(n, mem[r].outs), fields |-> {}]
<1>1. n \in Nodes /\ mem[r] \in Locals
  BY DEF StartNode, Typed, TypeOK, RequestsOK, Placed
<1>2. row \in Execution
  BY <1>1, UsesType DEF Execution, Locals
<1>3. execs' \in Seq(Execution)
  BY <1>2, AppendProperties DEF StartNode, Typed, TypeOK, RowsOK
<1>4. events' \in Seq(EventRow)
  BY <1>1, OneEvent, EventType DEF StartNode, Typed, TypeOK, EventTypes
<1>5. m \in Locals /\ m.node \in Nodes
  <2>1. Len(execs) + 1 \in Nat
    BY LenProperties DEF Typed, TypeOK, RowsOK
  <2> QED BY <1>1, <2>1 DEF Locals
<1>6. mem' = [mem EXCEPT ![r] = m] /\ (Goto(r, "ask") \/ Goto(r, "run"))
  BY DEF StartNode
<1> HIDE DEF m
<1>7. RequestsOK' /\ Placed'
  BY <1>5, <1>6, SentOn, PlacesAre
<1> QED BY <1>3, <1>4, <1>7 DEF StartNode, Typed, TypeOK, RowsOK

LEMMA Marked ==
    ASSUME Typed, NEW r \in Requests, NEW next \in {"done", "continue"}, AfterMark(r, next)
    PROVE  RequestsOK' /\ Placed'
<1>1. CASE pc[r] = "run input"
  BY <1>1, SentOn, NothingType, PlacesAre DEF AfterMark
<1>2. CASE pc[r] # "run input"
  <2>1. mem[r] \in Locals /\ mem' = [mem EXCEPT ![r] = mem[r]]
    BY <1>2 DEF AfterMark, Typed, TypeOK, RequestsOK
  <2> QED BY <1>2, <2>1, SentOn, PlacesAre DEF AfterMark
<1> QED BY <1>1, <1>2

LEMMA MarkWaitingTyped ==
    ASSUME Typed, NEW r \in Requests, MarkWaiting(r)
    PROVE  Typed'
<1> DEFINE i == mem[r].exec
           n == mem[r].node
           row == [execs[i] EXCEPT !.status = "waiting", !.form = (pc[r] = "ask")]
<1>1. n \in Nodes
  BY DEF MarkWaiting, Typed, Placed
<1>2. execs' \in Seq(Execution)
  <2>1. i \in DOMAIN execs => execs[i] \in Execution
    BY ElementOfSeq, LenProperties DEF Typed, TypeOK, RowsOK
  <2>2. i \in DOMAIN execs => row \in Execution
    BY <2>1 DEF Execution
  <2>3. execs' = [execs EXCEPT ![i] = row]
    BY DEF MarkWaiting
  <2> HIDE DEF row
  <2> QED BY <2>2, <2>3, RowEdited DEF Typed, TypeOK
<1>3. task' \in [status : Statuses, view : CurrentView, finished : BOOLEAN]
  <2>1. View("waiting", execs', NoOutputs) \in CurrentView
    BY <1>2, ViewType, NothingType
  <2> QED BY <2>1 DEF MarkWaiting, Typed, TypeOK, RowsOK
<1>4. events' \in Seq(EventRow)
  BY <1>1, ThreeEvents, EventType DEF MarkWaiting, Typed, TypeOK, EventTypes
<1>5. RequestsOK' /\ Placed'
  BY Marked DEF MarkWaiting
<1> QED BY <1>2, <1>3, <1>4, <1>5 DEF Typed, TypeOK, RowsOK

LEMMA MarkSucceededTyped ==
    ASSUME Typed, NEW r \in Requests, NEW v \in Outputs, MarkSucceeded(r, v)
    PROVE  Typed'
<1> DEFINE i == mem[r].exec
           n == mem[r].node
           row == [execs[i] EXCEPT !.status = "succeeded", !.output = v, !.form = FALSE]
<1>1. n \in Nodes
  BY DEF MarkSucceeded, Typed, Placed
<1>2. execs' \in Seq(Execution)
  <2>1. i \in DOMAIN execs => execs[i] \in Execution
    BY ElementOfSeq, LenProperties DEF Typed, TypeOK, RowsOK
  <2>2. i \in DOMAIN execs => row \in Execution
    BY <2>1 DEF Execution
  <2>3. execs' = [execs EXCEPT ![i] = row]
    BY DEF MarkSucceeded
  <2> HIDE DEF row
  <2> QED BY <2>2, <2>3, RowEdited DEF Typed, TypeOK
<1>3. events' \in Seq(EventRow)
  BY <1>1, OneEvent, EventType DEF MarkSucceeded, Typed, TypeOK, EventTypes
<1>4. RequestsOK' /\ Placed'
  BY Marked DEF MarkSucceeded
<1> QED BY <1>2, <1>3, <1>4 DEF MarkSucceeded, Typed, TypeOK, RowsOK

LEMMA MarkFailedTyped ==
    ASSUME Typed, NEW r \in Requests, MarkFailed(r)
    PROVE  Typed'
<1> DEFINE i == mem[r].exec
           n == mem[r].node
           row == [execs[i] EXCEPT !.status = "failed"]
<1>1. n \in Nodes
  BY DEF MarkFailed, Typed, Placed
<1>2. execs' \in Seq(Execution)
  <2>1. i \in DOMAIN execs => execs[i] \in Execution
    BY ElementOfSeq, LenProperties DEF Typed, TypeOK, RowsOK
  <2>2. i \in DOMAIN execs => row \in Execution
    BY <2>1 DEF Execution
  <2>3. execs' = [execs EXCEPT ![i] = row]
    BY DEF MarkFailed
  <2> HIDE DEF row
  <2> QED BY <2>2, <2>3, RowEdited DEF Typed, TypeOK
<1>3. task' \in [status : Statuses, view : CurrentView, finished : BOOLEAN]
  <2>1. View("failed", execs', NoOutputs) \in CurrentView
    BY <1>2, ViewType, NothingType
  <2> QED BY <2>1 DEF MarkFailed
<1>4. events' \in Seq(EventRow)
  BY <1>1, TwoEvents, EventType DEF MarkFailed, Typed, TypeOK, EventTypes
<1>5. RequestsOK' /\ Placed'
  BY Marked DEF MarkFailed
<1> QED BY <1>2, <1>3, <1>4, <1>5 DEF Typed, TypeOK, RowsOK

LEMMA LookAgainTyped ==
    ASSUME Typed, NEW r \in Requests, LookAgain(r)
    PROVE  Typed'
<1> DEFINE rest == mem[r].todo \ {mem[r].node}
           m == [NoMem EXCEPT !.outs = mem[r].outs, !.todo = rest]
<1>1. RowsOK'
  BY RowsUnchanged DEF LookAgain, Typed, TypeOK
<1>2. m \in Locals
  BY NothingType DEF Typed, TypeOK, RequestsOK, Locals
<1>3. \/ Return(r)
      \/ Goto(r, "continue") /\ mem' = [mem EXCEPT ![r] = NoMem]
      \/ Goto(r, "resolve") /\ mem' = [mem EXCEPT ![r] = m]
  BY DEF LookAgain
<1> HIDE DEF m
<1>4. RequestsOK' /\ Placed'
  BY <1>2, <1>3, Returned, SentOn, NothingType, PlacesAre
<1> QED BY <1>1, <1>4 DEF Typed, TypeOK

LEMMA ReadViewTyped ==
    ASSUME Typed, NEW r \in Requests, NEW from, NEW to \in {"finish commit", "fail commit", "archive commit", "clear commit"},
           NEW status \in Statuses, NEW final \in [Nodes -> NodeOutput],
           ReadView(r, from, to, status, final), to = "clear commit" => req[r].node \in Nodes
    PROVE  Typed'
<1> DEFINE m == [mem[r] EXCEPT !.view = View(status, execs, final)]
<1>1. RowsOK'
  BY RowsUnchanged DEF ReadView, Typed, TypeOK
<1>2. View(status, execs, final) \in CurrentView
  BY ViewType DEF Typed, TypeOK, RowsOK
<1>3. m \in Locals
  BY <1>2 DEF Typed, TypeOK, RequestsOK, Locals
<1>4. mem' = [mem EXCEPT ![r] = m] /\ Goto(r, to)
  BY DEF ReadView
<1> HIDE DEF m
<1>5. RequestsOK' /\ Placed'
  BY <1>3, <1>4, SentOn, PlacesAre
<1> QED BY <1>1, <1>5 DEF Typed, TypeOK

LEMMA ReadsTyped ==
    ASSUME Typed, NEW r \in Requests, FinishRead(r) \/ FailRead(r) \/ ArchiveRead(r) \/ ClearRead(r)
    PROVE  Typed'
<1>1. LatestOutputs(execs) \in [Nodes -> NodeOutput] /\ NoOutputs \in [Nodes -> NodeOutput]
  BY LatestOutputsType, NothingType DEF Typed, TypeOK, RowsOK
<1>2. CASE ClearRead(r)
  <2>1. req[r].node \in Nodes
    BY <1>2 DEF ClearRead, ReadView, Typed, Placed
  <2> QED BY <1>1, <1>2, <2>1, ReadViewTyped DEF ClearRead
<1>3. CASE FinishRead(r) \/ FailRead(r) \/ ArchiveRead(r)
  BY <1>1, <1>3, ReadViewTyped DEF FinishRead, FailRead, ArchiveRead
<1> QED BY <1>2, <1>3

\* The commits that end a request with the view it has read.
LEMMA CommitsTyped ==
    ASSUME Typed, NEW r \in Requests, FinishTask(r) \/ FailTask(r) \/ ArchiveTask(r)
    PROVE  Typed'
<1>1. mem[r].view \in CurrentView
  BY DEF Typed, TypeOK, RequestsOK, Locals
<1>2. task' \in [status : Statuses, view : CurrentView, finished : BOOLEAN]
  <2>1. task' = task \/ \E s \in Statuses : task' = [status |-> s, view |-> mem[r].view, finished |-> TRUE]
    BY DEF FinishTask, FailTask, ArchiveTask
  <2>2. ASSUME NEW s \in Statuses
        PROVE  [status |-> s, view |-> mem[r].view, finished |-> TRUE]
                 \in [status : Statuses, view : CurrentView, finished : BOOLEAN]
    BY <1>1
  <2>3. task \in [status : Statuses, view : CurrentView, finished : BOOLEAN]
    BY DEF Typed, TypeOK, RowsOK
  <2> HIDE DEF Statuses
  <2> QED BY <2>1, <2>2, <2>3
<1>3. events' \in Seq(EventRow)
  BY OneEvent, EventType DEF FinishTask, FailTask, ArchiveTask, Typed, TypeOK, EventTypes
<1>4. RequestsOK' /\ Placed'
  BY Returned DEF FinishTask, FailTask, ArchiveTask
<1> QED BY <1>2, <1>3, <1>4 DEF FinishTask, FailTask, ArchiveTask, Typed, TypeOK, RowsOK

LEMMA ArrivalsTyped ==
    ASSUME Typed, NEW r \in Requests, NEW n \in Nodes, NEW S \in SUBSET Fields,
           SaveDraft(r, n, S) \/ RerunNode(r, n) \/ DeleteTask(r)
    PROVE  Typed'
<1>1. RowsOK'
  BY RowsUnchanged DEF SaveDraft, RerunNode, DeleteTask, Typed, TypeOK, db
<1>2. mem[r] \in Locals /\ mem' = [mem EXCEPT ![r] = mem[r]]
  BY DEF SaveDraft, RerunNode, DeleteTask, Typed, TypeOK, RequestsOK
<1>3. {} \in SUBSET Fields /\ n # START /\ n \in Nodes \cup {START}
  BY NodesAssumption
<1>4. CASE SaveDraft(r, n, S)
  <2>1. Arrive(r, "draft", n, S, "find draft") /\ "draft" \in Kinds /\ "find draft" \in Places
    BY <1>4, PlacesAre DEF SaveDraft
  <2> HIDE DEF Kinds
  <2>2. RequestsOK' /\ Placed'
    BY <1>2, <1>3, <2>1, Arrived
  <2> QED BY <1>1, <2>2 DEF Typed, TypeOK
<1>5. CASE RerunNode(r, n)
  <2>1. Arrive(r, "rerun", n, {}, "find current") /\ "rerun" \in Kinds /\ "find current" \in Places
    BY <1>5, PlacesAre DEF RerunNode
  <2> HIDE DEF Kinds
  <2>2. RequestsOK' /\ Placed'
    BY <1>2, <1>3, <2>1, Arrived
  <2> QED BY <1>1, <2>2 DEF Typed, TypeOK
<1>6. CASE DeleteTask(r)
  <2>1. Arrive(r, "delete", START, {}, "archive") /\ "delete" \in Kinds /\ "archive" \in Places
    BY <1>6, PlacesAre DEF DeleteTask
  <2> HIDE DEF Kinds
  <2>2. RequestsOK' /\ Placed'
    BY <1>2, <1>3, <2>1, Arrived
  <2> QED BY <1>1, <2>2 DEF Typed, TypeOK
<1> QED BY <1>4, <1>5, <1>6

LEMMA MergeDraftTyped ==
    ASSUME Typed, NEW r \in Requests, MergeDraft(r)
    PROVE  Typed'
<1> DEFINE found == WaitingAt(execs, req[r].node)
           m == [mem[r] EXCEPT !.fields = execs[Latest(found)].fields \cup req[r].fields]
<1>1. RowsOK'
  BY RowsUnchanged DEF MergeDraft, Typed, TypeOK
<1>2. CASE Return(r)
  BY <1>1, <1>2, Returned DEF Typed, TypeOK
<1>3. CASE ~Return(r)
  <2>1. found # {} /\ mem' = [mem EXCEPT ![r] = m] /\ Goto(r, "save draft")
    BY <1>3 DEF MergeDraft
  <2>2. Len(execs) \in Nat /\ DOMAIN execs = 1..Len(execs)
        /\ \A i \in DOMAIN execs : execs[i] \in Execution
    BY LenProperties, ElementOfSeq DEF Typed, TypeOK, RowsOK
  <2>3. found \in SUBSET (1..Len(execs))
    BY <2>2 DEF WaitingAt
  <2>4. Latest(found) \in DOMAIN execs
    <3> HIDE DEF found
    <3>1. Latest(found) \in found
      BY <2>1, <2>2, <2>3, LatestFound
    <3> QED BY <2>2, <2>3, <3>1
  <2>5. m \in Locals
    <3>1. execs[Latest(found)].fields \cup req[r].fields \in SUBSET Fields
      BY <2>2, <2>4 DEF Typed, TypeOK, RequestsOK, Execution
    <3> QED BY <3>1 DEF Typed, TypeOK, RequestsOK, Locals
  <2>6. req[r].node \in Nodes
    BY DEF MergeDraft, Typed, Placed
  <2> HIDE DEF m
  <2>7. RequestsOK' /\ Placed'
    BY <2>1, <2>5, <2>6, SentOn, PlacesAre
  <2> QED BY <1>1, <2>7 DEF Typed, TypeOK
<1> QED BY <1>2, <1>3

LEMMA CommitDraftTyped ==
    ASSUME Typed, NEW r \in Requests, CommitDraft(r)
    PROVE  Typed'
<1>1. RequestsOK' /\ Placed'
  BY Returned DEF CommitDraft
<1>2. CASE UNCHANGED db
  BY <1>1, <1>2, RowsUnchanged DEF Typed, TypeOK
<1>3. CASE ~UNCHANGED db
  <2>1. PICK i \in DOMAIN execs :
           /\ execs' = [execs EXCEPT ![i].fields = mem[r].fields]
           /\ task' = [task EXCEPT !.view = View("waiting", execs', NoOutputs)]
           /\ events' = Append(events, Event("node_draft_saved", {req[r].node}))
    BY <1>3 DEF CommitDraft
  <2>2. execs[i] \in Execution
    BY ElementOfSeq, LenProperties DEF Typed, TypeOK, RowsOK
  <2>3. [execs[i] EXCEPT !.fields = mem[r].fields] \in Execution
    BY <2>2 DEF Execution, Typed, TypeOK, RequestsOK, Locals
  <2>4. execs' \in Seq(Execution)
    <3>1. execs' = [execs EXCEPT ![i] = [execs[i] EXCEPT !.fields = mem[r].fields]]
      BY <2>1
    <3> QED BY <2>3, <3>1, RowEdited DEF Typed, TypeOK
  <2>5. View("waiting", execs', NoOutputs) \in CurrentView
    BY <2>4, ViewType, NothingType
  <2>6. task' \in [status : Statuses, view : CurrentView, finished : BOOLEAN]
    BY <2>1, <2>5 DEF Typed, TypeOK, RowsOK
  <2>7. req[r].node \in Nodes
    BY DEF CommitDraft, Typed, Placed
  <2>8. events' \in Seq(EventRow)
    BY <2>1, <2>7, OneEvent, EventType DEF Typed, TypeOK, EventTypes
  <2> QED BY <1>1, <2>4, <2>6, <2>8 DEF Typed, TypeOK, RowsOK
<1> QED BY <1>2, <1>3

LEMMA FindCurrentTyped ==
    ASSUME Typed, NEW r \in Requests, FindCurrent(r)
    PROVE  Typed'
<1> DEFINE doomed == CurrentRows(execs, Affected(req[r].node))
           m == [mem[r] EXCEPT !.doomed = doomed]
<1>1. RowsOK'
  BY RowsUnchanged DEF FindCurrent, Typed, TypeOK
<1>2. req[r].node \in Nodes
  BY DEF FindCurrent, Typed, Placed
<1>3. Affected(req[r].node) \subseteq Nodes
  BY <1>2 DEF Affected, Downstream
<1>4. doomed \in SUBSET Nat
  BY <1>3, LatestByNodeType DEF CurrentRows, Typed, TypeOK, RowsOK
<1> HIDE DEF doomed
<1>5. m \in Locals
  BY <1>4 DEF Typed, TypeOK, RequestsOK, Locals
<1>6. mem' = [mem EXCEPT ![r] = m] /\ Goto(r, "clear")
  BY DEF FindCurrent, doomed
<1> HIDE DEF m
<1>7. RequestsOK' /\ Placed'
  BY <1>2, <1>5, <1>6, SentOn, PlacesAre
<1> QED BY <1>1, <1>7 DEF Typed, TypeOK

LEMMA ClearDownstreamTyped ==
    ASSUME Typed, NEW r \in Requests, ClearDownstream(r)
    PROVE  Typed'
<1>1. req[r].node \in Nodes
  BY DEF ClearDownstream, Typed, Placed
<1>2. Affected(req[r].node) \subseteq Nodes
  BY <1>1 DEF Affected, Downstream
<1>3. execs' \in Seq(Execution)
  <2>1. \A i \in DOMAIN execs : execs[i] \in Execution
    BY LenProperties, ElementOfSeq DEF Typed, TypeOK, RowsOK
  <2>2. \A i \in DOMAIN execs : [execs[i] EXCEPT !.status = "superseded"] \in Execution
    BY <2>1 DEF Execution
  <2>3. /\ DOMAIN execs' = DOMAIN execs /\ execs' = [i \in DOMAIN execs |-> execs'[i]]
        /\ \A i \in DOMAIN execs : execs'[i] \in Execution
    BY <2>1, <2>2 DEF ClearDownstream
  <2> QED BY <2>3, RowsInPlace DEF Typed, TypeOK, RowsOK
<1>4. task' \in [status : Statuses, view : CurrentView, finished : BOOLEAN]
  <2>1. View("running", execs', NoOutputs) \in CurrentView /\ mem[r].view \in CurrentView
    BY <1>3, ViewType, NothingType DEF Typed, TypeOK, RequestsOK, Locals
  <2> QED BY <2>1 DEF ClearDownstream
<1>5. events' \in Seq(EventRow)
  BY <1>1, <1>2, TwoEvents, EventType DEF ClearDownstream, Typed, TypeOK, EventTypes
<1>6. RequestsOK' /\ Placed'
  BY SentOn, NothingType, PlacesAre DEF ClearDownstream
<1> QED BY <1>3, <1>4, <1>5, <1>6 DEF Typed, TypeOK, RowsOK

LEMMA CrashTyped ==
    ASSUME Typed, Crash
    PROVE  Typed'
<1>1. RowsOK'
  BY RowsUnchanged DEF Crash, Typed, TypeOK, db
<1>2. RequestsOK' /\ Placed'
  BY NothingType, PlacesAre DEF Crash, InFlight, Typed, TypeOK, RequestsOK, Placed
<1> QED BY <1>1, <1>2 DEF Typed, TypeOK

LEMMA TypedStep == Typed /\ [Next \/ Crash]_vars => Typed'
<1> SUFFICES ASSUME Typed, [Next \/ Crash]_vars PROVE Typed'
  OBVIOUS
<1>1. ASSUME NEW r \in Requests, Call(r) PROVE Typed'
  BY <1>1, CreateTaskTyped, ResumeTaskTyped, ArrivalsTyped, NodesAssumption, Zenon DEF Call
<1>2. ASSUME NEW r \in Requests, Handle(r) PROVE Typed'
  BY <1>2, FindWaitingTyped, AnswerTyped, LoadInputTyped, SubmitTyped, ReadExecutionsTyped,
     LoadOutputsTyped, ResolveInputsTyped, StartNodeTyped, MarkWaitingTyped, MarkSucceededTyped,
     MarkFailedTyped, LookAgainTyped, ReadsTyped, CommitsTyped, MergeDraftTyped,
     CommitDraftTyped, FindCurrentTyped, ClearDownstreamTyped DEF Handle
<1>3. CASE Crash
  BY <1>3, CrashTyped
<1>4. CASE UNCHANGED vars
  BY <1>4 DEF vars, Typed, TypeOK, RowsOK, RequestsOK, Placed
<1> QED BY <1>1, <1>2, <1>3, <1>4 DEF Next

\* Whatever the requests are and however they overlap, and though the process
\* may die at any moment, every row and every local variable has its type.
THEOREM TypeCorrect == CrashSpec => []TypeOK
<1>1. Init => Typed
  BY TypedInit
<1>2. Typed /\ [Next \/ Crash]_vars => Typed'
  BY TypedStep
<1>3. Typed => TypeOK
  BY DEF Typed
<1> QED BY <1>1, <1>2, <1>3, PTL DEF CrashSpec

----------------------------------------------------------------------------
(* What holds of a task's executions when callers make one driving request    *)
(* (create, resume, rerun) at a time, drafts and deletions overlapping as     *)
(* they like and the process dying at any moment: the executions themselves,  *)
(* the numbers of their attempts, the answers to their questions.             *)

----------------------------------------------------------------------------
(* The inductive invariant.  Only one request is in the driving code, and     *)
(* what it remembers of the rows since its last read is still so.             *)

Alone ==
    /\ \A q, r \in Requests : pc[q] \in DriverPlaces /\ pc[r] \in DriverPlaces => q = r
    /\ \A r \in Requests : pc[r] \in DriverPlaces => req[r].kind \in Drivers

HasRow(r, status) == mem[r].exec \in DOMAIN execs /\ execs[mem[r].exec].status = status

Remembers(r) ==
    /\ pc[r] = "load outputs" => mem[r].started = StartedNodes(execs)
    /\ pc[r] \in {"resolve", "insert"} => mem[r].todo \cap StartedNodes(execs) = {}
    /\ pc[r] = "insert" => mem[r].node \in mem[r].todo
    /\ pc[r] \in {"ask", "run", "look"} =>
          (mem[r].todo \ {mem[r].node}) \cap StartedNodes(execs) = {}
    /\ pc[r] \in {"ask", "run", "run input"} => HasRow(r, "running")
    /\ pc[r] \in {"load input", "submit"} => HasRow(r, "waiting")

Driven == Typed /\ Alone /\ (\A r \in Requests : Remembers(r)) /\ OneCurrentExecution

LEMMA DriverPlacesAre ==
    DriverPlaces = {"find waiting", "answer", "load input", "submit", "run input",
                    "continue", "load outputs", "resolve", "insert", "ask", "run", "look",
                    "finish", "finish commit", "fail", "fail commit", "find current", "clear", "clear commit"}
BY DEF DriverPlaces, ResumePlaces, LoopPlaces, RerunPlaces

LEMMA DrivenInit == Init => Driven
<1> SUFFICES ASSUME Init PROVE Driven
  OBVIOUS
<1>1. Typed
  BY TypedInit
<1>2. Alone /\ \A r \in Requests : Remembers(r)
  BY DriverPlacesAre DEF Init, Alone, Remembers
<1>3. OneCurrentExecution
  BY DEF Init, OneCurrentExecution
<1> QED BY <1>1, <1>2, <1>3 DEF Driven

----------------------------------------------------------------------------
(* Who is in the driving code.                                                *)

\* A handler's step moves one request, and none into the driving code.
LEMMA HandleMoves ==
    ASSUME NEW r \in Requests, Handle(r)
    PROVE  /\ UNCHANGED req
           /\ \E to : /\ pc' = [pc EXCEPT ![r] = to]
                      /\ to \in DriverPlaces => pc[r] \in DriverPlaces
<1> USE DEF Return, Raise, Goto
<1>1. CASE FindWaiting(r) \/ \E v \in Outputs : Answer(r, v)
  BY <1>1, DriverPlacesAre DEF FindWaiting, Answer
<1>2. CASE LoadInput(r) \/ Submit(r)
  BY <1>2, DriverPlacesAre DEF LoadInput, Submit
<1>3. CASE ReadExecutions(r) \/ LoadOutputs(r)
  BY <1>3, DriverPlacesAre DEF ReadExecutions, LoadOutputs, Idle
<1>4. CASE ResolveInputs(r) \/ StartNode(r)
  BY <1>4, DriverPlacesAre DEF ResolveInputs, StartNode
<1>5. CASE MarkWaiting(r) \/ (\E v \in Outputs : MarkSucceeded(r, v)) \/ MarkFailed(r)
  BY <1>5, DriverPlacesAre DEF MarkWaiting, MarkSucceeded, MarkFailed, AfterMark
<1>6. CASE LookAgain(r)
  BY <1>6, DriverPlacesAre DEF LookAgain
<1>7. CASE FinishRead(r) \/ FinishTask(r) \/ FailRead(r) \/ FailTask(r)
  BY <1>7, DriverPlacesAre DEF FinishRead, FinishTask, FailRead, FailTask, ReadView
<1>8. CASE MergeDraft(r) \/ CommitDraft(r) \/ ArchiveRead(r) \/ ArchiveTask(r)
  BY <1>8, DriverPlacesAre DEF MergeDraft, CommitDraft, ArchiveRead, ArchiveTask, ReadView
<1>9. CASE FindCurrent(r) \/ ClearRead(r) \/ ClearDownstream(r)
  BY <1>9, DriverPlacesAre DEF FindCurrent, ClearRead, ClearDownstream, ReadView
<1> QED BY <1>1, <1>2, <1>3, <1>4, <1>5, <1>6, <1>7, <1>8, <1>9 DEF Handle

LEMMA AloneHandle ==
    ASSUME Typed, Alone, NEW r \in Requests, Handle(r)
    PROVE  /\ Alone'
           /\ \A q \in Requests \ {r} : pc'[q] = pc[q]
<1>1. PICK to : /\ pc' = [pc EXCEPT ![r] = to]
                /\ to \in DriverPlaces => pc[r] \in DriverPlaces
  BY HandleMoves
<1>2. UNCHANGED req
  BY HandleMoves
<1> QED BY <1>1, <1>2 DEF Alone, Typed, TypeOK, RequestsOK

\* A driving request is let in only when there is none.
LEMMA AloneCall ==
    ASSUME Typed, Alone, Drivers \subseteq Exclusive, NEW r \in Requests, Call(r)
    PROVE  /\ Alone'
           /\ UNCHANGED execs
           /\ \A q \in Requests : pc'[q] \in DriverPlaces /\ q # r => pc'[q] = pc[q] /\ mem'[q] = mem[q]
           /\ pc'[r] \in {"continue", "find waiting", "find draft", "find current", "archive"}
<1> DEFINE Called(kind, n, S, first) ==
             /\ Arrive(r, kind, n, S, first)
             /\ kind \in Kinds
             /\ first \in DriverPlaces => kind \in Drivers
             /\ first \in {"continue", "find waiting", "find draft", "find current", "archive"}
<1>0. \E kind, n, S, first : Called(kind, n, S, first)
  <2>1. CASE CreateTask(r)
    <3>1. Called("create", START, {}, "continue")  BY <2>1 DEF CreateTask, Drivers, Kinds
    <3> QED  BY <3>1
  <2>2. ASSUME NEW n \in Nodes, ResumeTask(r, n)
        PROVE  \E kind, m, S, first : Called(kind, m, S, first)
    <3>1. Called("resume", n, {}, "find waiting")  BY <2>2 DEF ResumeTask, Drivers, Kinds
    <3> QED  BY <3>1
  <2>3. ASSUME NEW n \in Nodes, RerunNode(r, n)
        PROVE  \E kind, m, S, first : Called(kind, m, S, first)
    <3>1. Called("rerun", n, {}, "find current")  BY <2>3 DEF RerunNode, Drivers, Kinds
    <3> QED  BY <3>1
  <2>4. ASSUME NEW n \in Nodes, NEW F \in SUBSET Fields, SaveDraft(r, n, F)
        PROVE  \E kind, m, S, first : Called(kind, m, S, first)
    <3>1. Called("draft", n, F, "find draft")  BY <2>4, DriverPlacesAre DEF SaveDraft, Kinds
    <3> QED  BY <3>1
  <2>5. CASE DeleteTask(r)
    <3>1. Called("delete", START, {}, "archive")  BY <2>5, DriverPlacesAre DEF DeleteTask, Kinds
    <3> QED  BY <3>1
  <2> QED  BY <2>1, <2>2, <2>3, <2>4, <2>5 DEF Call
<1>1. PICK kind, n, S, first : Called(kind, n, S, first)
  BY <1>0
<1>2. UNCHANGED execs /\ \A q \in Requests : q # r => mem'[q] = mem[q]
  BY DEF Call, CreateTask, ResumeTask, RerunNode, SaveDraft, DeleteTask, db, Typed, TypeOK, RequestsOK
<1>3. \A q \in Requests : q # r => pc'[q] = pc[q] /\ req'[q] = req[q]
  BY <1>1 DEF Arrive, Typed, TypeOK, RequestsOK
<1>4. pc'[r] = first /\ req'[r].kind = kind
  BY <1>1 DEF Arrive, Typed, TypeOK, RequestsOK
<1>5. ASSUME first \in DriverPlaces, NEW q \in Requests, q # r PROVE pc[q] \notin DriverPlaces
  <2>1. InFlight(q) => req[q].kind \notin Exclusive
    BY <1>1, <1>5 DEF Arrive, Admitted
  <2> QED BY <2>1, DriverPlacesAre DEF Alone, InFlight
<1> QED BY <1>1, <1>2, <1>3, <1>4, <1>5 DEF Alone

----------------------------------------------------------------------------
(* What a step does to the rows.                                              *)

LEMMA StartedSame ==
    ASSUME NEW es, NEW fs, DOMAIN fs = DOMAIN es,
           \A j \in DOMAIN es : fs[j].node = es[j].node /\ (Live(fs, j) <=> Live(es, j))
    PROVE  StartedNodes(fs) = StartedNodes(es)
BY DEF StartedNodes

\* One current row is edited and stays current; a result is not overwritten.
LEMMA RowKept ==
    ASSUME OneCurrentExecution, NEW i \in DOMAIN execs, NEW row,
           execs' = [execs EXCEPT ![i] = row],
           row.node = execs[i].node, row.attempt = execs[i].attempt,
           Live(execs, i), row.status # "superseded",
           execs[i].status = "succeeded" => row.output = execs[i].output
    PROVE  /\ OneCurrentExecution' /\ HistoryStep
           /\ DOMAIN execs' = DOMAIN execs
           /\ StartedNodes(execs') = StartedNodes(execs)
<1>1. /\ DOMAIN execs' = DOMAIN execs
      /\ \A j \in DOMAIN execs : /\ execs'[j].node = execs[j].node
                                 /\ execs'[j].attempt = execs[j].attempt
                                 /\ Live(execs', j) <=> Live(execs, j)
                                 /\ j # i => execs'[j] = execs[j]
  BY DEF Live
<1>2. OneCurrentExecution'
  BY <1>1 DEF OneCurrentExecution
<1>3. StartedNodes(execs') = StartedNodes(execs)
  BY <1>1, StartedSame
<1>4. HistoryStep
  BY <1>1 DEF HistoryStep, Live
<1> QED BY <1>1, <1>2, <1>3, <1>4

\* A row is added for a node that has no current one.
LEMMA RowAdded ==
    ASSUME OneCurrentExecution, execs \in Seq(Execution), NEW row, execs' = Append(execs, row),
           row.node \notin StartedNodes(execs), row.status # "superseded"
    PROVE  /\ OneCurrentExecution' /\ HistoryStep
           /\ DOMAIN execs' = DOMAIN execs \cup {Len(execs) + 1}
           /\ execs'[Len(execs) + 1] = row
           /\ StartedNodes(execs') = StartedNodes(execs) \cup {row.node}
<1>1. /\ DOMAIN execs' = DOMAIN execs \cup {Len(execs) + 1}
      /\ Len(execs) + 1 \notin DOMAIN execs
      /\ execs'[Len(execs) + 1] = row
      /\ \A j \in DOMAIN execs : execs'[j] = execs[j]
  BY LenProperties, AppendProperties
<1>2. OneCurrentExecution'
  BY <1>1 DEF OneCurrentExecution, StartedNodes, Live
<1>3. StartedNodes(execs') = StartedNodes(execs) \cup {row.node}
  BY <1>1 DEF StartedNodes, Live
<1>4. HistoryStep
  BY <1>1 DEF HistoryStep, Live
<1> QED BY <1>1, <1>2, <1>3, <1>4

\* Rows are at most superseded.
LEMMA RowsCleared ==
    ASSUME OneCurrentExecution, NEW D,
           execs' = [i \in DOMAIN execs |->
                       IF i \in D THEN [execs[i] EXCEPT !.status = "superseded"] ELSE execs[i]],
           execs \in Seq(Execution)
    PROVE  OneCurrentExecution' /\ HistoryStep
<1>1. \A i \in DOMAIN execs : execs[i] \in Execution
  BY LenProperties, ElementOfSeq
<1>2. /\ DOMAIN execs' = DOMAIN execs
      /\ \A j \in DOMAIN execs : /\ execs'[j].node = execs[j].node
                                 /\ execs'[j].attempt = execs[j].attempt
                                 /\ execs'[j].output = execs[j].output
                                 /\ Live(execs', j) => Live(execs, j)
  BY <1>1 DEF Live, Execution
<1>3. OneCurrentExecution'
  BY <1>2 DEF OneCurrentExecution
<1>4. HistoryStep
  BY <1>2 DEF HistoryStep
<1> QED BY <1>3, <1>4

LEMMA RowsSame ==
    ASSUME OneCurrentExecution, UNCHANGED execs
    PROVE  OneCurrentExecution' /\ HistoryStep
BY DEF OneCurrentExecution, HistoryStep

\* A request that has not moved remembers the same of rows whose nodes and
\* statuses are the same.
LEMMA Undisturbed ==
    ASSUME NEW r \in Requests, Remembers(r), pc'[r] = pc[r], mem'[r] = mem[r],
           DOMAIN execs' = DOMAIN execs,
           \A i \in DOMAIN execs : execs'[i].node = execs[i].node /\ execs'[i].status = execs[i].status
    PROVE  Remembers(r)'
<1>1. StartedNodes(execs') = StartedNodes(execs)
  BY DEF StartedNodes, Live
<1> QED BY <1>1 DEF Remembers, HasRow

LEMMA Elsewhere ==
    ASSUME NEW r \in Requests, pc'[r] \notin DriverPlaces
    PROVE  Remembers(r)'
BY DriverPlacesAre DEF Remembers

\* Goto sends the request where it says.
LEMMA Went ==
    ASSUME Typed, NEW r \in Requests, NEW to, Goto(r, to)
    PROVE  pc'[r] = to
BY DEF Goto, Typed, TypeOK, RequestsOK

LEMMA Left ==
    ASSUME Typed, NEW r \in Requests, Return(r) \/ Raise(r)
    PROVE  Remembers(r)'
<1>1. pc'[r] \in {"done", "fail"}
  BY Went DEF Return, Raise
<1> QED BY <1>1 DEF Remembers

----------------------------------------------------------------------------
(* The steps of the driving code.                                             *)

Fine(r) == OneCurrentExecution' /\ HistoryStep /\ Remembers(r)'

LEMMA ReadStepsFine ==
    ASSUME Driven, NEW r \in Requests,
           \/ FindWaiting(r) \/ LoadInput(r) \/ ReadExecutions(r) \/ LoadOutputs(r)
           \/ ResolveInputs(r) \/ LookAgain(r) \/ FinishRead(r) \/ FailRead(r)
           \/ FinishTask(r) \/ FailTask(r) \/ FindCurrent(r) \/ ClearRead(r)
    PROVE  Fine(r)
<1>1. UNCHANGED execs
  BY DEF FindWaiting, LoadInput, ReadExecutions, LoadOutputs, ResolveInputs, LookAgain, FinishRead,
         FailRead, FinishTask, FailTask, FindCurrent, ClearRead, ReadView, db
<1>2. OneCurrentExecution' /\ HistoryStep
  BY <1>1, RowsSame DEF Driven
<1>3. ASSUME Return(r) \/ Raise(r) PROVE Remembers(r)'
  BY <1>3, Left DEF Driven
<1>4. Typed /\ mem \in [Requests -> Locals] /\ Remembers(r)
  BY DEF Driven, Typed, TypeOK, RequestsOK
<1>5. CASE FindWaiting(r) /\ ~Return(r)
  <2> DEFINE found == WaitingAt(execs, req[r].node)
  <2>1. found # {} /\ mem'[r].exec = Latest(found) /\ pc'[r] \in {"load input", "answer"}
    BY <1>4, <1>5, Went DEF FindWaiting, Locals
  <2>2. Len(execs) \in Nat /\ DOMAIN execs = 1..Len(execs)
    BY <1>4, LenProperties DEF Typed, TypeOK, RowsOK
  <2>3. found \in SUBSET (1..Len(execs))
    BY <2>2 DEF WaitingAt
  <2>4. Latest(found) \in found
    <3> HIDE DEF found
    <3> QED BY <2>1, <2>2, <2>3, LatestFound
  <2>5. Latest(found) \in DOMAIN execs /\ execs[Latest(found)].status = "waiting"
    BY <2>4 DEF WaitingAt
  <2> QED BY <1>1, <1>2, <2>1, <2>5 DEF Fine, Remembers, HasRow
<1>6. CASE LoadInput(r) /\ ~Return(r)
  <2>1. pc'[r] = "submit" /\ mem'[r].exec = mem[r].exec /\ pc[r] = "load input"
    BY <1>4, <1>6, Went DEF LoadInput, Locals
  <2> QED BY <1>1, <1>2, <1>4, <2>1 DEF Fine, Remembers, HasRow
<1>7. CASE ReadExecutions(r) /\ ~Return(r)
  <2>1. pc'[r] = "load outputs" /\ mem'[r].started = StartedNodes(execs)
    BY <1>4, <1>7, Went DEF ReadExecutions, Locals
  <2> QED BY <1>1, <1>2, <2>1 DEF Fine, Remembers
<1>8. CASE LoadOutputs(r) /\ ~Return(r) /\ ~Raise(r)
  <2>1. \/ pc'[r] = "finish"
        \/ /\ pc'[r] = "resolve"
           /\ mem'[r].todo = ReadyNodes(LatestOutputs(execs), mem[r].started)
    BY <1>4, <1>8, Went DEF LoadOutputs, Idle, NoMem
  <2>2. mem[r].started = StartedNodes(execs)
    BY <1>4, <1>8 DEF LoadOutputs, Remembers
  <2>3. ReadyNodes(LatestOutputs(execs), mem[r].started) \cap StartedNodes(execs) = {}
    BY <2>2 DEF ReadyNodes, Ready
  <2> QED BY <1>1, <1>2, <2>1, <2>3 DEF Fine, Remembers
<1>9. CASE ResolveInputs(r) /\ ~Raise(r)
  <2>1. PICK n \in mem[r].todo :
           /\ mem' = [mem EXCEPT ![r].node = n, ![r].attempt = NextAttempt(execs, n)]
           /\ Goto(r, "insert")
    BY <1>9 DEF ResolveInputs
  <2>2. pc'[r] = "insert" /\ mem'[r].node = n /\ mem'[r].todo = mem[r].todo
    BY <1>4, <2>1, Went DEF Locals
  <2>3. mem[r].todo \cap StartedNodes(execs) = {}
    BY <1>4, <1>9 DEF ResolveInputs, Remembers
  <2> QED BY <1>1, <1>2, <2>2, <2>3 DEF Fine, Remembers
<1>10. CASE LookAgain(r) /\ ~Return(r)
  <2>1. \/ pc'[r] = "continue"
        \/ pc'[r] = "resolve" /\ mem'[r].todo = mem[r].todo \ {mem[r].node}
    BY <1>4, <1>10, Went DEF LookAgain, NoMem
  <2>2. (mem[r].todo \ {mem[r].node}) \cap StartedNodes(execs) = {}
    BY <1>4, <1>10 DEF LookAgain, Remembers
  <2> QED BY <1>1, <1>2, <2>1, <2>2 DEF Fine, Remembers
<1>11. CASE FinishRead(r) \/ FailRead(r) \/ FinishTask(r) \/ FailTask(r) \/ FindCurrent(r) \/ ClearRead(r)
  <2>1. pc'[r] \in {"finish commit", "fail commit", "done", "clear", "clear commit"}
    BY <1>4, <1>11, Went DEF FinishRead, FailRead, FinishTask, FailTask, FindCurrent, ClearRead, ReadView, Return
  <2> QED BY <1>2, <2>1 DEF Fine, Remembers
<1> QED BY <1>2, <1>3, <1>5, <1>6, <1>7, <1>8, <1>9, <1>10, <1>11 DEF Fine

LEMMA AnswerFine ==
    ASSUME Driven, NEW r \in Requests, NEW v \in Outputs, Answer(r, v)
    PROVE  Fine(r)
<1>1. CASE Return(r) /\ UNCHANGED db
  BY <1>1, Left, RowsSame DEF Fine, Driven, db
<1>2. CASE ~(Return(r) /\ UNCHANGED db)
  <2>1. PICK i \in DOMAIN execs :
           /\ WaitingAt(execs, req[r].node) = {i}
           /\ execs' = [execs EXCEPT ![i].status = "succeeded", ![i].output = v]
           /\ Goto(r, "continue")
    BY <1>2 DEF Answer
  <2> DEFINE row == [execs[i] EXCEPT !.status = "succeeded", !.output = v]
  <2>2. execs[i] \in Execution /\ execs[i].status = "waiting"
    BY <2>1, ElementOfSeq, LenProperties DEF WaitingAt, Driven, Typed, TypeOK, RowsOK
  <2>3. /\ execs' = [execs EXCEPT ![i] = row]
        /\ row.node = execs[i].node /\ row.attempt = execs[i].attempt
        /\ row.status = "succeeded"
    BY <2>1, <2>2 DEF Execution
  <2> HIDE DEF row
  <2>4. OneCurrentExecution' /\ HistoryStep
    BY <2>2, <2>3, RowKept DEF Live, Driven
  <2>5. pc'[r] = "continue"
    BY <2>1, Went DEF Driven
  <2> QED BY <2>4, <2>5 DEF Fine, Remembers
<1> QED BY <1>1, <1>2

LEMMA SubmitFine ==
    ASSUME Driven, NEW r \in Requests, Submit(r)
    PROVE  Fine(r)
<1> DEFINE i == mem[r].exec
           row == [execs[i] EXCEPT !.status = "running",
                     !.uses = Uses(req[r].node, mem[r].outs), !.fields = {}]
<1>1. i \in DOMAIN execs /\ execs[i].status = "waiting"
  BY DEF Submit, Driven, Remembers, HasRow
<1>2. execs[i] \in Execution
  BY <1>1, ElementOfSeq, LenProperties DEF Driven, Typed, TypeOK, RowsOK
<1>3. /\ execs' = [execs EXCEPT ![i] = row]
      /\ row.node = execs[i].node /\ row.attempt = execs[i].attempt /\ row.status = "running"
  BY <1>1, <1>2 DEF Submit, Execution
<1>4. execs'[i].status = "running" /\ i \in DOMAIN execs'
  BY <1>1, <1>3
<1> HIDE DEF row
<1>5. OneCurrentExecution' /\ HistoryStep
  BY <1>1, <1>3, RowKept DEF Live, Driven
<1>6. pc'[r] = "run input" /\ mem'[r].exec = i
  BY Went DEF Submit, Driven, Typed, TypeOK, RequestsOK, NoMem
<1> QED BY <1>4, <1>5, <1>6 DEF Fine, Remembers, HasRow

LEMMA StartNodeFine ==
    ASSUME Driven, NEW r \in Requests, StartNode(r)
    PROVE  Fine(r)
<1> DEFINE n == mem[r].node
           row == [node |-> n, attempt |-> mem[r].attempt, status |-> "running",
                   form |-> FALSE, output |-> NoOutput,
                   uses |-> Uses(n, mem[r].outs), fields |-> {}]
<1>1. /\ n \in mem[r].todo /\ mem[r].todo \cap StartedNodes(execs) = {}
      /\ execs \in Seq(Execution) /\ mem[r] \in Locals
  BY DEF StartNode, Driven, Remembers, Typed, TypeOK, RowsOK, RequestsOK
<1>2. execs' = Append(execs, row) /\ row.node = n /\ row.status = "running"
  BY DEF StartNode
<1> HIDE DEF row
<1>3. /\ OneCurrentExecution' /\ HistoryStep
      /\ DOMAIN execs' = DOMAIN execs \cup {Len(execs) + 1}
      /\ execs'[Len(execs) + 1] = row
      /\ StartedNodes(execs') = StartedNodes(execs) \cup {n}
  BY <1>1, <1>2, RowAdded DEF Driven
<1>4. /\ pc'[r] \in {"ask", "run"} /\ mem'[r].exec = Len(execs) + 1
      /\ mem'[r].todo = mem[r].todo /\ mem'[r].node = n
  BY <1>1, Went DEF StartNode, Driven, Typed, TypeOK, RequestsOK, Locals
<1>5. HasRow(r, "running")'
  BY <1>2, <1>3, <1>4 DEF HasRow
<1>6. (mem'[r].todo \ {mem'[r].node}) \cap StartedNodes(execs') = {}
  BY <1>1, <1>3, <1>4
<1> QED BY <1>3, <1>4, <1>5, <1>6 DEF Fine, Remembers

LEMMA MarksFine ==
    ASSUME Driven, NEW r \in Requests,
           MarkWaiting(r) \/ (\E v \in Outputs : MarkSucceeded(r, v)) \/ MarkFailed(r)
    PROVE  Fine(r)
<1> DEFINE i == mem[r].exec
<1>1. i \in DOMAIN execs /\ execs[i].status = "running" /\ pc[r] \in {"ask", "run", "run input"}
  BY DEF MarkWaiting, MarkSucceeded, MarkFailed, Driven, Remembers, HasRow
<1>2. execs[i] \in Execution
  BY <1>1, ElementOfSeq, LenProperties DEF Driven, Typed, TypeOK, RowsOK
<1>3. PICK row : /\ execs' = [execs EXCEPT ![i] = row]
                 /\ row.node = execs[i].node /\ row.attempt = execs[i].attempt
                 /\ row.status # "superseded"
  <2>1. CASE MarkWaiting(r)
    <3> DEFINE row == [execs[i] EXCEPT !.status = "waiting", !.form = (pc[r] = "ask")]
    <3>1. execs' = [execs EXCEPT ![i] = row]
      BY <2>1 DEF MarkWaiting
    <3>2. row.node = execs[i].node /\ row.attempt = execs[i].attempt /\ row.status = "waiting"
      BY <1>2 DEF Execution
    <3> HIDE DEF row
    <3> QED BY <3>1, <3>2
  <2>2. CASE \E v \in Outputs : MarkSucceeded(r, v)
    <3>1. PICK v \in Outputs : MarkSucceeded(r, v)
      BY <2>2
    <3> DEFINE row == [execs[i] EXCEPT !.status = "succeeded", !.output = v, !.form = FALSE]
    <3>2. execs' = [execs EXCEPT ![i] = row]
      BY <3>1 DEF MarkSucceeded
    <3>3. row.node = execs[i].node /\ row.attempt = execs[i].attempt /\ row.status = "succeeded"
      BY <1>2 DEF Execution
    <3> HIDE DEF row
    <3> QED BY <3>2, <3>3
  <2>3. CASE MarkFailed(r)
    <3> DEFINE row == [execs[i] EXCEPT !.status = "failed"]
    <3>1. execs' = [execs EXCEPT ![i] = row]
      BY <2>3 DEF MarkFailed
    <3>2. row.node = execs[i].node /\ row.attempt = execs[i].attempt /\ row.status = "failed"
      BY <1>2 DEF Execution
    <3> HIDE DEF row
    <3> QED BY <3>1, <3>2
  <2> QED BY <2>1, <2>2, <2>3
<1>4. /\ OneCurrentExecution' /\ HistoryStep
      /\ StartedNodes(execs') = StartedNodes(execs)
  BY <1>1, <1>3, RowKept DEF Live, Driven
<1>5. \/ pc'[r] \in {"done", "continue"}
      \/ pc[r] \in {"ask", "run"} /\ pc'[r] = "look" /\ mem' = mem
  BY <1>1, Went DEF MarkWaiting, MarkSucceeded, MarkFailed, AfterMark, Driven
<1> QED BY <1>4, <1>5 DEF Fine, Driven, Remembers

LEMMA ClearDownstreamFine ==
    ASSUME Driven, NEW r \in Requests, ClearDownstream(r)
    PROVE  Fine(r)
<1>1. OneCurrentExecution' /\ HistoryStep
  BY RowsCleared DEF ClearDownstream, Driven, Typed, TypeOK, RowsOK
<1>2. pc'[r] = "continue"
  BY Went DEF ClearDownstream, Driven
<1> QED BY <1>1, <1>2 DEF Fine, Remembers

----------------------------------------------------------------------------
(* The steps of drafts and deletions: no node and no status changes.          *)

LEMMA OthersFine ==
    ASSUME Driven, NEW r \in Requests,
           MergeDraft(r) \/ CommitDraft(r) \/ ArchiveRead(r) \/ ArchiveTask(r)
    PROVE  /\ OneCurrentExecution' /\ HistoryStep
           /\ DOMAIN execs' = DOMAIN execs
           /\ \A i \in DOMAIN execs : /\ execs'[i].node = execs[i].node
                                      /\ execs'[i].status = execs[i].status
           /\ pc'[r] \notin DriverPlaces
<1>1. pc'[r] \notin DriverPlaces
  BY Went, DriverPlacesAre
     DEF MergeDraft, CommitDraft, ArchiveRead, ArchiveTask, ReadView, Return, Driven
<1>2. CASE UNCHANGED execs
  BY <1>1, <1>2, RowsSame DEF Driven
<1>3. CASE ~UNCHANGED execs
  <2>1. PICK i \in DOMAIN execs : /\ WaitingAt(execs, req[r].node) = {i}
                                  /\ execs' = [execs EXCEPT ![i].fields = mem[r].fields]
    BY <1>3 DEF MergeDraft, CommitDraft, ArchiveRead, ArchiveTask, ReadView, db
  <2> DEFINE row == [execs[i] EXCEPT !.fields = mem[r].fields]
  <2>2. execs[i] \in Execution /\ execs[i].status = "waiting"
    BY <2>1, ElementOfSeq, LenProperties DEF WaitingAt, Driven, Typed, TypeOK, RowsOK
  <2>3. /\ execs' = [execs EXCEPT ![i] = row]
        /\ row.node = execs[i].node /\ row.attempt = execs[i].attempt
        /\ row.status = execs[i].status
    BY <2>1, <2>2 DEF Execution
  <2> HIDE DEF row
  <2>4. OneCurrentExecution' /\ HistoryStep /\ DOMAIN execs' = DOMAIN execs
    BY <2>2, <2>3, RowKept DEF Live, Driven
  <2> QED BY <1>1, <2>3, <2>4
<1> QED BY <1>2, <1>3

LEMMA HandleDriven ==
    ASSUME Driven, NEW r \in Requests, Handle(r)
    PROVE  Driven' /\ HistoryStep
<1>1. Typed'
  BY TypedStep DEF Driven, Next
<1>2. Alone' /\ \A q \in Requests \ {r} : pc'[q] = pc[q]
  BY AloneHandle DEF Driven
<1>3. CASE MergeDraft(r) \/ CommitDraft(r) \/ ArchiveRead(r) \/ ArchiveTask(r)
  <2>1. OneCurrentExecution' /\ HistoryStep
    BY <1>3, OthersFine
  <2>2. Remembers(r)'
    BY <1>3, OthersFine, Elsewhere
  <2>3. ASSUME NEW q \in Requests \ {r} PROVE Remembers(q)'
    <3>1. mem'[q] = mem[q]
      BY <1>3 DEF MergeDraft, CommitDraft, ArchiveRead, ArchiveTask, ReadView, Return,
                  Driven, Typed, TypeOK, RequestsOK
    <3> QED BY <1>2, <1>3, <3>1, OthersFine, Undisturbed DEF Driven
  <2> QED BY <1>1, <1>2, <2>1, <2>2, <2>3 DEF Driven
<1>4. CASE ~(MergeDraft(r) \/ CommitDraft(r) \/ ArchiveRead(r) \/ ArchiveTask(r))
  <2>1. Fine(r)
    BY <1>4, ReadStepsFine, AnswerFine, SubmitFine, StartNodeFine, MarksFine, ClearDownstreamFine
       DEF Handle
  <2>2. pc[r] \in DriverPlaces
    BY <1>4, DriverPlacesAre
       DEF Handle, FindWaiting, Answer, LoadInput, Submit, ReadExecutions, LoadOutputs, ResolveInputs,
           StartNode, MarkWaiting, MarkSucceeded, MarkFailed, LookAgain, FinishRead, FinishTask,
           FailRead, FailTask, FindCurrent, ClearRead, ClearDownstream, ReadView
  <2>3. ASSUME NEW q \in Requests \ {r} PROVE Remembers(q)'
    <3>1. pc'[q] \notin DriverPlaces
      BY <1>2, <2>2 DEF Driven, Alone
    <3> QED BY <3>1, Elsewhere
  <2> QED BY <1>1, <1>2, <2>1, <2>3 DEF Driven, Fine
<1> QED BY <1>3, <1>4

LEMMA CallDriven ==
    ASSUME Driven, Drivers \subseteq Exclusive, NEW r \in Requests, Call(r)
    PROVE  Driven' /\ HistoryStep
<1>1. Typed'
  BY TypedStep DEF Driven, Next
<1>2. /\ Alone' /\ UNCHANGED execs
      /\ \A q \in Requests : pc'[q] \in DriverPlaces /\ q # r => pc'[q] = pc[q] /\ mem'[q] = mem[q]
      /\ pc'[r] \in {"continue", "find waiting", "find draft", "find current", "archive"}
  BY AloneCall DEF Driven
<1>3. OneCurrentExecution' /\ HistoryStep
  BY <1>2, RowsSame DEF Driven
<1>4. ASSUME NEW q \in Requests PROVE Remembers(q)'
  <2>1. CASE q = r
    BY <1>2, <2>1 DEF Remembers
  <2>2. CASE q # r /\ pc'[q] \in DriverPlaces
    BY <1>2, <2>2, Undisturbed DEF Driven
  <2>3. CASE pc'[q] \notin DriverPlaces
    BY <2>3, Elsewhere
  <2> QED BY <2>1, <2>2, <2>3
<1> QED BY <1>1, <1>2, <1>3, <1>4 DEF Driven

LEMMA CrashDriven ==
    ASSUME Driven, Crash
    PROVE  Driven' /\ HistoryStep
<1>1. Typed'
  BY TypedStep DEF Driven
<1>2. OneCurrentExecution' /\ HistoryStep
  BY RowsSame DEF Driven, Crash
<1>3. \A r \in Requests : pc'[r] \notin DriverPlaces
  BY DriverPlacesAre DEF Crash, InFlight
<1>4. Alone' /\ \A r \in Requests : Remembers(r)'
  BY <1>3, Elsewhere DEF Alone
<1> QED BY <1>1, <1>2, <1>4 DEF Driven

LEMMA DrivenStep ==
    ASSUME Drivers \subseteq Exclusive, Driven, [Next \/ Crash]_vars
    PROVE  Driven' /\ [HistoryStep]_execs
<1>1. CASE Next
  BY <1>1, HandleDriven, CallDriven DEF Next
<1>2. CASE Crash
  BY <1>2, CrashDriven
<1>3. CASE UNCHANGED vars
  <2>1. Typed'
    BY <1>3, TypedStep DEF Driven
  <2>2. OneCurrentExecution'
    BY <1>3, RowsSame DEF Driven, vars
  <2>3. Alone' /\ \A r \in Requests : Remembers(r)'
    BY <1>3 DEF Driven, Alone, Remembers, HasRow, vars
  <2> QED BY <1>3, <2>1, <2>2, <2>3 DEF Driven, vars
<1> QED BY <1>1, <1>2, <1>3

\* As long as callers make one driving request at a time, no node ever has two
\* current executions, for every contract and any number of requests, drafts,
\* deletions and crashes.
THEOREM OneCurrentAlways ==
    ASSUME Drivers \subseteq Exclusive
    PROVE  CrashSpec => []OneCurrentExecution
<1>1. Init => Driven
  BY DrivenInit
<1>2. Driven /\ [Next \/ Crash]_vars => Driven'
  BY DrivenStep
<1>3. Driven => OneCurrentExecution
  BY DEF Driven
<1> QED BY <1>1, <1>2, <1>3, PTL DEF CrashSpec

\* And the executions are a history: no step removes or renames one, brings a
\* superseded one back, or overwrites a recorded result.
THEOREM HistoryAlwaysKept ==
    ASSUME Drivers \subseteq Exclusive
    PROVE  CrashSpec => HistoryKept
<1>1. Init => Driven
  BY DrivenInit
<1>2. Driven /\ [Next \/ Crash]_vars => Driven'
  BY DrivenStep
<1>3. Driven /\ [Next \/ Crash]_vars => [HistoryStep]_execs
  BY DrivenStep
<1> QED BY <1>1, <1>2, <1>3, PTL DEF CrashSpec, HistoryKept


----------------------------------------------------------------------------
(* The inductive invariant: the number a node's next attempt would get is one *)
(* more than its rows, and a request about to insert a row has that number.   *)

RowsOf(es, n) == {j \in DOMAIN es : es[j].node = n}
Numbers(es, n) == {es[j].attempt : j \in RowsOf(es, n)}

Counted ==
    \A n \in Nodes :
        /\ Latest({0} \cup Numbers(execs, n)) = Cardinality(RowsOf(execs, n))
        /\ \A i \in RowsOf(execs, n) : execs[i].attempt <= Cardinality(RowsOf(execs, n))

Planned(r) == pc[r] = "insert" => mem[r].attempt = NextAttempt(execs, mem[r].node)

Ordered == Driven /\ AttemptsInOrder /\ Counted /\ \A r \in Requests : Planned(r)

LEMMA NextAttemptIs ==
    ASSUME NEW es, NEW n
    PROVE  NextAttempt(es, n) = 1 + Latest({0} \cup Numbers(es, n))
BY DEF NextAttempt, Numbers, RowsOf

LEMMA RowsFinite ==
    ASSUME execs \in Seq(Execution), NEW n
    PROVE  /\ IsFiniteSet(RowsOf(execs, n)) /\ Cardinality(RowsOf(execs, n)) \in Nat
           /\ DOMAIN execs = 1..Len(execs) /\ Len(execs) \in Nat
           /\ \A i \in DOMAIN execs : execs[i] \in Execution
<1>1. /\ DOMAIN execs = 1..Len(execs) /\ Len(execs) \in Nat
      /\ \A i \in DOMAIN execs : execs[i] \in Execution
  BY LenProperties, ElementOfSeq
<1>2. IsFiniteSet(1..Len(execs))
  BY <1>1, FS_Interval
<1>3. IsFiniteSet(RowsOf(execs, n))
  BY <1>1, <1>2, FS_Subset DEF RowsOf
<1> QED BY <1>1, <1>3, FS_CardinalityType

----------------------------------------------------------------------------
(* Rows that keep their nodes and numbers.                                    *)

LEMMA NumbersSame ==
    ASSUME HistoryStep, DOMAIN execs' = DOMAIN execs, NEW n
    PROVE  /\ RowsOf(execs', n) = RowsOf(execs, n) /\ Numbers(execs', n) = Numbers(execs, n)
           /\ NextAttempt(execs', n) = NextAttempt(execs, n)
<1>1. RowsOf(execs', n) = RowsOf(execs, n)
  BY DEF RowsOf, HistoryStep
<1>2. Numbers(execs', n) = Numbers(execs, n)
  BY <1>1 DEF Numbers, HistoryStep, RowsOf
<1> QED BY <1>1, <1>2, NextAttemptIs

LEMMA OrderSame ==
    ASSUME execs \in Seq(Execution), HistoryStep, DOMAIN execs' = DOMAIN execs,
           AttemptsInOrder, Counted
    PROVE  AttemptsInOrder' /\ Counted'
<1>1. DOMAIN execs = 1..Len(execs) /\ Len(execs) \in Nat
  BY RowsFinite
<1>2. ASSUME NEW i \in DOMAIN execs
      PROVE  LET earlier == {j \in 1..(i-1) : execs'[j].node = execs'[i].node}
             IN  /\ execs'[i].attempt = 1 + Cardinality(earlier)
                 /\ \A j \in earlier : ~Live(execs', j)
  <2> DEFINE before == {j \in 1..(i-1) : execs[j].node = execs[i].node}
             earlier == {j \in 1..(i-1) : execs'[j].node = execs'[i].node}
  <2>1. 1..(i-1) \subseteq DOMAIN execs
    BY <1>1
  <2>2. \A j \in DOMAIN execs : /\ execs'[j].node = execs[j].node
                                /\ execs'[j].attempt = execs[j].attempt
                                /\ ~Live(execs, j) => ~Live(execs', j)
    BY DEF HistoryStep
  <2>3. earlier = before
    BY <2>1, <2>2
  <2>4. execs[i].attempt = 1 + Cardinality(before) /\ \A j \in before : ~Live(execs, j)
    BY DEF AttemptsInOrder
  <2>5. before \subseteq DOMAIN execs
    BY <2>1
  <2> HIDE DEF before, earlier
  <2>6. /\ execs'[i].attempt = 1 + Cardinality(earlier)
        /\ \A j \in earlier : ~Live(execs', j)
    BY <2>2, <2>3, <2>4, <2>5
  <2> QED BY <2>6 DEF earlier
<1>3. AttemptsInOrder'
  BY <1>2 DEF AttemptsInOrder
<1>4. Counted'
  BY NumbersSame DEF Counted, RowsOf, HistoryStep
<1> QED BY <1>3, <1>4

----------------------------------------------------------------------------
(* A row is added.                                                            *)

\* The greatest of some numbers and one above them all.
LEMMA GreaterIsLatest ==
    ASSUME NEW S, NEW k \in Nat, \A j \in S : j \in Nat /\ j <= k
    PROVE  Latest({0} \cup S \cup {k}) = k
BY DEF Latest

LEMMA OrderAdded ==
    ASSUME execs \in Seq(Execution), AttemptsInOrder, Counted, HistoryStep,
           NEW row \in Execution, execs' = Append(execs, row),
           row.attempt = NextAttempt(execs, row.node), row.node \notin StartedNodes(execs)
    PROVE  AttemptsInOrder' /\ Counted'
<1> DEFINE n == row.node
           new == Len(execs) + 1
           c == Cardinality(RowsOf(execs, n))
<1>1. /\ DOMAIN execs = 1..Len(execs) /\ Len(execs) \in Nat /\ \A i \in DOMAIN execs : execs[i] \in Execution
      /\ IsFiniteSet(RowsOf(execs, n)) /\ c \in Nat
  BY RowsFinite
<1>2. /\ DOMAIN execs' = 1..new /\ execs'[new] = row
      /\ \A j \in 1..Len(execs) : execs'[j] = execs[j]
  BY <1>1, LenProperties, AppendProperties
<1>3. n \in Nodes /\ row.attempt = 1 + c
  BY NextAttemptIs DEF Counted, Execution
<1>4. ASSUME NEW i \in DOMAIN execs'
      PROVE  LET earlier == {j \in 1..(i-1) : execs'[j].node = execs'[i].node}
             IN  /\ execs'[i].attempt = 1 + Cardinality(earlier)
                 /\ \A j \in earlier : ~Live(execs', j)
  <2> DEFINE earlier == {j \in 1..(i-1) : execs'[j].node = execs'[i].node}
  <2>1. CASE i = new
    <3>1. earlier = RowsOf(execs, n)
      BY <1>1, <1>2, <2>1 DEF RowsOf
    <3>2. \A j \in RowsOf(execs, n) : ~Live(execs, j) /\ Live(execs', j) = Live(execs, j)
      BY <1>1, <1>2 DEF RowsOf, StartedNodes, Live
    <3> HIDE DEF earlier
    <3>3. execs'[i].attempt = 1 + Cardinality(earlier) /\ \A j \in earlier : ~Live(execs', j)
      BY <1>2, <1>3, <2>1, <3>1, <3>2
    <3> QED BY <3>3 DEF earlier
  <2>2. CASE i \in DOMAIN execs
    <3> DEFINE before == {j \in 1..(i-1) : execs[j].node = execs[i].node}
    <3>1. \A j \in 1..i : execs'[j] = execs[j]
      BY <1>1, <1>2, <2>2
    <3>2. i \in 1..i /\ 1..(i-1) \subseteq 1..i
      BY <1>1, <2>2
    <3>3. earlier = before
      BY <3>1, <3>2
    <3>4. execs[i].attempt = 1 + Cardinality(before) /\ \A j \in before : ~Live(execs, j)
      BY <2>2 DEF AttemptsInOrder
    <3>5. \A j \in before : j \in 1..i
      BY <3>2
    <3> HIDE DEF before, earlier
    <3>6. execs'[i].attempt = 1 + Cardinality(earlier) /\ \A j \in earlier : ~Live(execs', j)
      BY <3>1, <3>2, <3>3, <3>4, <3>5 DEF Live
    <3> QED BY <3>6 DEF earlier
  <2>3. i = new \/ i \in DOMAIN execs
    BY <1>1, <1>2
  <2> QED BY <2>1, <2>2, <2>3
<1>5. AttemptsInOrder'
  BY <1>4 DEF AttemptsInOrder
<1>6. ASSUME NEW m \in Nodes
      PROVE  /\ Latest({0} \cup Numbers(execs', m)) = Cardinality(RowsOf(execs', m))
             /\ \A i \in RowsOf(execs', m) : execs'[i].attempt <= Cardinality(RowsOf(execs', m))
  <2>1. CASE m = n
    <3>1. RowsOf(execs', n) = RowsOf(execs, n) \cup {new} /\ new \notin RowsOf(execs, n)
      BY <1>1, <1>2 DEF RowsOf
    <3>2. Cardinality(RowsOf(execs', n)) = c + 1
      <4> HIDE DEF new
      <4> QED BY <1>1, <3>1, FS_AddElement
    <3>3. Numbers(execs', n) = Numbers(execs, n) \cup {c + 1}
      <4>1. execs'[new].attempt = c + 1 /\ \A j \in RowsOf(execs, n) : execs'[j].attempt = execs[j].attempt
        BY <1>1, <1>2, <1>3 DEF RowsOf
      <4>2. \A j \in RowsOf(execs, n) \cup {new} : execs'[j].attempt \in Numbers(execs, n) \cup {c + 1}
        BY <4>1 DEF Numbers
      <4>3. Numbers(execs', n) \subseteq Numbers(execs, n) \cup {c + 1}
        BY <3>1, <4>2 DEF Numbers
      <4>4. c + 1 \in Numbers(execs', n)
        BY <3>1, <4>1 DEF Numbers
      <4>5. \A j \in RowsOf(execs, n) : execs[j].attempt \in Numbers(execs', n)
        BY <3>1, <4>1 DEF Numbers
      <4>6. Numbers(execs, n) \subseteq Numbers(execs', n)
        BY <4>5 DEF Numbers
      <4> QED BY <4>3, <4>4, <4>6
    <3>4. \A j \in RowsOf(execs, n) : execs[j].attempt \in Nat /\ execs[j].attempt <= c
      <4>1. \A j \in RowsOf(execs, n) : execs[j].attempt <= c
        BY <1>3 DEF Counted
      <4>2. \A j \in RowsOf(execs, n) : execs[j].attempt \in Nat
        BY <1>1 DEF RowsOf, Execution
      <4> QED BY <4>1, <4>2
    <3>5. \A k \in Numbers(execs, n) : k \in Nat /\ k <= c + 1
      <4> HIDE DEF c
      <4> QED BY <1>1, <3>4 DEF Numbers
    <3>6. Latest({0} \cup Numbers(execs, n) \cup {c + 1}) = c + 1
      <4>1. c + 1 \in Nat
        BY <1>1
      <4> DEFINE k == c + 1
                 S == Numbers(execs, n)
      <4>2. k \in Nat /\ \A j \in S : j \in Nat /\ j <= k
        BY <3>5, <4>1
      <4> HIDE DEF k, S
      <4>3. Latest({0} \cup S \cup {k}) = k
        BY <4>2, GreaterIsLatest
      <4> QED BY <4>3 DEF k, S
    <3>7. {0} \cup Numbers(execs', n) = {0} \cup Numbers(execs, n) \cup {c + 1}
      BY <3>3
    <3>8. \A i \in RowsOf(execs', n) : execs'[i].attempt <= c + 1
      <4>1. \A i \in RowsOf(execs', n) : execs'[i].attempt \in Numbers(execs', n)
        BY DEF Numbers
      <4>2. \A i \in RowsOf(execs', n) : execs'[i].attempt \in Numbers(execs, n) \cup {c + 1}
        BY <3>3, <4>1
      <4>3. \A k \in Numbers(execs, n) \cup {c + 1} : k <= c + 1
        BY <1>1, <3>5
      <4> QED BY <4>2, <4>3
    <3> QED BY <2>1, <3>2, <3>6, <3>7, <3>8
  <2>2. CASE m # n
    <3>1. RowsOf(execs', m) = RowsOf(execs, m) /\ \A i \in RowsOf(execs, m) : execs'[i] = execs[i]
      BY <1>1, <1>2, <2>2 DEF RowsOf
    <3>2. Numbers(execs', m) = Numbers(execs, m)
      BY <3>1 DEF Numbers
    <3> QED BY <3>1, <3>2 DEF Counted
  <2> QED BY <2>1, <2>2
<1>7. Counted'
  BY <1>6 DEF Counted
<1> QED BY <1>5, <1>7

----------------------------------------------------------------------------
(* The steps.                                                                 *)

\* Only the insertion of a row adds one; a request comes to the insertion only
\* by reading the number, and no step touches what another request remembers.
LEMMA Insertions ==
    ASSUME Driven, NEW r \in Requests, Handle(r)
    PROVE  /\ DOMAIN execs' = DOMAIN execs \/ StartNode(r)
           /\ pc'[r] = "insert" => ResolveInputs(r) /\ ~Raise(r)
           /\ \A q \in Requests \ {r} : mem'[q] = mem[q]
<1> USE DEF Return, Raise, Goto, Driven, Typed, TypeOK, RequestsOK
<1>1. CASE FindWaiting(r) \/ \E v \in Outputs : Answer(r, v)
  BY <1>1 DEF FindWaiting, Answer, db
<1>2. CASE LoadInput(r) \/ Submit(r)
  BY <1>2 DEF LoadInput, Submit, db
<1>3. CASE ReadExecutions(r) \/ LoadOutputs(r)
  BY <1>3 DEF ReadExecutions, LoadOutputs, Idle, db
<1>4. CASE ResolveInputs(r)
  BY <1>4 DEF ResolveInputs, db
<1>5. CASE StartNode(r)
  BY <1>5 DEF StartNode
<1>6. CASE MarkWaiting(r) \/ (\E v \in Outputs : MarkSucceeded(r, v)) \/ MarkFailed(r)
  BY <1>6 DEF MarkWaiting, MarkSucceeded, MarkFailed, AfterMark
<1>7. CASE LookAgain(r)
  BY <1>7 DEF LookAgain, db
<1>8. CASE FinishRead(r) \/ FinishTask(r) \/ FailRead(r) \/ FailTask(r)
  BY <1>8 DEF FinishRead, FinishTask, FailRead, FailTask, ReadView, db
<1>9. CASE MergeDraft(r) \/ CommitDraft(r) \/ ArchiveRead(r) \/ ArchiveTask(r)
  BY <1>9 DEF MergeDraft, CommitDraft, ArchiveRead, ArchiveTask, ReadView, db
<1>10. CASE FindCurrent(r) \/ ClearRead(r) \/ ClearDownstream(r)
  BY <1>10 DEF FindCurrent, ClearRead, ClearDownstream, ReadView, db
<1> QED BY <1>1, <1>2, <1>3, <1>4, <1>5, <1>6, <1>7, <1>8, <1>9, <1>10 DEF Handle

LEMMA StartNodeOrdered ==
    ASSUME Ordered, NEW r \in Requests, StartNode(r), HistoryStep
    PROVE  AttemptsInOrder' /\ Counted'
<1> DEFINE row == [node |-> mem[r].node, attempt |-> mem[r].attempt, status |-> "running",
                   form |-> FALSE, output |-> NoOutput,
                   uses |-> Uses(mem[r].node, mem[r].outs), fields |-> {}]
<1>1. /\ mem[r].node \in mem[r].todo /\ mem[r].todo \cap StartedNodes(execs) = {}
      /\ execs \in Seq(Execution) /\ mem[r] \in Locals
      /\ mem[r].attempt = NextAttempt(execs, mem[r].node)
  BY DEF StartNode, Ordered, Driven, Remembers, Typed, TypeOK, RowsOK, RequestsOK, Planned
<1>2. mem[r].node \in Nodes /\ Uses(mem[r].node, mem[r].outs) \in [Nodes -> Nat]
  BY <1>1, UsesType DEF Locals
<1>3. row \in Execution /\ row.node = mem[r].node /\ row.attempt = mem[r].attempt
  BY <1>1, <1>2 DEF Execution, ExecStatuses, Locals
<1>4. execs' = Append(execs, row)
  BY DEF StartNode
<1> HIDE DEF row
<1> QED BY <1>1, <1>2, <1>3, <1>4, OrderAdded DEF Ordered

LEMMA HandleOrdered ==
    ASSUME Ordered, NEW r \in Requests, Handle(r)
    PROVE  Ordered'
<1>1. Driven' /\ HistoryStep
  BY HandleDriven DEF Ordered
<1>2. /\ DOMAIN execs' = DOMAIN execs \/ StartNode(r)
      /\ pc'[r] = "insert" => ResolveInputs(r) /\ ~Raise(r)
      /\ \A q \in Requests \ {r} : mem'[q] = mem[q]
  BY Insertions DEF Ordered
<1>3. AttemptsInOrder' /\ Counted'
  BY <1>1, <1>2, OrderSame, StartNodeOrdered DEF Ordered, Driven, Typed, TypeOK, RowsOK
<1>4. ASSUME pc'[r] = "insert" PROVE Planned(r)'
  <2>1. PICK n \in mem[r].todo :
           /\ mem' = [mem EXCEPT ![r].node = n, ![r].attempt = NextAttempt(execs, n)]
           /\ UNCHANGED execs
    BY <1>2, <1>4 DEF ResolveInputs, db
  <2>2. mem'[r].node = n /\ mem'[r].attempt = NextAttempt(execs, n)
    BY <2>1 DEF Ordered, Driven, Typed, TypeOK, RequestsOK, Locals
  <2> QED BY <2>1, <2>2 DEF Planned
<1>5. ASSUME NEW q \in Requests \ {r}, pc'[q] = "insert" PROVE Planned(q)'
  <2>1. pc[q] = "insert" /\ mem'[q] = mem[q]
    BY <1>2, <1>5, AloneHandle DEF Ordered, Driven
  <2>2. ~StartNode(r)
    BY <2>1, DriverPlacesAre DEF StartNode, Ordered, Driven, Alone
  <2>3. NextAttempt(execs', mem[q].node) = NextAttempt(execs, mem[q].node)
    BY <1>1, <1>2, <2>2, NumbersSame
  <2> QED BY <2>1, <2>3 DEF Planned, Ordered
<1> QED BY <1>1, <1>3, <1>4, <1>5 DEF Ordered, Planned

\* A step that leaves the rows and the requests about to insert as they are.
LEMMA RestOrdered ==
    ASSUME Ordered, Driven', HistoryStep, UNCHANGED execs,
           \A q \in Requests : pc'[q] = "insert" => pc[q] = "insert" /\ mem'[q] = mem[q]
    PROVE  Ordered'
<1>1. AttemptsInOrder' /\ Counted'
  BY OrderSame DEF Ordered, Driven, Typed, TypeOK, RowsOK
<1> QED BY <1>1 DEF Ordered, Planned

LEMMA OrderedStep ==
    ASSUME Drivers \subseteq Exclusive, Ordered, [Next \/ Crash]_vars
    PROVE  Ordered'
<1>1. ASSUME NEW r \in Requests, Call(r) PROVE Ordered'
  <2>1. Driven' /\ HistoryStep
    BY <1>1, CallDriven DEF Ordered
  <2>2. /\ UNCHANGED execs
        /\ \A q \in Requests : pc'[q] \in DriverPlaces /\ q # r => pc'[q] = pc[q] /\ mem'[q] = mem[q]
        /\ pc'[r] # "insert"
    BY <1>1, AloneCall DEF Ordered, Driven
  <2> QED BY <2>1, <2>2, RestOrdered, DriverPlacesAre
<1>2. CASE Crash
  <2>1. Driven' /\ HistoryStep
    BY <1>2, CrashDriven DEF Ordered
  <2>2. UNCHANGED execs /\ \A q \in Requests : pc'[q] # "insert"
    BY <1>2 DEF Crash, InFlight
  <2> QED BY <2>1, <2>2, RestOrdered
<1>3. CASE UNCHANGED vars
  <2>1. Driven' /\ UNCHANGED <<execs, pc, mem>>
    BY <1>3, DrivenStep DEF Ordered, vars
  <2>2. HistoryStep
    BY <2>1 DEF HistoryStep
  <2> QED BY <2>1, <2>2, RestOrdered
<1> QED BY <1>1, <1>2, <1>3, HandleOrdered DEF Next

LEMMA OrderedInit == Init => Ordered
<1> SUFFICES ASSUME Init PROVE Ordered
  OBVIOUS
<1>1. AttemptsInOrder /\ \A r \in Requests : Planned(r)
  BY DEF Init, AttemptsInOrder, Planned
<1>2. ASSUME NEW n \in Nodes
      PROVE  /\ Latest({0} \cup Numbers(execs, n)) = Cardinality(RowsOf(execs, n))
             /\ \A i \in RowsOf(execs, n) : execs[i].attempt <= Cardinality(RowsOf(execs, n))
  <2>1. RowsOf(execs, n) = {} /\ {0} \cup Numbers(execs, n) = {0}
    BY DEF Init, RowsOf, Numbers
  <2>2. Latest({0}) = 0
    BY DEF Latest
  <2> QED BY <2>1, <2>2, FS_EmptySet
<1> QED BY <1>1, <1>2, DrivenInit DEF Ordered, Counted

\* As long as callers make one driving request at a time, the attempts of a node
\* are numbered 1, 2, 3, ..., and only the last can be current: the number is read
\* before the transaction that writes it (_start_node_execution), and nothing that
\* overlaps, neither drafts nor deletions nor a crash, makes it wrong.
THEOREM AttemptsAlwaysInOrder ==
    ASSUME Drivers \subseteq Exclusive
    PROVE  CrashSpec => []AttemptsInOrder
<1>1. Init => Ordered
  BY OrderedInit
<1>2. Ordered /\ [Next \/ Crash]_vars => Ordered'
  BY OrderedStep
<1>3. Ordered => AttemptsInOrder
  BY DEF Ordered
<1> QED BY <1>1, <1>2, <1>3, PTL DEF CrashSpec


----------------------------------------------------------------------------
(* A question is answered once.  Answers that were given and questions that   *)
(* still wait are together no more than the questions that were asked.        *)

Times(evs, e) == Cardinality({k \in DOMAIN evs : evs[k] = e})
Given(evs, n) == Times(evs, Event("task_resumed", {n}))
Posed(evs, n) == Times(evs, Event("node_waiting", {n}))
Open(es, n) == Cardinality(WaitingAt(es, n))

Balanced == \A n \in Nodes : Given(events, n) + Open(execs, n) <= Posed(events, n)

\* The row a request works on is one of its node.
OwnRow(r) ==
    /\ pc[r] \in {"ask", "run", "run input"} =>
          mem[r].exec \in DOMAIN execs /\ execs[mem[r].exec].node = mem[r].node
    /\ pc[r] \in {"load input", "submit"} =>
          mem[r].exec \in DOMAIN execs /\ execs[mem[r].exec].node = req[r].node

\* Without forms nobody fills one in.
FormPlaces == {"load input", "submit", "ask", "run input"}
NoForms ==
    /\ \A i \in DOMAIN execs : ~execs[i].form
    /\ \A r \in Requests : pc[r] \notin FormPlaces

\* One more event counts for itself, and for no other.
LEMMA TimesNext ==
    ASSUME NEW evs \in Seq(EventRow), NEW f \in EventRow, NEW e
    PROVE  /\ Times(evs, e) \in Nat
           /\ Times(Append(evs, f), e) = IF f = e THEN Times(evs, e) + 1 ELSE Times(evs, e)
<1> DEFINE m == Len(evs)
           fs == Append(evs, f)
           old == {k \in DOMAIN evs : evs[k] = e}
           new == {k \in DOMAIN fs : fs[k] = e}
<1>1. /\ m \in Nat /\ DOMAIN evs = 1..m /\ DOMAIN fs = 1..(m + 1)
      /\ fs[m + 1] = f /\ \A k \in 1..m : fs[k] = evs[k]
  BY LenProperties, AppendProperties
<1>2. IsFiniteSet(old) /\ Cardinality(old) \in Nat
  <2>1. IsFiniteSet(1..m)
    BY <1>1, FS_Interval, 1 \in Int, m \in Int
  <2>2. old \in SUBSET (1..m)
    BY <1>1
  <2> HIDE DEF old
  <2> QED BY <2>1, <2>2, FS_Subset, FS_CardinalityType
<1>3. m + 1 \notin old /\ 1..(m + 1) = (1..m) \cup {m + 1}
  BY <1>1
<1>4. CASE f = e
  <2>1. new = old \cup {m + 1}
    BY <1>1, <1>3, <1>4
  <2> HIDE DEF old, new
  <2>2. Cardinality(new) = Cardinality(old) + 1
    BY <1>2, <1>3, <2>1, FS_AddElement
  <2> QED BY <1>2, <1>4, <2>2 DEF Times, old, new
<1>5. CASE f # e
  <2>1. new = old
    BY <1>1, <1>3, <1>5
  <2> QED BY <1>2, <1>5, <2>1 DEF Times
<1> QED BY <1>4, <1>5

\* What one event adds to the answers given and the questions posed.
LEMMA CountNext ==
    ASSUME NEW evs \in Seq(EventRow), NEW type \in EventTypes, NEW S \in SUBSET Nodes,
           NEW n \in Nodes
    PROVE  LET fs == Append(evs, Event(type, S))
           IN  /\ fs \in Seq(EventRow)
               /\ Given(evs, n) \in Nat /\ Posed(evs, n) \in Nat
               /\ Given(fs, n) = IF type = "task_resumed" /\ S = {n}
                                 THEN Given(evs, n) + 1 ELSE Given(evs, n)
               /\ Posed(fs, n) = IF type = "node_waiting" /\ S = {n}
                                 THEN Posed(evs, n) + 1 ELSE Posed(evs, n)
<1> DEFINE f == Event(type, S)
           e1 == Event("task_resumed", {n})
           e2 == Event("node_waiting", {n})
<1>1. f \in EventRow
  BY EventType
<1>2. (f = e1 <=> type = "task_resumed" /\ S = {n}) /\ (f = e2 <=> type = "node_waiting" /\ S = {n})
  BY DEF Event
<1> HIDE DEF f, e1, e2
<1>3. Append(evs, f) \in Seq(EventRow)
  BY <1>1, AppendProperties
<1>4. /\ Times(evs, e1) \in Nat /\ Times(evs, e2) \in Nat
      /\ Times(Append(evs, f), e1) = IF f = e1 THEN Times(evs, e1) + 1 ELSE Times(evs, e1)
      /\ Times(Append(evs, f), e2) = IF f = e2 THEN Times(evs, e2) + 1 ELSE Times(evs, e2)
  BY <1>1, TimesNext
<1> QED BY <1>2, <1>3, <1>4 DEF Given, Posed, f, e1, e2

\* Two events, of which the second is neither an answer nor a question.
LEMMA CountTwo ==
    ASSUME NEW evs \in Seq(EventRow), NEW t1 \in EventTypes, NEW S1 \in SUBSET Nodes,
           NEW t2 \in EventTypes \ {"task_resumed", "node_waiting"}, NEW S2 \in SUBSET Nodes,
           NEW n \in Nodes
    PROVE  LET fs == evs \o <<Event(t1, S1), Event(t2, S2)>>
           IN  /\ fs \in Seq(EventRow)
               /\ Given(evs, n) \in Nat /\ Posed(evs, n) \in Nat
               /\ Given(fs, n) = IF t1 = "task_resumed" /\ S1 = {n}
                                 THEN Given(evs, n) + 1 ELSE Given(evs, n)
               /\ Posed(fs, n) = IF t1 = "node_waiting" /\ S1 = {n}
                                 THEN Posed(evs, n) + 1 ELSE Posed(evs, n)
<1> DEFINE e1 == Event(t1, S1)
           e2 == Event(t2, S2)
           fs == Append(evs, e1)
<1>1. /\ fs \in Seq(EventRow)
      /\ Given(evs, n) \in Nat /\ Posed(evs, n) \in Nat
      /\ Given(fs, n) = IF t1 = "task_resumed" /\ S1 = {n}
                        THEN Given(evs, n) + 1 ELSE Given(evs, n)
      /\ Posed(fs, n) = IF t1 = "node_waiting" /\ S1 = {n}
                        THEN Posed(evs, n) + 1 ELSE Posed(evs, n)
  BY CountNext
<1>2. evs \o <<e1, e2>> = Append(fs, e2)
  OBVIOUS
<1> HIDE DEF fs
<1>3. /\ Append(fs, e2) \in Seq(EventRow)
      /\ Given(Append(fs, e2), n) = Given(fs, n)
      /\ Posed(Append(fs, e2), n) = Posed(fs, n)
  <2>1. t2 \in EventTypes /\ t2 # "task_resumed" /\ t2 # "node_waiting"
    OBVIOUS
  <2> QED BY <1>1, <2>1, CountNext
<1> QED BY <1>1, <1>2, <1>3

\* The same for the events of one node.
LEMMA CountNode ==
    ASSUME NEW evs \in Seq(EventRow), NEW type \in EventTypes, NEW n \in Nodes, NEW m \in Nodes
    PROVE  LET fs == Append(evs, Event(type, {n}))
           IN  /\ fs \in Seq(EventRow)
               /\ Given(fs, m) = IF type = "task_resumed" /\ m = n
                                 THEN Given(evs, m) + 1 ELSE Given(evs, m)
               /\ Posed(fs, m) = IF type = "node_waiting" /\ m = n
                                 THEN Posed(evs, m) + 1 ELSE Posed(evs, m)
<1> DEFINE S == {n}
<1>1. S \in SUBSET Nodes /\ (S = {m} <=> m = n)
  OBVIOUS
<1> HIDE DEF S
<1>2. LET fs == Append(evs, Event(type, S))
      IN  /\ fs \in Seq(EventRow)
          /\ Given(fs, m) = IF type = "task_resumed" /\ S = {m}
                            THEN Given(evs, m) + 1 ELSE Given(evs, m)
          /\ Posed(fs, m) = IF type = "node_waiting" /\ S = {m}
                            THEN Posed(evs, m) + 1 ELSE Posed(evs, m)
  BY <1>1, CountNext
<1> QED BY <1>1, <1>2 DEF S

LEMMA CountNodeTwo ==
    ASSUME NEW evs \in Seq(EventRow), NEW t1 \in EventTypes,
           NEW t2 \in EventTypes \ {"task_resumed", "node_waiting"}, NEW n \in Nodes, NEW m \in Nodes
    PROVE  LET fs == evs \o <<Event(t1, {n}), Event(t2, {n})>>
           IN  /\ fs \in Seq(EventRow)
               /\ Given(fs, m) = IF t1 = "task_resumed" /\ m = n
                                 THEN Given(evs, m) + 1 ELSE Given(evs, m)
               /\ Posed(fs, m) = IF t1 = "node_waiting" /\ m = n
                                 THEN Posed(evs, m) + 1 ELSE Posed(evs, m)
<1> DEFINE S == {n}
<1>1. S \in SUBSET Nodes /\ (S = {m} <=> m = n)
  OBVIOUS
<1> HIDE DEF S
<1>2. LET fs == evs \o <<Event(t1, S), Event(t2, S)>>
      IN  /\ fs \in Seq(EventRow)
          /\ Given(fs, m) = IF t1 = "task_resumed" /\ S = {m}
                            THEN Given(evs, m) + 1 ELSE Given(evs, m)
          /\ Posed(fs, m) = IF t1 = "node_waiting" /\ S = {m}
                            THEN Posed(evs, m) + 1 ELSE Posed(evs, m)
  BY <1>1, CountTwo
<1> QED BY <1>1, <1>2 DEF S

\* Rows that wait are finitely many.
LEMMA OpenType ==
    ASSUME NEW es \in Seq(Execution), NEW n
    PROVE  IsFiniteSet(WaitingAt(es, n)) /\ Open(es, n) \in Nat
<1>1. Len(es) \in Nat /\ DOMAIN es = 1..Len(es)
  BY LenProperties
<1>2. IsFiniteSet(1..Len(es))
  BY <1>1, FS_Interval, 1 \in Int
<1>3. WaitingAt(es, n) \in SUBSET (1..Len(es))
  BY <1>1 DEF WaitingAt
<1>4. IsFiniteSet(WaitingAt(es, n))
  BY <1>2, <1>3, FS_Subset
<1> QED BY <1>4, FS_CardinalityType DEF Open

\* A step that asks nothing, answers nothing and leaves no more rows waiting.
LEMMA QuietBalanced ==
    ASSUME Typed, Balanced,
           \A n \in Nodes : /\ WaitingAt(execs', n) \subseteq WaitingAt(execs, n)
                            /\ Given(events', n) = Given(events, n)
                            /\ Posed(events', n) = Posed(events, n)
    PROVE  Balanced'
<1> SUFFICES ASSUME NEW n \in Nodes
             PROVE  Given(events', n) + Open(execs', n) <= Posed(events', n)
  BY DEF Balanced
<1>1. Open(execs', n) <= Open(execs, n) /\ Open(execs', n) \in Nat /\ Open(execs, n) \in Nat
  <2>1. IsFiniteSet(WaitingAt(execs, n)) /\ Open(execs, n) \in Nat
    BY OpenType DEF Typed, TypeOK, RowsOK
  <2> QED BY <2>1, FS_Subset, FS_CardinalityType DEF Open
<1>2. Given(events, n) \in Nat /\ Posed(events, n) \in Nat
  BY CountNext, {} \in SUBSET Nodes, "node_failed" \in EventTypes DEF Typed, TypeOK, RowsOK, EventTypes
<1>3. Given(events, n) + Open(execs, n) <= Posed(events, n)
  BY DEF Balanced
<1> QED BY <1>1, <1>2, <1>3

\* An answer is given to a row that waited and does no more.
LEMMA AnswerBalanced ==
    ASSUME Typed, Balanced, NEW n \in Nodes, NEW i \in WaitingAt(execs, n),
           \A m \in Nodes : WaitingAt(execs', m) \subseteq WaitingAt(execs, m) \ {i},
           \A m \in Nodes : /\ Given(events', m) = IF m = n THEN Given(events, m) + 1
                                                  ELSE Given(events, m)
                            /\ Posed(events', m) = Posed(events, m)
    PROVE  Balanced'
<1> SUFFICES ASSUME NEW m \in Nodes
             PROVE  Given(events', m) + Open(execs', m) <= Posed(events', m)
  BY DEF Balanced
<1>1. IsFiniteSet(WaitingAt(execs, m)) /\ Open(execs, m) \in Nat
  BY OpenType DEF Typed, TypeOK, RowsOK
<1>2. /\ Open(execs', m) \in Nat
      /\ Open(execs', m) <= IF m = n THEN Open(execs, m) - 1 ELSE Open(execs, m)
  <2>1. /\ IsFiniteSet(WaitingAt(execs, m) \ {i})
        /\ Cardinality(WaitingAt(execs, m) \ {i}) =
             IF i \in WaitingAt(execs, m) THEN Open(execs, m) - 1 ELSE Open(execs, m)
    BY <1>1, FS_RemoveElement DEF Open
  <2>2. /\ IsFiniteSet(WaitingAt(execs', m))
        /\ Open(execs', m) <= Cardinality(WaitingAt(execs, m) \ {i})
        /\ Open(execs', m) \in Nat
    BY <2>1, FS_Subset, FS_CardinalityType DEF Open
  <2> QED BY <1>1, <2>1, <2>2
<1>3. Given(events, m) \in Nat /\ Posed(events, m) \in Nat
  BY CountNext, {} \in SUBSET Nodes, "node_failed" \in EventTypes DEF Typed, TypeOK, RowsOK, EventTypes
<1>4. Given(events, m) + Open(execs, m) <= Posed(events, m)
  BY DEF Balanced
<1> QED BY <1>1, <1>2, <1>3, <1>4

\* A question makes one row wait.
LEMMA QuestionBalanced ==
    ASSUME Typed, Balanced, NEW n \in Nodes, NEW i,
           \A m \in Nodes : WaitingAt(execs', m) \subseteq
                              IF m = n THEN WaitingAt(execs, m) \cup {i} ELSE WaitingAt(execs, m),
           \A m \in Nodes : /\ Given(events', m) = Given(events, m)
                            /\ Posed(events', m) = IF m = n THEN Posed(events, m) + 1
                                                  ELSE Posed(events, m)
    PROVE  Balanced'
<1> SUFFICES ASSUME NEW m \in Nodes
             PROVE  Given(events', m) + Open(execs', m) <= Posed(events', m)
  BY DEF Balanced
<1>1. IsFiniteSet(WaitingAt(execs, m)) /\ Open(execs, m) \in Nat
  BY OpenType DEF Typed, TypeOK, RowsOK
<1>2. /\ Open(execs', m) \in Nat
      /\ Open(execs', m) <= IF m = n THEN Open(execs, m) + 1 ELSE Open(execs, m)
  <2>1. /\ IsFiniteSet(WaitingAt(execs, m) \cup {i})
        /\ Cardinality(WaitingAt(execs, m) \cup {i}) =
             IF i \in WaitingAt(execs, m) THEN Open(execs, m) ELSE Open(execs, m) + 1
    BY <1>1, FS_AddElement DEF Open
  <2>2. CASE m = n
    <3>1. /\ Open(execs', m) <= Cardinality(WaitingAt(execs, m) \cup {i})
          /\ Open(execs', m) \in Nat
      BY <2>1, <2>2, FS_Subset, FS_CardinalityType DEF Open
    <3> QED BY <1>1, <2>1, <2>2, <3>1
  <2>3. CASE m # n
    BY <1>1, <2>3, FS_Subset, FS_CardinalityType DEF Open
  <2> QED BY <2>2, <2>3
<1>3. Given(events, m) \in Nat /\ Posed(events, m) \in Nat
  BY CountNext, {} \in SUBSET Nodes, "node_failed" \in EventTypes DEF Typed, TypeOK, RowsOK, EventTypes
<1>4. Given(events, m) + Open(execs, m) <= Posed(events, m)
  BY DEF Balanced
<1> QED BY <1>1, <1>2, <1>3, <1>4

\* One row is rewritten, and keeps its node.
LEMMA EditWaiting ==
    ASSUME NEW i \in DOMAIN execs, NEW row, execs' = [execs EXCEPT ![i] = row],
           row.node = execs[i].node
    PROVE  \A m : WaitingAt(execs', m) \subseteq
                    IF row.status # "waiting" THEN WaitingAt(execs, m) \ {i}
                    ELSE IF m = row.node THEN WaitingAt(execs, m) \cup {i} ELSE WaitingAt(execs, m)
BY DEF WaitingAt

\* One event, or two, that are neither.
LEMMA QuietEvents ==
    ASSUME Typed, NEW t1 \in EventTypes \ {"task_resumed", "node_waiting"}, NEW S1 \in SUBSET Nodes,
           NEW t2 \in EventTypes \ {"task_resumed", "node_waiting"}, NEW S2 \in SUBSET Nodes,
           \/ UNCHANGED events
           \/ events' = Append(events, Event(t1, S1))
           \/ events' = events \o <<Event(t1, S1), Event(t2, S2)>>
    PROVE  \A n \in Nodes : Given(events', n) = Given(events, n) /\ Posed(events', n) = Posed(events, n)
<1> SUFFICES ASSUME NEW n \in Nodes
             PROVE  Given(events', n) = Given(events, n) /\ Posed(events', n) = Posed(events, n)
  OBVIOUS
<1>1. events \in Seq(EventRow)
  BY DEF Typed, TypeOK, RowsOK
<1>2. t1 \in EventTypes /\ t1 # "task_resumed" /\ t1 # "node_waiting"
  OBVIOUS
<1>3. CASE UNCHANGED events
  BY <1>3
<1>4. CASE events' = Append(events, Event(t1, S1))
  BY <1>1, <1>2, <1>4, CountNext
<1>5. CASE events' = events \o <<Event(t1, S1), Event(t2, S2)>>
  BY <1>1, <1>2, <1>5, CountTwo
<1> QED BY <1>3, <1>4, <1>5

LEMMA SameRowsBalanced ==
    ASSUME Typed, Balanced, NEW r \in Requests,
           \/ Call(r) \/ FindWaiting(r) \/ LoadInput(r) \/ ReadExecutions(r) \/ LoadOutputs(r)
           \/ ResolveInputs(r) \/ LookAgain(r) \/ FinishRead(r) \/ FinishTask(r) \/ FailRead(r)
           \/ FailTask(r) \/ MergeDraft(r) \/ FindCurrent(r) \/ ClearRead(r) \/ ArchiveRead(r) \/ ArchiveTask(r)
    PROVE  Balanced'
<1>1. UNCHANGED execs
  BY DEF Call, CreateTask, ResumeTask, RerunNode, SaveDraft, DeleteTask, FindWaiting, LoadInput,
         ReadExecutions, LoadOutputs, ResolveInputs, LookAgain, FinishRead, FinishTask, FailRead,
         FailTask, MergeDraft, FindCurrent, ClearRead, ArchiveRead, ArchiveTask, ReadView, db
<1>2. \/ UNCHANGED events
      \/ events' = events \o <<Event("task_created", {}), Event("task_started", {})>>
      \/ events' = Append(events, Event("task_succeeded", {}))
      \/ events' = Append(events, Event("task_failed", {}))
      \/ events' = Append(events, Event("task_archived", {}))
  BY DEF Call, CreateTask, ResumeTask, RerunNode, SaveDraft, DeleteTask, FindWaiting, LoadInput,
         ReadExecutions, LoadOutputs, ResolveInputs, LookAgain, FinishRead, FinishTask, FailRead,
         FailTask, MergeDraft, FindCurrent, ClearRead, ArchiveRead, ArchiveTask, ReadView, db
<1>3. \A n \in Nodes : Given(events', n) = Given(events, n) /\ Posed(events', n) = Posed(events, n)
  <2>1. {} \in SUBSET Nodes
    OBVIOUS
  <2>2. \A t \in {"task_created", "task_started", "task_succeeded", "task_failed", "task_archived"} :
          t \in EventTypes \ {"task_resumed", "node_waiting"}
    BY DEF EventTypes
  <2> QED BY <1>2, <2>1, <2>2, QuietEvents
<1> QED BY <1>1, <1>3, QuietBalanced

LEMMA AnswerStepBalanced ==
    ASSUME Typed, Balanced, NEW r \in Requests, NEW v \in Outputs, Answer(r, v)
    PROVE  Balanced'
<1>1. CASE UNCHANGED db
  BY <1>1, QuietBalanced DEF db
<1>2. CASE ~UNCHANGED db
  <2> DEFINE n == req[r].node
  <2>1. PICK i \in DOMAIN execs :
           /\ WaitingAt(execs, n) = {i}
           /\ execs' = [execs EXCEPT ![i].status = "succeeded", ![i].output = v]
           /\ events' = events \o <<Event("task_resumed", {n}), Event("node_succeeded", {n})>>
    BY <1>2 DEF Answer
  <2>2. n \in Nodes
    BY DEF Answer, Typed, Placed
  <2> DEFINE row == [execs[i] EXCEPT !.status = "succeeded", !.output = v]
  <2>3. execs[i] \in Execution
    BY ElementOfSeq, LenProperties DEF Typed, TypeOK, RowsOK
  <2>4. /\ execs' = [execs EXCEPT ![i] = row]
        /\ row.node = execs[i].node /\ row.status # "waiting"
    BY <2>1, <2>3 DEF Execution
  <2> HIDE DEF row
  <2>5. \A m \in Nodes : WaitingAt(execs', m) \subseteq WaitingAt(execs, m) \ {i}
    BY <2>4, EditWaiting
  <2>6. events' = events \o <<Event("task_resumed", {n}), Event("node_succeeded", {n})>>
    BY <2>1
  <2>7. ASSUME NEW m \in Nodes
        PROVE  /\ Given(events', m) = IF m = n THEN Given(events, m) + 1 ELSE Given(events, m)
               /\ Posed(events', m) = Posed(events, m)
    <3> HIDE DEF n
    <3>1. /\ "task_resumed" \in EventTypes
          /\ "node_succeeded" \in EventTypes \ {"task_resumed", "node_waiting"}
          /\ events \in Seq(EventRow)
      BY DEF EventTypes, Typed, TypeOK, RowsOK
    <3>2. /\ Given(events', m) = IF "task_resumed" = "task_resumed" /\ m = n
                                 THEN Given(events, m) + 1 ELSE Given(events, m)
          /\ Posed(events', m) = IF "task_resumed" = "node_waiting" /\ m = n
                                 THEN Posed(events, m) + 1 ELSE Posed(events, m)
      BY <2>2, <2>6, <3>1, CountNodeTwo
    <3> QED BY <3>1, <3>2
  <2>8. i \in WaitingAt(execs, n)
    BY <2>1
  <2> HIDE DEF n
  <2> QED BY <2>2, <2>5, <2>7, <2>8, AnswerBalanced
<1> QED BY <1>1, <1>2

LEMMA SubmitBalanced ==
    ASSUME Typed, Balanced, NEW r \in Requests, Submit(r), OwnRow(r),
           execs[mem[r].exec].status = "waiting"
    PROVE  Balanced'
<1> DEFINE n == req[r].node
           i == mem[r].exec
           row == [execs[i] EXCEPT !.status = "running", !.uses = Uses(n, mem[r].outs),
                                   !.fields = {}]
<1>1. n \in Nodes /\ i \in DOMAIN execs /\ execs[i].node = n
  BY DEF Submit, Typed, Placed, OwnRow
<1>2. i \in WaitingAt(execs, n)
  BY <1>1 DEF WaitingAt
<1>3. execs[i] \in Execution
  BY <1>1, ElementOfSeq, LenProperties DEF Typed, TypeOK, RowsOK
<1>4. execs' = [execs EXCEPT ![i] = row]
  BY DEF Submit
<1>5. row.node = execs[i].node /\ row.status # "waiting"
  BY <1>3 DEF Execution
<1>6. events' = Append(events, Event("task_resumed", {n}))
  BY DEF Submit
<1> HIDE DEF row, n, i
<1>7. \A m \in Nodes : WaitingAt(execs', m) \subseteq WaitingAt(execs, m) \ {i}
  BY <1>1, <1>4, <1>5, EditWaiting
<1>8. ASSUME NEW m \in Nodes
      PROVE  /\ Given(events', m) = IF m = n THEN Given(events, m) + 1 ELSE Given(events, m)
             /\ Posed(events', m) = Posed(events, m)
  <2>1. "task_resumed" \in EventTypes /\ events \in Seq(EventRow)
    BY DEF EventTypes, Typed, TypeOK, RowsOK
  <2>2. /\ Given(events', m) = IF "task_resumed" = "task_resumed" /\ m = n
                               THEN Given(events, m) + 1 ELSE Given(events, m)
        /\ Posed(events', m) = IF "task_resumed" = "node_waiting" /\ m = n
                               THEN Posed(events, m) + 1 ELSE Posed(events, m)
    BY <1>1, <1>6, <2>1, CountNode
  <2> QED BY <2>1, <2>2
<1> QED BY <1>1, <1>2, <1>7, <1>8, AnswerBalanced

LEMMA StartNodeBalanced ==
    ASSUME Typed, Balanced, NEW r \in Requests, StartNode(r)
    PROVE  Balanced'
<1> DEFINE n == mem[r].node
           row == [node |-> n, attempt |-> mem[r].attempt, status |-> "running",
                   form |-> FALSE, output |-> NoOutput,
                   uses |-> Uses(n, mem[r].outs), fields |-> {}]
<1>1. execs' = Append(execs, row) /\ row.status = "running"
  BY DEF StartNode
<1>2. n \in Nodes
  BY DEF StartNode, Typed, Placed
<1>3. events' = Append(events, Event("node_started", {n}))
  BY DEF StartNode
<1> HIDE DEF row
<1>4. \A m \in Nodes : WaitingAt(execs', m) \subseteq WaitingAt(execs, m)
  <2>1. /\ DOMAIN execs' = DOMAIN execs \cup {Len(execs) + 1}
        /\ execs'[Len(execs) + 1] = row
        /\ \A j \in DOMAIN execs : execs'[j] = execs[j]
    BY <1>1, LenProperties, AppendProperties DEF Typed, TypeOK, RowsOK
  <2> QED BY <1>1, <2>1 DEF WaitingAt
<1> HIDE DEF n
<1>5. "node_started" \in EventTypes \ {"task_resumed", "node_waiting"} /\ {n} \in SUBSET Nodes
  BY <1>2 DEF EventTypes
<1> QED BY <1>3, <1>4, <1>5, QuietEvents, QuietBalanced

LEMMA MarkWaitingBalanced ==
    ASSUME Typed, Balanced, NEW r \in Requests, MarkWaiting(r), OwnRow(r)
    PROVE  Balanced'
<1> DEFINE n == mem[r].node
           i == mem[r].exec
           row == [execs[i] EXCEPT !.status = "waiting", !.form = (pc[r] = "ask")]
           e1 == Event("node_waiting", {n})
           e2 == Event("human_input_requested", {n})
           e3 == Event("task_waiting", {n})
<1>1. n \in Nodes /\ i \in DOMAIN execs /\ execs[i].node = n
  BY DEF MarkWaiting, Typed, Placed, OwnRow
<1>2. execs[i] \in Execution
  BY <1>1, ElementOfSeq, LenProperties DEF Typed, TypeOK, RowsOK
<1>3. execs' = [execs EXCEPT ![i] = row]
  BY DEF MarkWaiting
<1>4. row.node = n /\ row.status = "waiting"
  BY <1>1, <1>2 DEF Execution
<1>5. events' = events \o <<e1, e2, e3>>
  BY DEF MarkWaiting
<1> HIDE DEF row, n, i
<1>6. \A m \in Nodes : WaitingAt(execs', m) \subseteq
                         IF m = n THEN WaitingAt(execs, m) \cup {i} ELSE WaitingAt(execs, m)
  BY <1>1, <1>3, <1>4, EditWaiting
<1>7. ASSUME NEW m \in Nodes
      PROVE  /\ Given(events', m) = Given(events, m)
             /\ Posed(events', m) = IF m = n THEN Posed(events, m) + 1 ELSE Posed(events, m)
  <2> DEFINE fs == events \o <<e1, e2>>
  <2>1. /\ "node_waiting" \in EventTypes
        /\ "human_input_requested" \in EventTypes \ {"task_resumed", "node_waiting"}
        /\ "task_waiting" \in EventTypes
        /\ events \in Seq(EventRow)
    BY DEF EventTypes, Typed, TypeOK, RowsOK
  <2>2. /\ fs \in Seq(EventRow)
        /\ Given(fs, m) = IF "node_waiting" = "task_resumed" /\ m = n
                          THEN Given(events, m) + 1 ELSE Given(events, m)
        /\ Posed(fs, m) = IF "node_waiting" = "node_waiting" /\ m = n
                          THEN Posed(events, m) + 1 ELSE Posed(events, m)
    BY <1>1, <2>1, CountNodeTwo
  <2>3. events' = Append(fs, e3)
    BY <1>5
  <2> HIDE DEF fs
  <2>4. /\ Given(Append(fs, e3), m) = IF "task_waiting" = "task_resumed" /\ m = n
                                      THEN Given(fs, m) + 1 ELSE Given(fs, m)
        /\ Posed(Append(fs, e3), m) = IF "task_waiting" = "node_waiting" /\ m = n
                                      THEN Posed(fs, m) + 1 ELSE Posed(fs, m)
    BY <1>1, <2>1, <2>2, CountNode
  <2> QED BY <2>1, <2>2, <2>3, <2>4
<1> QED BY <1>1, <1>6, <1>7, QuestionBalanced

LEMMA MarkEndBalanced ==
    ASSUME Typed, Balanced, NEW r \in Requests, OwnRow(r),
           MarkFailed(r) \/ \E v \in Outputs : MarkSucceeded(r, v)
    PROVE  Balanced'
<1> DEFINE n == mem[r].node
           i == mem[r].exec
<1>1. n \in Nodes /\ i \in DOMAIN execs /\ execs[i].node = n
  BY DEF MarkFailed, MarkSucceeded, Typed, Placed, OwnRow
<1>2. execs[i] \in Execution
  BY <1>1, ElementOfSeq, LenProperties DEF Typed, TypeOK, RowsOK
<1>3. \E row : /\ execs' = [execs EXCEPT ![i] = row]
               /\ row.node = n /\ row.status # "waiting"
  <2>1. CASE MarkFailed(r)
    <3> DEFINE row == [execs[i] EXCEPT !.status = "failed"]
    <3>1. execs' = [execs EXCEPT ![i] = row]
      BY <2>1 DEF MarkFailed
    <3>2. row.node = n /\ row.status = "failed"
      BY <1>1, <1>2 DEF Execution
    <3> HIDE DEF row
    <3> QED BY <3>1, <3>2
  <2>2. ASSUME NEW v \in Outputs, MarkSucceeded(r, v)
        PROVE  \E row : /\ execs' = [execs EXCEPT ![i] = row]
                        /\ row.node = n /\ row.status # "waiting"
    <3> DEFINE row == [execs[i] EXCEPT !.status = "succeeded", !.output = v, !.form = FALSE]
    <3>1. execs' = [execs EXCEPT ![i] = row]
      BY <2>2 DEF MarkSucceeded
    <3>2. row.node = n /\ row.status = "succeeded"
      BY <1>1, <1>2 DEF Execution
    <3> HIDE DEF row
    <3> QED BY <3>1, <3>2
  <2> QED BY <2>1, <2>2
<1>4. \/ events' = events \o <<Event("node_failed", {n}), Event("task_failed", {n})>>
      \/ events' = Append(events, Event("node_succeeded", {n}))
  BY DEF MarkFailed, MarkSucceeded
<1> HIDE DEF n, i
<1>5. \A m \in Nodes : WaitingAt(execs', m) \subseteq WaitingAt(execs, m)
  BY <1>1, <1>3, EditWaiting
<1>6. /\ "node_failed" \in EventTypes \ {"task_resumed", "node_waiting"}
      /\ "task_failed" \in EventTypes \ {"task_resumed", "node_waiting"}
      /\ "node_succeeded" \in EventTypes \ {"task_resumed", "node_waiting"}
      /\ {n} \in SUBSET Nodes
  BY <1>1 DEF EventTypes
<1>7. \A m \in Nodes : Given(events', m) = Given(events, m) /\ Posed(events', m) = Posed(events, m)
  BY <1>4, <1>6, QuietEvents
<1> QED BY <1>5, <1>7, QuietBalanced

LEMMA CommitDraftBalanced ==
    ASSUME Typed, Balanced, NEW r \in Requests, CommitDraft(r)
    PROVE  Balanced'
<1> DEFINE n == req[r].node
<1>1. CASE UNCHANGED db
  BY <1>1, QuietBalanced DEF db
<1>2. CASE ~UNCHANGED db
  <2>1. PICK i \in DOMAIN execs :
           /\ WaitingAt(execs, n) = {i}
           /\ execs' = [execs EXCEPT ![i].fields = mem[r].fields]
           /\ events' = Append(events, Event("node_draft_saved", {n}))
    BY <1>2 DEF CommitDraft
  <2>2. n \in Nodes
    BY DEF CommitDraft, Typed, Placed
  <2>3. execs[i] \in Execution
    BY ElementOfSeq, LenProperties DEF Typed, TypeOK, RowsOK
  <2>4. /\ DOMAIN execs' = DOMAIN execs
        /\ \A j \in DOMAIN execs : execs'[j].node = execs[j].node /\ execs'[j].status = execs[j].status
    BY <2>1, <2>3 DEF Execution
  <2>5. \A m \in Nodes : WaitingAt(execs', m) \subseteq WaitingAt(execs, m)
    BY <2>4 DEF WaitingAt
  <2>6. events' = Append(events, Event("node_draft_saved", {n}))
    BY <2>1
  <2> HIDE DEF n
  <2>7. "node_draft_saved" \in EventTypes \ {"task_resumed", "node_waiting"} /\ {n} \in SUBSET Nodes
    BY <2>2 DEF EventTypes
  <2> QED BY <2>5, <2>6, <2>7, QuietEvents, QuietBalanced
<1> QED BY <1>1, <1>2

LEMMA ClearBalanced ==
    ASSUME Typed, Balanced, NEW r \in Requests, ClearDownstream(r)
    PROVE  Balanced'
<1> DEFINE n == req[r].node
           S == Affected(n)
<1>1. n \in Nodes /\ S \in SUBSET Nodes
  BY DEF ClearDownstream, Typed, Placed, Affected, Downstream
<1>2. \A i \in DOMAIN execs : execs[i] \in Execution
  BY ElementOfSeq, LenProperties DEF Typed, TypeOK, RowsOK
<1>3. /\ DOMAIN execs' = DOMAIN execs
      /\ \A j \in DOMAIN execs : /\ execs'[j].node = execs[j].node
                                 /\ execs'[j].status \in {execs[j].status, "superseded"}
  BY <1>2 DEF ClearDownstream, Execution
<1>4. \A m \in Nodes : WaitingAt(execs', m) \subseteq WaitingAt(execs, m)
  BY <1>3 DEF WaitingAt
<1>5. events' = events \o <<Event("node_rerun_started", {n}), Event("downstream_cleared", S)>>
  BY DEF ClearDownstream
<1> HIDE DEF n, S
<1>6. /\ "node_rerun_started" \in EventTypes \ {"task_resumed", "node_waiting"}
      /\ "downstream_cleared" \in EventTypes \ {"task_resumed", "node_waiting"}
      /\ {n} \in SUBSET Nodes
  BY <1>1 DEF EventTypes
<1> QED BY <1>1, <1>4, <1>5, <1>6, QuietEvents, QuietBalanced

\* A form is taken up by no more than one request at a time.
LEMMA BalancedStep ==
    ASSUME Typed, Balanced, NEW r \in Requests, Call(r) \/ Handle(r), OwnRow(r),
           pc[r] = "submit" => execs[mem[r].exec].status = "waiting"
    PROVE  Balanced'
<1>1. CASE Submit(r)
  <2>1. pc[r] = "submit"
    BY <1>1 DEF Submit
  <2> QED BY <1>1, <2>1, SubmitBalanced
<1>2. CASE ~Submit(r)
  BY <1>2, SameRowsBalanced, AnswerStepBalanced, StartNodeBalanced, MarkWaitingBalanced,
     MarkEndBalanced, CommitDraftBalanced, ClearBalanced, Zenon DEF Handle
<1> QED BY <1>1, <1>2

\* Rows are never taken away, and keep their node.
RowsStay == \A i \in DOMAIN execs : i \in DOMAIN execs' /\ execs'[i].node = execs[i].node

LEMMA EditStays ==
    ASSUME NEW i, NEW row, execs' = [execs EXCEPT ![i] = row],
           i \in DOMAIN execs => row.node = execs[i].node
    PROVE  RowsStay
BY DEF RowsStay

LEMMA StepRowsStay ==
    ASSUME Typed, NEW r \in Requests, Call(r) \/ Handle(r)
    PROVE  RowsStay
<1>1. \A i \in DOMAIN execs : execs[i] \in Execution
  BY ElementOfSeq, LenProperties DEF Typed, TypeOK, RowsOK
<1>2. CASE UNCHANGED execs
  BY <1>2 DEF RowsStay
<1>3. CASE StartNode(r)
  <2>1. PICK row : execs' = Append(execs, row)
    BY <1>3 DEF StartNode
  <2> QED BY <2>1, LenProperties, AppendProperties DEF RowsStay, Typed, TypeOK, RowsOK
<1>4. CASE ClearDownstream(r)
  BY <1>1, <1>4 DEF ClearDownstream, RowsStay, Execution
<1>5. CASE /\ MarkWaiting(r) \/ MarkFailed(r) \/ Submit(r) \/ \E v \in Outputs : MarkSucceeded(r, v)
           /\ ~UNCHANGED execs
  <2> DEFINE i == mem[r].exec
  <2>1. \E row : execs' = [execs EXCEPT ![i] = row] /\ (i \in DOMAIN execs => row.node = execs[i].node)
    <3>1. CASE MarkWaiting(r)
      <4> DEFINE row == [execs[i] EXCEPT !.status = "waiting", !.form = (pc[r] = "ask")]
      <4>1. execs' = [execs EXCEPT ![i] = row] /\ (i \in DOMAIN execs => row.node = execs[i].node)
        BY <1>1, <3>1 DEF MarkWaiting, Execution
      <4> HIDE DEF row
      <4> QED BY <4>1
    <3>2. CASE MarkFailed(r)
      <4> DEFINE row == [execs[i] EXCEPT !.status = "failed"]
      <4>1. execs' = [execs EXCEPT ![i] = row] /\ (i \in DOMAIN execs => row.node = execs[i].node)
        BY <1>1, <3>2 DEF MarkFailed, Execution
      <4> HIDE DEF row
      <4> QED BY <4>1
    <3>3. ASSUME NEW v \in Outputs, MarkSucceeded(r, v)
          PROVE  \E row : execs' = [execs EXCEPT ![i] = row]
                          /\ (i \in DOMAIN execs => row.node = execs[i].node)
      <4> DEFINE row == [execs[i] EXCEPT !.status = "succeeded", !.output = v, !.form = FALSE]
      <4>1. execs' = [execs EXCEPT ![i] = row] /\ (i \in DOMAIN execs => row.node = execs[i].node)
        BY <1>1, <3>3 DEF MarkSucceeded, Execution
      <4> HIDE DEF row
      <4> QED BY <4>1
    <3>4. CASE Submit(r)
      <4> DEFINE used == Uses(req[r].node, mem[r].outs)
                 e == execs[i]
                 row == [e EXCEPT !.status = "running", !.uses = used, !.fields = {}]
      <4>1. execs' = [execs EXCEPT ![i].status = "running", ![i].uses = used, ![i].fields = {}]
        BY <1>5, <3>4 DEF Submit
      <4>2. i \in DOMAIN execs => e \in Execution
        BY <1>1
      <4> HIDE DEF used
      <4>3. execs' = [execs EXCEPT ![i] = row]
        BY <4>1
      <4>4. i \in DOMAIN execs => row.node = e.node
        <5> HIDE DEF e
        <5> QED BY <4>2 DEF Execution
      <4> HIDE DEF row
      <4> QED BY <4>3, <4>4
    <3> QED BY <1>5, <3>1, <3>2, <3>3, <3>4
  <2> QED BY <2>1, EditStays
<1>6. CASE (CommitDraft(r) \/ \E v \in Outputs : Answer(r, v)) /\ ~UNCHANGED execs
  <2>1. CASE CommitDraft(r)
    <3>1. PICK i \in DOMAIN execs : execs' = [execs EXCEPT ![i].fields = mem[r].fields]
      BY <1>6, <2>1 DEF CommitDraft, db
    <3> DEFINE row == [execs[i] EXCEPT !.fields = mem[r].fields]
    <3>2. execs' = [execs EXCEPT ![i] = row] /\ row.node = execs[i].node
      BY <1>1, <3>1 DEF Execution
    <3> HIDE DEF row
    <3> QED BY <3>2, EditStays
  <2>2. ASSUME NEW v \in Outputs, Answer(r, v) PROVE RowsStay
    <3>1. PICK i \in DOMAIN execs :
             execs' = [execs EXCEPT ![i].status = "succeeded", ![i].output = v]
      BY <1>6, <2>2 DEF Answer, db
    <3> DEFINE row == [execs[i] EXCEPT !.status = "succeeded", !.output = v]
    <3>2. execs' = [execs EXCEPT ![i] = row] /\ row.node = execs[i].node
      BY <1>1, <3>1 DEF Execution
    <3> HIDE DEF row
    <3> QED BY <3>2, EditStays
  <2> QED BY <1>6, <2>1, <2>2
<1>7. CASE ~(\/ StartNode(r) \/ ClearDownstream(r) \/ Submit(r) \/ MarkWaiting(r) \/ MarkFailed(r)
             \/ CommitDraft(r) \/ \E v \in Outputs : Answer(r, v) \/ MarkSucceeded(r, v))
  BY <1>2, <1>7 DEF Call, Handle, CreateTask, ResumeTask, RerunNode, SaveDraft, DeleteTask,
     FindWaiting, LoadInput, ReadExecutions, LoadOutputs, ResolveInputs, LookAgain, FinishRead,
     FinishTask, FailRead, FailTask, MergeDraft, FindCurrent, ClearRead, ArchiveRead, ArchiveTask, ReadView, db
<1> QED BY <1>2, <1>3, <1>4, <1>5, <1>6, <1>7

\* A request that has not moved keeps its row.
LEMMA OwnRowKept ==
    ASSUME NEW q \in Requests, OwnRow(q), RowsStay,
           pc'[q] = pc[q], mem'[q].exec = mem[q].exec, mem'[q].node = mem[q].node,
           req'[q].node = req[q].node
    PROVE  OwnRow(q)'
BY DEF OwnRow, RowsStay

\* A step is one request's.
LEMMA OthersStay ==
    ASSUME Typed, NEW r \in Requests, Call(r) \/ Handle(r)
    PROVE  \A q \in Requests \ {r} : pc'[q] = pc[q] /\ mem'[q] = mem[q] /\ req'[q] = req[q]
<1> USE DEF Return, Raise, Goto, Typed, TypeOK, RequestsOK
<1>1. CASE Call(r)
  BY <1>1 DEF Call, CreateTask, ResumeTask, RerunNode, SaveDraft, DeleteTask, Arrive
<1>2. CASE FindWaiting(r) \/ LoadInput(r) \/ Submit(r) \/ \E v \in Outputs : Answer(r, v)
  BY <1>2 DEF FindWaiting, Answer, LoadInput, Submit
<1>3. CASE ReadExecutions(r) \/ LoadOutputs(r) \/ ResolveInputs(r) \/ StartNode(r)
  BY <1>3 DEF ReadExecutions, LoadOutputs, Idle, ResolveInputs, StartNode
<1>4. CASE MarkWaiting(r) \/ (\E v \in Outputs : MarkSucceeded(r, v)) \/ MarkFailed(r) \/ LookAgain(r)
  BY <1>4 DEF MarkWaiting, MarkSucceeded, MarkFailed, AfterMark, LookAgain
<1>5. CASE FinishRead(r) \/ FinishTask(r) \/ FailRead(r) \/ FailTask(r) \/ ArchiveRead(r)
           \/ ArchiveTask(r)
  BY <1>5 DEF FinishRead, FinishTask, FailRead, FailTask, ArchiveRead, ArchiveTask, ReadView
<1>6. CASE MergeDraft(r) \/ CommitDraft(r) \/ FindCurrent(r) \/ ClearRead(r) \/ ClearDownstream(r)
  BY <1>6 DEF MergeDraft, CommitDraft, FindCurrent, ClearRead, ClearDownstream, ReadView
<1> QED BY <1>1, <1>2, <1>3, <1>4, <1>5, <1>6 DEF Handle

LEMMA OwnRowStep ==
    ASSUME Typed, NEW r \in Requests, OwnRow(r), Call(r) \/ Handle(r)
    PROVE  OwnRow(r)'
<1>1. RowsStay
  BY StepRowsStay
<1>2. Typed /\ mem \in [Requests -> Locals]
  BY DEF Typed, TypeOK, RequestsOK
<1>3. ASSUME Return(r) \/ Raise(r) PROVE OwnRow(r)'
  <2>1. pc'[r] \in {"done", "fail"}
    BY <1>3, Went DEF Return, Raise
  <2> QED BY <2>1 DEF OwnRow
<1>4. CASE FindWaiting(r) /\ ~Return(r)
  <2> DEFINE found == WaitingAt(execs, req[r].node)
  <2>0. UNCHANGED <<execs, req>>
    BY <1>4 DEF FindWaiting, Goto, Return, db
  <2>1. found # {} /\ mem'[r].exec = Latest(found) /\ pc'[r] \in {"load input", "answer"}
    BY <1>2, <1>4, Went DEF FindWaiting, Locals
  <2>2. Len(execs) \in Nat /\ DOMAIN execs = 1..Len(execs)
    BY LenProperties DEF Typed, TypeOK, RowsOK
  <2>3. found \in SUBSET (1..Len(execs))
    BY <2>2 DEF WaitingAt
  <2>4. Latest(found) \in found
    <3> HIDE DEF found
    <3> QED BY <2>1, <2>2, <2>3, LatestFound
  <2>5. Latest(found) \in DOMAIN execs /\ execs[Latest(found)].node = req[r].node
    BY <2>4 DEF WaitingAt
  <2> QED BY <2>0, <2>1, <2>5 DEF OwnRow
<1>5. CASE LoadInput(r) /\ ~Return(r)
  <2>1. /\ pc'[r] = "submit" /\ mem'[r].exec = mem[r].exec /\ pc[r] = "load input"
        /\ UNCHANGED <<execs, req>>
    BY <1>2, <1>5, Went DEF LoadInput, Goto, Locals, db
  <2> QED BY <2>1 DEF OwnRow
<1>6. CASE Submit(r)
  <2>1. /\ pc'[r] = "run input" /\ mem'[r].exec = mem[r].exec /\ mem'[r].node = req[r].node
        /\ pc[r] = "submit"
    BY <1>2, <1>6, Went DEF Submit, NoMem
  <2> QED BY <1>1, <2>1 DEF OwnRow, RowsStay
<1>7. CASE StartNode(r)
  <2>1. /\ execs' = Append(execs, [node |-> mem[r].node, attempt |-> mem[r].attempt,
                                   status |-> "running", form |-> FALSE, output |-> NoOutput,
                                   uses |-> Uses(mem[r].node, mem[r].outs), fields |-> {}])
        /\ mem'[r].exec = Len(execs) + 1 /\ mem'[r].node = mem[r].node
    BY <1>2, <1>7 DEF StartNode, Locals
  <2>2. Len(execs) + 1 \in DOMAIN execs' /\ execs'[Len(execs) + 1].node = mem[r].node
    BY <2>1, LenProperties, AppendProperties DEF Typed, TypeOK, RowsOK
  <2>3. pc'[r] \in {"ask", "run"}
    BY <1>7, Went DEF StartNode
  <2> QED BY <2>1, <2>2, <2>3 DEF OwnRow
<1>8. CASE MarkWaiting(r) \/ MarkFailed(r) \/ \E v \in Outputs : MarkSucceeded(r, v)
  <2>1. pc'[r] \in {"look", "done", "continue"}
    BY <1>8, Went DEF MarkWaiting, MarkFailed, MarkSucceeded, AfterMark
  <2> QED BY <2>1 DEF OwnRow
<1>9. CASE Call(r)
  <2>1. pc'[r] \in {"continue", "find waiting", "find draft", "find current", "archive"}
    BY <1>9 DEF Call, CreateTask, ResumeTask, RerunNode, SaveDraft, DeleteTask, Arrive, Typed,
                TypeOK, RequestsOK
  <2> QED BY <2>1 DEF OwnRow
<1>10. CASE (ReadExecutions(r) \/ LoadOutputs(r) \/ ResolveInputs(r) \/ LookAgain(r))
            /\ ~Return(r) /\ ~Raise(r)
  <2>1. pc'[r] \in {"load outputs", "resolve", "finish", "insert", "continue"}
    BY <1>10, Went DEF ReadExecutions, LoadOutputs, Idle, ResolveInputs, LookAgain
  <2> QED BY <2>1 DEF OwnRow
<1>11. CASE FinishRead(r) \/ FailRead(r) \/ FindCurrent(r) \/ ClearRead(r) \/ ClearDownstream(r) \/ MergeDraft(r)
            \/ ArchiveRead(r) \/ FinishTask(r) \/ FailTask(r) \/ ArchiveTask(r) \/ CommitDraft(r)
  <2>1. pc'[r] \in {"finish commit", "fail commit", "clear", "clear commit", "continue", "save draft",
                    "archive commit", "done"}
    BY <1>11, Went DEF FinishRead, FailRead, FindCurrent, ClearRead, ClearDownstream, MergeDraft, ArchiveRead,
                       FinishTask, FailTask, ArchiveTask, CommitDraft, ReadView, Return
  <2> QED BY <2>1 DEF OwnRow
<1>12. CASE (\E v \in Outputs : Answer(r, v)) /\ ~Return(r)
  <2>1. pc'[r] = "continue"
    BY <1>12, Went DEF Answer
  <2> QED BY <2>1 DEF OwnRow
<1> QED BY <1>3, <1>4, <1>5, <1>6, <1>7, <1>8, <1>9, <1>10, <1>11, <1>12 DEF Handle

\* Without forms no row has one, and no request fills one in.
LEMMA NoFormsStep ==
    ASSUME FormNodes = {}, Typed, NoForms, NEW r \in Requests, Call(r) \/ Handle(r)
    PROVE  NoForms'
<1>1. /\ \A i \in DOMAIN execs : execs[i] \in Execution /\ ~execs[i].form
      /\ pc[r] \notin FormPlaces
  BY ElementOfSeq, LenProperties DEF Typed, TypeOK, RowsOK, NoForms
<1>2. pc'[r] \notin FormPlaces
  <2>1. CASE Call(r)
    <3>1. pc'[r] \in {"continue", "find waiting", "find draft", "find current", "archive"}
      BY <2>1 DEF Call, CreateTask, ResumeTask, RerunNode, SaveDraft, DeleteTask, Arrive, Typed,
                  TypeOK, RequestsOK
    <3> QED BY <3>1 DEF FormPlaces
  <2>2. CASE FindWaiting(r)
    <3> DEFINE found == WaitingAt(execs, req[r].node)
    <3>1. CASE found = {}
      BY <2>2, <3>1, Went DEF FindWaiting, Return, FormPlaces
    <3>2. CASE found # {}
      <4>1. Len(execs) \in Nat /\ DOMAIN execs = 1..Len(execs)
        BY LenProperties DEF Typed, TypeOK, RowsOK
      <4>2. found \in SUBSET (1..Len(execs))
        BY <4>1 DEF WaitingAt
      <4>3. Goto(r, IF execs[Latest(found)].form THEN "load input" ELSE "answer")
        BY <2>2, <3>2 DEF FindWaiting
      <4> HIDE DEF found
      <4>4. Latest(found) \in DOMAIN execs
        BY <3>2, <4>1, <4>2, LatestFound
      <4>5. Goto(r, "answer")
        BY <1>1, <4>3, <4>4
      <4> QED BY <4>5, Went DEF FormPlaces
    <3> QED BY <3>1, <3>2
  <2>3. CASE StartNode(r)
    <3>1. Goto(r, "run")
      BY <2>3 DEF StartNode
    <3> QED BY <3>1, Went DEF FormPlaces
  <2>4. CASE \/ LoadInput(r) \/ Submit(r)
    BY <1>1, <2>4 DEF LoadInput, Submit, FormPlaces
  <2>5. CASE ~(\/ Call(r) \/ FindWaiting(r) \/ StartNode(r) \/ LoadInput(r) \/ Submit(r))
    <3> DEFINE Landings == {"done", "fail", "continue", "load outputs", "resolve", "insert", "look",
                            "finish", "finish commit", "fail commit", "save draft", "clear", "clear commit",
                            "archive commit"}
    <3>1. \E to \in Landings : Goto(r, to)
      <4> USE DEF Return, Raise
      <4>1. CASE ReadExecutions(r) \/ LoadOutputs(r) \/ ResolveInputs(r) \/ LookAgain(r)
        BY <4>1 DEF ReadExecutions, LoadOutputs, Idle, ResolveInputs, LookAgain
      <4>2. CASE MarkWaiting(r) \/ MarkFailed(r) \/ \E v \in Outputs : MarkSucceeded(r, v)
        BY <4>2 DEF MarkWaiting, MarkFailed, MarkSucceeded, AfterMark
      <4>3. CASE FinishRead(r) \/ FinishTask(r) \/ FailRead(r) \/ FailTask(r) \/ ArchiveRead(r)
                 \/ ArchiveTask(r)
        BY <4>3 DEF FinishRead, FinishTask, FailRead, FailTask, ArchiveRead, ArchiveTask, ReadView
      <4>4. CASE MergeDraft(r) \/ CommitDraft(r) \/ FindCurrent(r) \/ ClearRead(r) \/ ClearDownstream(r)
        BY <4>4 DEF MergeDraft, CommitDraft, FindCurrent, ClearRead, ClearDownstream, ReadView
      <4>5. CASE \E v \in Outputs : Answer(r, v)
        BY <4>5 DEF Answer
      <4> QED BY <2>5, <4>1, <4>2, <4>3, <4>4, <4>5 DEF Handle
    <3> QED BY <3>1, Went DEF FormPlaces
  <2> QED BY <2>1, <2>2, <2>3, <2>4, <2>5
<1>3. \A q \in Requests : pc'[q] \notin FormPlaces
  BY <1>2, OthersStay DEF NoForms
<1>4. \A i \in DOMAIN execs' : ~execs'[i].form
  <2>1. CASE StartNode(r)
    <3>1. PICK row : execs' = Append(execs, row) /\ ~row.form
      BY <2>1 DEF StartNode
    <3> QED BY <1>1, <3>1, LenProperties, AppendProperties DEF Typed, TypeOK, RowsOK
  <2>2. CASE ClearDownstream(r)
    BY <1>1, <2>2 DEF ClearDownstream, Execution
  <2>3. CASE MarkWaiting(r)
    <3> DEFINE i == mem[r].exec
               row == [execs[i] EXCEPT !.status = "waiting", !.form = (pc[r] = "ask")]
    <3>1. execs' = [execs EXCEPT ![i] = row]
      BY <2>3 DEF MarkWaiting
    <3>2. i \in DOMAIN execs => ~row.form
      BY <1>1 DEF FormPlaces, Execution
    <3> HIDE DEF row
    <3> QED BY <1>1, <3>1, <3>2
  <2>4. CASE MarkFailed(r)
    <3> DEFINE i == mem[r].exec
               row == [execs[i] EXCEPT !.status = "failed"]
    <3>1. execs' = [execs EXCEPT ![i] = row]
      BY <2>4 DEF MarkFailed
    <3>2. i \in DOMAIN execs => ~row.form
      BY <1>1 DEF Execution
    <3> HIDE DEF row
    <3> QED BY <1>1, <3>1, <3>2
  <2>5. ASSUME NEW v \in Outputs, MarkSucceeded(r, v) PROVE \A i \in DOMAIN execs' : ~execs'[i].form
    <3> DEFINE i == mem[r].exec
               row == [execs[i] EXCEPT !.status = "succeeded", !.output = v, !.form = FALSE]
    <3>1. execs' = [execs EXCEPT ![i] = row]
      BY <2>5 DEF MarkSucceeded
    <3>2. i \in DOMAIN execs => ~row.form
      BY <1>1 DEF Execution
    <3> HIDE DEF row
    <3> QED BY <1>1, <3>1, <3>2
  <2>6. ASSUME NEW v \in Outputs, Answer(r, v), ~UNCHANGED execs
        PROVE  \A i \in DOMAIN execs' : ~execs'[i].form
    <3>1. PICK i \in DOMAIN execs :
             execs' = [execs EXCEPT ![i].status = "succeeded", ![i].output = v]
      BY <2>6 DEF Answer, db
    <3> DEFINE row == [execs[i] EXCEPT !.status = "succeeded", !.output = v]
    <3>2. execs' = [execs EXCEPT ![i] = row] /\ ~row.form
      BY <1>1, <3>1 DEF Execution
    <3> HIDE DEF row
    <3> QED BY <1>1, <3>2
  <2>7. CASE CommitDraft(r) /\ ~UNCHANGED execs
    <3>1. PICK i \in DOMAIN execs : execs' = [execs EXCEPT ![i].fields = mem[r].fields]
      BY <2>7 DEF CommitDraft, db
    <3> DEFINE row == [execs[i] EXCEPT !.fields = mem[r].fields]
    <3>2. execs' = [execs EXCEPT ![i] = row] /\ ~row.form
      BY <1>1, <3>1 DEF Execution
    <3> HIDE DEF row
    <3> QED BY <1>1, <3>2
  <2>8. CASE Submit(r)
    BY <1>1, <2>8 DEF Submit, FormPlaces
  <2>9. CASE UNCHANGED execs
    BY <1>1, <2>9
  <2>10. CASE ~(\/ StartNode(r) \/ ClearDownstream(r) \/ Submit(r) \/ MarkWaiting(r) \/ MarkFailed(r)
                \/ CommitDraft(r) \/ \E v \in Outputs : Answer(r, v) \/ MarkSucceeded(r, v))
    BY <2>9, <2>10 DEF Call, Handle, CreateTask, ResumeTask, RerunNode, SaveDraft, DeleteTask,
       FindWaiting, LoadInput, ReadExecutions, LoadOutputs, ResolveInputs, LookAgain, FinishRead,
       FinishTask, FailRead, FailTask, MergeDraft, FindCurrent, ClearRead, ArchiveRead, ArchiveTask, ReadView, db
  <2> QED BY <2>1, <2>2, <2>3, <2>4, <2>5, <2>6, <2>7, <2>8, <2>9, <2>10
<1> QED BY <1>3, <1>4 DEF NoForms

----------------------------------------------------------------------------
(* Together.  What keeps two requests from taking up the same form is that    *)
(* there are none, or that the requests that drive a task come one at a time. *)

Answered ==
    /\ Typed /\ Balanced
    /\ \A r \in Requests : OwnRow(r)
    /\ FormNodes = {} => NoForms
    /\ Drivers \subseteq Exclusive => Driven

LEMMA AnsweredInit == Init => Answered
<1> SUFFICES ASSUME Init PROVE Answered
  OBVIOUS
<1>1. Typed /\ Driven
  BY TypedInit, DrivenInit
<1>2. (\A r \in Requests : OwnRow(r)) /\ NoForms
  BY DEF Init, OwnRow, NoForms, FormPlaces
<1>3. Balanced
  <2>1. \A n \in Nodes : WaitingAt(execs, n) = {} /\ events = <<>>
    BY DEF Init, WaitingAt
  <2>2. \A e : {k \in DOMAIN events : events[k] = e} = {}
    BY DEF Init
  <2>3. Cardinality({}) = 0
    BY FS_EmptySet
  <2>4. \A n \in Nodes : Open(execs, n) = 0 /\ Given(events, n) = 0 /\ Posed(events, n) = 0
    BY <2>1, <2>2, <2>3 DEF Open, Given, Posed, Times
  <2> QED BY <2>4 DEF Balanced
<1> QED BY <1>1, <1>2, <1>3 DEF Answered

LEMMA AnsweredStep ==
    ASSUME FormNodes = {} \/ Drivers \subseteq Exclusive, Answered, [Next \/ Crash]_vars
    PROVE  Answered'
<1>1. Typed' /\ (Drivers \subseteq Exclusive => Driven')
  BY TypedStep, DrivenStep DEF Answered
<1>2. ASSUME NEW r \in Requests, Call(r) \/ Handle(r) PROVE Answered'
  <2>1. pc[r] = "submit" => execs[mem[r].exec].status = "waiting"
    <3>1. CASE FormNodes = {}
      BY <3>1 DEF Answered, NoForms, FormPlaces
    <3>2. CASE Drivers \subseteq Exclusive
      BY <3>2 DEF Answered, Driven, Remembers, HasRow
    <3> QED BY <3>1, <3>2
  <2>2. Balanced'
    BY <1>2, <2>1, BalancedStep DEF Answered
  <2>3. FormNodes = {} => NoForms'
    BY <1>2, NoFormsStep DEF Answered
  <2>4. ASSUME NEW q \in Requests PROVE OwnRow(q)'
    <3>1. Typed /\ OwnRow(q)
      BY DEF Answered
    <3>2. CASE q = r
      BY <1>2, <3>1, <3>2, OwnRowStep
    <3>3. CASE q # r
      <4>1. pc'[q] = pc[q] /\ mem'[q] = mem[q] /\ req'[q] = req[q]
        BY <1>2, <3>1, <3>3, OthersStay
      <4> QED BY <1>2, <3>1, <4>1, StepRowsStay, OwnRowKept
    <3> QED BY <3>2, <3>3
  <2> QED BY <1>1, <2>2, <2>3, <2>4 DEF Answered
<1>3. CASE Crash
  <2>1. UNCHANGED <<execs, events, req>> /\ \A r \in Requests : pc'[r] \in {"new", "done"}
    BY <1>3 DEF Crash, InFlight
  <2>2. Balanced'
    BY <2>1, QuietBalanced DEF Answered
  <2>3. (\A r \in Requests : OwnRow(r)') /\ (NoForms => NoForms')
    BY <2>1 DEF OwnRow, NoForms, FormPlaces
  <2> QED BY <1>1, <2>2, <2>3 DEF Answered
<1>4. CASE UNCHANGED vars
  <2>1. Balanced'
    BY <1>4, QuietBalanced DEF vars, Answered
  <2>2. (\A r \in Requests : OwnRow(r)') /\ (NoForms => NoForms')
    BY <1>4 DEF vars, OwnRow, NoForms, Answered
  <2> QED BY <1>1, <2>1, <2>2 DEF Answered
<1> QED BY <1>2, <1>3, <1>4 DEF Next

\* A question is answered once: however requests overlap on a task without
\* forms, and with forms when the driving requests come one at a time, a node
\* is resumed at most as often as it asked, though the process may die.
THEOREM AnswersAlwaysMatch ==
    ASSUME FormNodes = {} \/ Drivers \subseteq Exclusive
    PROVE  CrashSpec => []AnswersMatchQuestions
<1>1. Init => Answered
  BY AnsweredInit
<1>2. Answered /\ [Next \/ Crash]_vars => Answered'
  BY AnsweredStep
<1>3. Answered => AnswersMatchQuestions
  <2> SUFFICES ASSUME Answered, NEW n \in Nodes PROVE Given(events, n) <= Posed(events, n)
    BY DEF AnswersMatchQuestions, Given, Posed, Times
  <2>1. Open(execs, n) \in Nat
    BY OpenType DEF Answered, Typed, TypeOK, RowsOK
  <2>2. Given(events, n) \in Nat /\ Posed(events, n) \in Nat
    BY CountNext, {} \in SUBSET Nodes, "node_failed" \in EventTypes DEF Answered, Typed, TypeOK,
       RowsOK, EventTypes
  <2>3. Given(events, n) + Open(execs, n) <= Posed(events, n)
    BY DEF Answered, Balanced
  <2> QED BY <2>1, <2>2, <2>3
<1> QED BY <1>1, <1>2, <1>3, PTL DEF CrashSpec

----------------------------------------------------------------------------
(* A task whose driving requests come one at a time implements TaskBoard, and *)
(* its events tell what the board shows, for every contract and any number of *)
(* requests, drafts, deletions and crashes.                                   *)

----------------------------------------------------------------------------
(* Beyond Driven: what a driving request has read is still so when it commits. *)

NoneWaits(es) == \A i \in DOMAIN es : es[i].status # "waiting"

Knows(r) ==
    /\ pc[r] \in {"find current", "clear", "clear commit"} => req[r].node \in Nodes
    /\ pc[r] \in {"clear", "clear commit"} => mem[r].doomed = CurrentRows(execs, Affected(req[r].node))
    /\ pc[r] = "load outputs" => ~AnyFailed(execs) /\ (~mem[r].waiting => NoneWaits(execs))
    /\ pc[r] \in {"finish", "finish commit"} => ~AnyFailed(execs) /\ NoneWaits(execs)

Shown == Driven /\ \A r \in Requests : Knows(r)

\* Rows that keep their nodes and statuses.
SameRows ==
    /\ DOMAIN execs' = DOMAIN execs
    /\ \A i \in DOMAIN execs : execs'[i].node = execs[i].node /\ execs'[i].status = execs[i].status

LEMMA SameLatest ==
    ASSUME SameRows, NEW sts
    PROVE  LatestByNode(execs', sts) = LatestByNode(execs, sts)
<1> DEFINE Rows(es) == [n \in Nodes |-> {i \in DOMAIN es : es[i].node = n /\ es[i].status \in sts}]
<1>1. \A n : {i \in DOMAIN execs' : execs'[i].node = n /\ execs'[i].status \in sts}
            = {i \in DOMAIN execs : execs[i].node = n /\ execs[i].status \in sts}
  BY DEF SameRows
<1>2. Rows(execs') = Rows(execs)
  BY <1>1
<1>3. \A es : LatestByNode(es, sts) = [n \in Nodes |-> Latest({0} \cup Rows(es)[n])]
  BY DEF LatestByNode
<1> HIDE DEF Rows
<1> QED BY <1>2, <1>3

LEMMA SameRead ==
    ASSUME SameRows
    PROVE  /\ \A S : CurrentRows(execs', S) = CurrentRows(execs, S)
           /\ AnyFailed(execs') <=> AnyFailed(execs)
           /\ NoneWaits(execs') <=> NoneWaits(execs)
<1>1. \A S : CurrentRows(execs', S) = CurrentRows(execs, S)
  BY SameLatest DEF CurrentRows
<1>2. (AnyFailed(execs') <=> AnyFailed(execs)) /\ (NoneWaits(execs') <=> NoneWaits(execs))
  BY DEF SameRows, AnyFailed, NoneWaits
<1> QED BY <1>1, <1>2

LEMMA KnowsStill ==
    ASSUME NEW r \in Requests, Knows(r), SameRows,
           pc'[r] = pc[r], mem'[r] = mem[r], req'[r] = req[r]
    PROVE  Knows(r)'
BY SameRead DEF Knows

LEMMA KnowsElsewhere ==
    ASSUME NEW r \in Requests, pc'[r] \notin {"find current", "clear", "clear commit", "load outputs", "finish", "finish commit"}
    PROVE  Knows(r)'
BY DEF Knows

LEMMA KnowsInit == Init => Shown
<1> SUFFICES ASSUME Init PROVE Shown
  OBVIOUS
<1>1. \A r \in Requests : Knows(r)
  BY DEF Init, Knows
<1> QED BY <1>1, DrivenInit DEF Shown

Aside(r) == MergeDraft(r) \/ CommitDraft(r) \/ ArchiveRead(r) \/ ArchiveTask(r)

\* A step of the driving code is taken by the one request that is in it.
LEMMA DriverSteps ==
    ASSUME Driven, NEW r \in Requests, Handle(r), ~Aside(r)
    PROVE  \A q \in Requests \ {r} : pc'[q] = pc[q] /\ pc[q] \notin DriverPlaces
<1>1. pc[r] \in DriverPlaces
  BY DriverPlacesAre
     DEF Aside, Handle, FindWaiting, Answer, LoadInput, Submit, ReadExecutions, LoadOutputs,
         ResolveInputs, StartNode, MarkWaiting, MarkSucceeded, MarkFailed, LookAgain, FinishRead,
         FinishTask, FailRead, FailTask, FindCurrent, ClearRead, ClearDownstream, ReadView
<1>2. \A q \in Requests \ {r} : pc'[q] = pc[q]
  BY AloneHandle DEF Driven
<1> QED BY <1>1, <1>2 DEF Driven, Alone

LEMMA AsideSteps ==
    ASSUME Driven, NEW r \in Requests, Aside(r)
    PROVE  /\ SameRows
           /\ pc'[r] \notin DriverPlaces
           /\ \A q \in Requests \ {r} : pc'[q] = pc[q] /\ mem'[q] = mem[q] /\ req'[q] = req[q]
<1>1. SameRows /\ pc'[r] \notin DriverPlaces
  BY OthersFine DEF Aside, SameRows
<1>2. \A q \in Requests \ {r} : pc'[q] = pc[q] /\ mem'[q] = mem[q] /\ req'[q] = req[q]
  BY DEF Aside, MergeDraft, CommitDraft, ArchiveRead, ArchiveTask, ReadView, Return, Goto,
         Driven, Typed, TypeOK, RequestsOK
<1> QED BY <1>1, <1>2

LEMMA HandleKnows ==
    ASSUME Shown, NEW r \in Requests, Handle(r)
    PROVE  \A q \in Requests : Knows(q)'
<1>1. CASE Aside(r)
  <2>1. Knows(r)'
    BY <1>1, AsideSteps, KnowsElsewhere, DriverPlacesAre DEF Shown
  <2>2. \A q \in Requests \ {r} : Knows(q)'
    BY <1>1, AsideSteps, KnowsStill DEF Shown
  <2> QED BY <2>1, <2>2
<1>2. CASE ~Aside(r)
  <2>0. Typed /\ mem \in [Requests -> Locals] /\ Knows(r) /\ UNCHANGED req
    BY HandleMoves DEF Shown, Driven, Typed, TypeOK, RequestsOK
  <2>1. \A q \in Requests \ {r} : Knows(q)'
    BY <1>2, DriverSteps, KnowsElsewhere, DriverPlacesAre DEF Shown
  <2>2. CASE ReadExecutions(r) /\ ~Return(r)
    <3>1. /\ ~AnyFailed(execs) /\ UNCHANGED execs /\ pc'[r] = "load outputs"
          /\ mem'[r].waiting = \E i \in DOMAIN execs : execs[i].status = "waiting"
      BY <2>0, <2>2, Went DEF ReadExecutions, Locals, db
    <3>2. ~mem'[r].waiting => NoneWaits(execs)
      BY <3>1, Zenon DEF NoneWaits
    <3> QED BY <2>1, <3>1, <3>2 DEF Knows
  <2>3. CASE LoadOutputs(r) /\ pc'[r] = "finish"
    <3>1. pc[r] = "load outputs" /\ ~mem[r].waiting /\ UNCHANGED execs
      <4>1. ~Return(r) /\ ~Raise(r) /\ ~Goto(r, "resolve")
        BY <2>0, <2>3, Went DEF Return, Raise
      <4> QED BY <2>3, <4>1 DEF LoadOutputs, Idle, db
    <3> QED BY <2>0, <2>1, <2>3, <3>1 DEF Knows
  <2>4. CASE FinishRead(r)
    <3>1. pc[r] = "finish" /\ pc'[r] = "finish commit" /\ UNCHANGED execs
      BY <2>0, <2>4, Went DEF FinishRead, ReadView, db
    <3> QED BY <2>0, <2>1, <3>1 DEF Knows
  <2>5. CASE FindCurrent(r) \/ ClearRead(r)
    <3>1. /\ pc'[r] \in {"clear", "clear commit"} /\ UNCHANGED execs
          /\ req[r].node \in Nodes
      BY <2>0, <2>5, Went DEF FindCurrent, ClearRead, ReadView, db, Knows
    <3>2. mem'[r].doomed = CurrentRows(execs, Affected(req[r].node))
      <4>1. CASE FindCurrent(r)
        BY <2>0, <4>1, Went DEF FindCurrent, Locals
      <4>2. CASE ClearRead(r)
        BY <2>0, <4>2, Went DEF ClearRead, ReadView, Locals, Knows
      <4> QED BY <2>5, <4>1, <4>2
    <3> QED BY <2>0, <2>1, <3>1, <3>2 DEF Knows
  <2>6. CASE ReadExecutions(r) /\ Return(r)
    <3>1. pc'[r] = "done"
      BY <2>0, <2>6, Went DEF Return
    <3> QED BY <2>1, <3>1, KnowsElsewhere
  <2>7. CASE LoadOutputs(r) /\ pc'[r] # "finish"
    <3>1. pc'[r] \in {"done", "fail", "resolve"}
      BY <2>0, <2>7, Went DEF LoadOutputs, Idle, Return, Raise
    <3> QED BY <2>1, <3>1, KnowsElsewhere
  <2>8. CASE \/ FindWaiting(r) \/ (\E v \in Outputs : Answer(r, v)) \/ LoadInput(r) \/ Submit(r)
             \/ ResolveInputs(r) \/ StartNode(r) \/ LookAgain(r)
    <3>1. pc'[r] \in {"done", "load input", "answer", "continue", "submit", "run input", "fail",
                      "insert", "ask", "run", "resolve"}
      BY <2>0, <2>8, Went DEF FindWaiting, Answer, LoadInput, Submit, ResolveInputs, StartNode,
                              LookAgain, Return, Raise
    <3> QED BY <2>1, <3>1, KnowsElsewhere
  <2>9. CASE \/ MarkWaiting(r) \/ (\E v \in Outputs : MarkSucceeded(r, v)) \/ MarkFailed(r)
             \/ FinishTask(r) \/ FailRead(r) \/ FailTask(r) \/ ClearDownstream(r)
    <3>1. pc'[r] \in {"done", "look", "continue", "fail commit"}
      BY <2>0, <2>9, Went DEF MarkWaiting, MarkSucceeded, MarkFailed, AfterMark, FinishTask,
                              FailRead, FailTask, ReadView, ClearDownstream, Return
    <3> QED BY <2>1, <3>1, KnowsElsewhere
  <2> QED BY <1>2, <2>2, <2>3, <2>4, <2>5, <2>6, <2>7, <2>8, <2>9 DEF Handle, Aside
<1> QED BY <1>1, <1>2

LEMMA CallKnows ==
    ASSUME Shown, Drivers \subseteq Exclusive, NEW r \in Requests, Call(r)
    PROVE  UNCHANGED execs /\ \A q \in Requests : Knows(q)'
<1>1. /\ UNCHANGED execs
      /\ \A q \in Requests : pc'[q] \in DriverPlaces /\ q # r => pc'[q] = pc[q] /\ mem'[q] = mem[q]
      /\ pc'[r] \in {"continue", "find waiting", "find draft", "find current", "archive"}
  BY AloneCall DEF Shown, Driven
<1>2. \A q \in Requests : q # r => req'[q] = req[q]
  BY DEF Call, CreateTask, ResumeTask, RerunNode, SaveDraft, DeleteTask, Arrive,
         Shown, Driven, Typed, TypeOK, RequestsOK
<1>3. SameRows
  BY <1>1 DEF SameRows
<1>4. ASSUME NEW q \in Requests PROVE Knows(q)'
  <2>1. CASE q = r
    <3>1. CASE pc'[r] = "find current"
      <4>1. PICK n \in Nodes : RerunNode(r, n)
        BY <3>1 DEF Call, CreateTask, ResumeTask, SaveDraft, DeleteTask, Arrive,
                    Shown, Driven, Typed, TypeOK, RequestsOK
      <4>2. req'[r].node = n
        BY <4>1 DEF RerunNode, Arrive, Shown, Driven, Typed, TypeOK, RequestsOK
      <4> QED BY <2>1, <3>1, <4>2 DEF Knows
    <3>2. CASE pc'[r] # "find current"
      BY <1>1, <2>1, <3>2, KnowsElsewhere
    <3> QED BY <3>1, <3>2
  <2>2. CASE q # r /\ pc'[q] \in DriverPlaces
    BY <1>1, <1>2, <1>3, <2>2, KnowsStill DEF Shown
  <2>3. CASE pc'[q] \notin DriverPlaces
    BY <2>3, KnowsElsewhere, DriverPlacesAre
  <2> QED BY <2>1, <2>2, <2>3
<1> QED BY <1>1, <1>4

LEMMA ShownStep ==
    ASSUME Drivers \subseteq Exclusive, Shown, [Next \/ Crash]_vars
    PROVE  Shown'
<1>1. Driven'
  BY DrivenStep DEF Shown
<1>2. CASE Next
  BY <1>1, <1>2, HandleKnows, CallKnows DEF Next, Shown
<1>3. CASE Crash
  BY <1>1, <1>3, KnowsElsewhere DEF Crash, InFlight, Shown
<1>4. CASE UNCHANGED vars
  BY <1>1, <1>4, KnowsStill DEF Shown, SameRows, vars
<1> QED BY <1>2, <1>3, <1>4

----------------------------------------------------------------------------
(* A request has a task to work on.                                           *)

Begun == \A r \in Requests : pc[r] # "new" => task.status # "none"

LEMMA BegunInit == Init => Begun
BY DEF Init, Begun

LEMMA BegunStep ==
    ASSUME Typed, Begun, [Next \/ Crash]_vars
    PROVE  Begun'
<1>0. /\ pc \in [Requests -> Places]
      /\ task \in [status : Statuses, view : CurrentView, finished : BOOLEAN]
  BY DEF Typed, TypeOK, RequestsOK, RowsOK
<1>1. ASSUME NEW r \in Requests, Handle(r) PROVE Begun'
  <2>1. pc[r] # "new" /\ \A q \in Requests \ {r} : pc'[q] = pc[q]
    <3>1. \E to : pc' = [pc EXCEPT ![r] = to]
      BY <1>1, HandleMoves
    <3>2. pc[r] # "new"
      BY <1>1 DEF Handle, FindWaiting, Answer, LoadInput, Submit, ReadExecutions, LoadOutputs,
                  ResolveInputs, StartNode, MarkWaiting, MarkSucceeded, MarkFailed, LookAgain,
                  FinishRead, FinishTask, FailRead, FailTask, FindCurrent, ClearRead, ClearDownstream,
                  ReadView, MergeDraft, CommitDraft, ArchiveRead, ArchiveTask
    <3> QED BY <1>0, <3>1, <3>2
  <2>2. task.status # "none"
    BY <2>1 DEF Begun
  <2>3. task'.status # "none"
    <3>1. CASE UNCHANGED task
      BY <2>2, <3>1
    <3>2. CASE \E st \in Statuses \ {"none"} : \E w : task' = [task EXCEPT !.status = st, !.view = w]
      BY <1>0, <3>2
    <3>3. CASE \E st \in Statuses \ {"none"} : \E w, b :
                 task' = [status |-> st, view |-> w, finished |-> b]
      BY <3>3
    <3>4. CASE \E w : task' = [task EXCEPT !.view = w]
      BY <1>0, <2>2, <3>4
    <3>5. CASE \E v \in Outputs : Answer(r, v)
      <4>1. UNCHANGED task \/ \E w : task' = [task EXCEPT !.status = "running", !.view = w]
        BY <3>5 DEF Answer, db
      <4> QED BY <3>1, <3>2, <4>1 DEF Statuses
    <3>6. CASE Submit(r) \/ MarkWaiting(r)
      <4>1. \E st \in {"running", "waiting"} : \E w : task' = [task EXCEPT !.status = st, !.view = w]
        BY <3>6 DEF Submit, MarkWaiting
      <4> QED BY <3>2, <4>1 DEF Statuses
    <3>7. CASE MarkFailed(r) \/ FinishTask(r) \/ FailTask(r) \/ ClearDownstream(r) \/ ArchiveTask(r)
      <4>1. UNCHANGED task \/ \E st \in {"failed", "succeeded", "running", "archived"} : \E w, b :
                                task' = [status |-> st, view |-> w, finished |-> b]
        BY <3>7 DEF MarkFailed, FinishTask, FailTask, ClearDownstream, ArchiveTask
      <4> QED BY <3>1, <3>3, <4>1 DEF Statuses
    <3>8. CASE CommitDraft(r)
      <4>1. UNCHANGED task \/ \E w : task' = [task EXCEPT !.view = w]
        BY <3>8 DEF CommitDraft, db
      <4> QED BY <3>1, <3>4, <4>1
    <3> QED BY <1>1, <3>1, <3>5, <3>6, <3>7, <3>8
            DEF Handle, FindWaiting, LoadInput, ReadExecutions, LoadOutputs, ResolveInputs,
                StartNode, MarkSucceeded, LookAgain, FinishRead, FailRead, FindCurrent, ClearRead, ReadView,
                MergeDraft, ArchiveRead, db
  <2> QED BY <2>3 DEF Begun
<1>2. ASSUME NEW r \in Requests, Call(r) PROVE Begun'
  <2>1. task'.status # "none"
    <3>1. CASE CreateTask(r)
      BY <3>1 DEF CreateTask
    <3>2. CASE ~CreateTask(r)
      <4>1. task.status # "none" /\ UNCHANGED task
        BY <1>2, <3>2 DEF Call, ResumeTask, RerunNode, SaveDraft, DeleteTask, db
      <4> QED BY <4>1
    <3> QED BY <3>1, <3>2
  <2> QED BY <2>1 DEF Begun
<1>3. CASE Crash
  BY <1>0, <1>3 DEF Crash, InFlight, Begun
<1>4. CASE UNCHANGED vars
  BY <1>4 DEF vars, Begun
<1> QED BY <1>1, <1>2, <1>3, <1>4 DEF Next

----------------------------------------------------------------------------
(* What a change of rows does to the board.                                   *)

Single(es) == \A i, j \in DOMAIN es :
    Live(es, i) /\ Live(es, j) /\ es[i].node = es[j].node => i = j

Cells(es) == [n \in Nodes |-> Cell(es, n)]

\* The cell of a current row is its status.
LEMMA CellIs ==
    ASSUME NEW es, Single(es), NEW i \in DOMAIN es, Live(es, i)
    PROVE  Cell(es, es[i].node) = es[i].status
<1>1. CurrentAt(es, es[i].node) = {i}
  BY DEF CurrentAt, Single
<1>2. (CHOOSE j \in {i} : TRUE) = i
  OBVIOUS
<1> QED BY <1>1, <1>2 DEF Cell

LEMMA CellIdle ==
    ASSUME NEW es, NEW n, n \notin StartedNodes(es)
    PROVE  Cell(es, n) = "idle"
BY DEF Cell, CurrentAt, StartedNodes

\* Where the current rows are the same, so is the cell.
LEMMA CellSame ==
    ASSUME NEW es, NEW fs, NEW n, CurrentAt(fs, n) = CurrentAt(es, n),
           \A i \in CurrentAt(es, n) : fs[i].status = es[i].status
    PROVE  Cell(fs, n) = Cell(es, n)
<1>1. CASE CurrentAt(es, n) = {}
  BY <1>1 DEF Cell
<1>2. CASE CurrentAt(es, n) # {}
  <2>1. (CHOOSE i \in CurrentAt(es, n) : TRUE) \in CurrentAt(es, n)
    BY <1>2
  <2> QED BY <1>2, <2>1 DEF Cell
<1> QED BY <1>1, <1>2

LEMMA RowMoves ==
    ASSUME NEW es, Single(es), NEW i \in DOMAIN es, NEW fs, NEW row,
           DOMAIN fs = DOMAIN es, fs[i] = row, \A j \in DOMAIN es : j # i => fs[j] = es[j],
           row.node = es[i].node, Live(es, i), row.status # "superseded"
    PROVE  /\ Cell(es, row.node) = es[i].status
           /\ Cells(fs) = [Cells(es) EXCEPT ![row.node] = row.status]
<1>2. \A j \in DOMAIN es : fs[j].node = es[j].node /\ (Live(fs, j) <=> Live(es, j))
  BY DEF Live
<1>3. Single(fs)
  BY <1>2 DEF Single
<1>4. Cell(es, row.node) = es[i].status
  BY CellIs
<1>5. Cell(fs, row.node) = row.status
  BY <1>2, <1>3, CellIs
<1>6. ASSUME NEW n \in Nodes, n # row.node PROVE Cell(fs, n) = Cell(es, n)
  <2>1. CurrentAt(fs, n) = CurrentAt(es, n)
    BY <1>2 DEF CurrentAt
  <2>2. \A j \in CurrentAt(es, n) : fs[j].status = es[j].status
    BY <1>6 DEF CurrentAt
  <2> QED BY <2>1, <2>2, CellSame
<1> QED BY <1>4, <1>5, <1>6 DEF Cells

LEMMA RowShown ==
    ASSUME NEW es \in Seq(Execution), NEW row, NEW fs, fs = Append(es, row), Single(fs),
           row.node \notin StartedNodes(es), row.status # "superseded"
    PROVE  /\ Cell(es, row.node) = "idle"
           /\ Cells(fs) = [Cells(es) EXCEPT ![row.node] = row.status]
<1>1. /\ DOMAIN fs = DOMAIN es \cup {Len(es) + 1}
      /\ Len(es) + 1 \notin DOMAIN es
      /\ fs[Len(es) + 1] = row
      /\ \A j \in DOMAIN es : fs[j] = es[j]
  BY LenProperties, AppendProperties
<1>2. Cell(es, row.node) = "idle"
  BY CellIdle
<1>3. Cell(fs, row.node) = row.status
  <2> DEFINE i == Len(es) + 1
  <2>1. i \in DOMAIN fs /\ fs[i] = row /\ Live(fs, i)
    BY <1>1 DEF Live
  <2> HIDE DEF i
  <2> QED BY <2>1, CellIs
<1>4. ASSUME NEW n \in Nodes, n # row.node PROVE Cell(fs, n) = Cell(es, n)
  <2>1. CurrentAt(fs, n) = CurrentAt(es, n)
    BY <1>1, <1>4 DEF CurrentAt, Live
  <2>2. \A j \in CurrentAt(es, n) : fs[j].status = es[j].status
    BY <1>1 DEF CurrentAt
  <2> QED BY <2>1, <2>2, CellSame
<1> QED BY <1>2, <1>3, <1>4 DEF Cells

\* The rows a rerun finds are all current rows of the nodes it clears.
LEMMA DoomedAre ==
    ASSUME NEW es \in Seq(Execution), Single(es), NEW S \in SUBSET Nodes, NEW i \in DOMAIN es
    PROVE  i \in CurrentRows(es, S) <=> Live(es, i) /\ es[i].node \in S
<1> DEFINE Now == ExecStatuses \ {"superseded"}
           last == LatestByNode(es, Now)
<1>1. /\ Len(es) \in Nat /\ DOMAIN es = 1..Len(es)
      /\ es[i].node \in Nodes /\ es[i].status \in ExecStatuses
  <2>1. Len(es) \in Nat /\ DOMAIN es = 1..Len(es) /\ es[i] \in Execution
    BY LenProperties, ElementOfSeq
  <2> QED BY <2>1 DEF Execution
<1>2. ASSUME i \in CurrentRows(es, S) PROVE Live(es, i) /\ es[i].node \in S
  <2>1. PICK n \in S : i = last[n] /\ i # 0
    BY <1>2 DEF CurrentRows
  <2>2. es[i].node = n /\ es[i].status \in Now
    BY <2>1, LatestByNodeType
  <2> QED BY <2>2 DEF Live
<1>3. ASSUME Live(es, i), es[i].node \in S PROVE i \in CurrentRows(es, S)
  <2> DEFINE n == es[i].node
             T == {j \in DOMAIN es : es[j].node = n /\ es[j].status \in Now}
  <2>1. T = {i}
    BY <1>1, <1>3 DEF Single, Live
  <2>2. last[n] = Latest({0} \cup T)
    BY <1>1 DEF LatestByNode
  <2>3. IsFiniteSet({0} \cup {i})
    BY FS_Singleton, FS_Union
  <2>4. i \in Nat /\ i # 0
    BY <1>1
  <2>5. Latest({0} \cup {i}) = i
    <3> DEFINE T0 == {0} \cup {i}
    <3>0. T0 \in SUBSET Nat /\ T0 # {}
      BY <2>4
    <3>1. Latest(T0) \in T0 /\ \A j \in T0 : j <= Latest(T0)
      <4> HIDE DEF T0
      <4> QED BY <2>3, <3>0, LatestIs DEF T0
    <3>2. Latest(T0) = 0 \/ Latest(T0) = i
      BY <3>1
    <3>3. i <= Latest(T0)
      BY <3>1
    <3>4. Latest(T0) = i
      <4> HIDE DEF T0
      <4> QED BY <2>4, <3>2, <3>3
    <3> QED BY <3>4
  <2>6. last[n] = i
    BY <2>1, <2>2, <2>5
  <2> QED BY <1>3, <2>4, <2>6 DEF CurrentRows
<1> QED BY <1>2, <1>3

LEMMA RowsDropped ==
    ASSUME NEW es \in Seq(Execution), Single(es), NEW S \in SUBSET Nodes, NEW fs,
           fs = [i \in DOMAIN es |-> IF i \in CurrentRows(es, S)
                                     THEN [es[i] EXCEPT !.status = "superseded"] ELSE es[i]]
    PROVE  Cells(fs) = [n \in Nodes |-> IF n \in S THEN "idle" ELSE Cells(es)[n]]
<1>1. \A i \in DOMAIN es : es[i] \in Execution
  BY LenProperties, ElementOfSeq
<1>2. /\ DOMAIN fs = DOMAIN es
      /\ \A i \in DOMAIN es : fs[i].node = es[i].node
      /\ \A i \in DOMAIN es : es[i].node \in S => ~Live(fs, i)
      /\ \A i \in DOMAIN es : es[i].node \notin S => fs[i] = es[i]
  <2> DEFINE Doomed == CurrentRows(es, S)
  <2>1. \A i \in DOMAIN es : i \in Doomed <=> Live(es, i) /\ es[i].node \in S
    BY DoomedAre
  <2>2. fs = [i \in DOMAIN es |-> IF i \in Doomed THEN [es[i] EXCEPT !.status = "superseded"]
                                  ELSE es[i]]
    OBVIOUS
  <2> HIDE DEF Doomed
  <2>3. ASSUME NEW i \in DOMAIN es
        PROVE  /\ fs[i].node = es[i].node
               /\ es[i].node \in S => ~Live(fs, i)
               /\ es[i].node \notin S => fs[i] = es[i]
    <3>1. [es[i] EXCEPT !.status = "superseded"].node = es[i].node
      BY <1>1 DEF Execution
    <3>2. [es[i] EXCEPT !.status = "superseded"].status = "superseded"
      BY <1>1 DEF Execution
    <3>3. CASE i \in Doomed
      BY <2>1, <2>2, <3>1, <3>2, <3>3 DEF Live
    <3>4. CASE i \notin Doomed
      BY <2>1, <2>2, <3>4 DEF Live
    <3> QED BY <3>3, <3>4
  <2>4. DOMAIN fs = DOMAIN es
    BY <2>2
  <2> QED BY <2>3, <2>4
<1>3. ASSUME NEW n \in S PROVE Cell(fs, n) = "idle"
  BY <1>2, CellIdle DEF StartedNodes
<1>4. ASSUME NEW n \in Nodes, n \notin S PROVE Cell(fs, n) = Cell(es, n)
  <2>1. CurrentAt(fs, n) = CurrentAt(es, n)
    BY <1>2, <1>4 DEF CurrentAt, Live
  <2>2. \A j \in CurrentAt(es, n) : fs[j].status = es[j].status
    BY <1>2, <1>4 DEF CurrentAt
  <2> QED BY <2>1, <2>2, CellSame
<1> QED BY <1>3, <1>4 DEF Cells

LEMMA RowsAlike ==
    ASSUME SameRows
    PROVE  Cells(execs') = Cells(execs)
<1>1. ASSUME NEW n \in Nodes PROVE Cell(execs', n) = Cell(execs, n)
  <2>1. CurrentAt(execs', n) = CurrentAt(execs, n)
    BY DEF CurrentAt, Live, SameRows
  <2>2. \A j \in CurrentAt(execs, n) : execs'[j].status = execs[j].status
    BY DEF CurrentAt, SameRows
  <2> QED BY <2>1, <2>2, CellSame
<1> QED BY <1>1 DEF Cells
----------------------------------------------------------------------------
(* Every step is one of the board's, or shows nothing.                        *)

BoardStep == [Board!Next]_(Board!vars)

\* The board as the task fills it in.
LEMMA BoardIs ==
    /\ Cells(execs) = [n \in Nodes |-> Cell(execs, n)]
    /\ Cells(execs)' = [n \in Nodes |-> Cell(execs', n)]
    /\ Cells(execs)' = Cells(execs')
BY DEF Cells

LEMMA NothingShown ==
    ASSUME Cells(execs') = Cells(execs), task'.status = task.status
    PROVE  BoardStep
<1>1. UNCHANGED [n \in Nodes |-> Cell(execs, n)]
  BY DEF Cells
<1> QED BY <1>1 DEF BoardStep, Board!vars

\* A move of one node, with the phase that goes with it.
LEMMA MoveShown ==
    ASSUME task.status # "none", NEW n \in Nodes, NEW from, NEW to,
           Cell(execs, n) = from, Cells(execs') = [Cells(execs) EXCEPT ![n] = to],
           \/ from = "idle" /\ to = "running" /\ task'.status = task.status
           \/ from = "running" /\ to = "waiting" /\ task'.status = "waiting"
           \/ from = "waiting" /\ to \in {"running", "succeeded"} /\ task'.status = "running"
           \/ from = "running" /\ to = "succeeded" /\ task'.status = task.status
           \/ from = "running" /\ to = "failed" /\ task'.status = "failed"
    PROVE  BoardStep
<1>1. Board!Move(n, from, to)
  BY DEF Cells, Board!Move
<1>2. \/ Board!Start(n) \/ Board!Ask(n) \/ Board!Answer(n) \/ Board!Submit(n)
      \/ Board!Succeed(n) \/ Board!Fail(n)
  BY <1>1 DEF Board!Start, Board!Ask, Board!Answer, Board!Submit, Board!Succeed, Board!Fail
<1> QED BY <1>2 DEF BoardStep, Board!Next

\* A live row is edited.
LEMMA EditCells ==
    ASSUME Shown, NEW i \in DOMAIN execs, NEW row,
           execs' = [execs EXCEPT ![i] = row], row.node = execs[i].node,
           execs[i].status # "superseded", row.status # "superseded"
    PROVE  /\ Cell(execs, row.node) = execs[i].status
           /\ Cells(execs') = [Cells(execs) EXCEPT ![row.node] = row.status]
<1>1. Single(execs) /\ Live(execs, i)
  BY DEF Shown, Driven, OneCurrentExecution, Single, Live
<1> DEFINE fs == execs'
<1>2. /\ DOMAIN fs = DOMAIN execs /\ fs[i] = row
      /\ \A j \in DOMAIN execs : j # i => fs[j] = execs[j]
  OBVIOUS
<1> HIDE DEF fs
<1>3. Cell(execs, row.node) = execs[i].status /\ Cells(fs) = [Cells(execs) EXCEPT ![row.node] = row.status]
  BY <1>1, <1>2, RowMoves
<1> QED BY <1>3 DEF fs

\* A live row of a driving request is edited.
LEMMA EditShown ==
    ASSUME Shown, Begun, NEW r \in Requests, pc[r] # "new", NEW i \in DOMAIN execs, NEW row,
           execs' = [execs EXCEPT ![i] = row], row.node = execs[i].node,
           execs[i].status # "superseded", row.status # "superseded",
           \/ execs[i].status = "running" /\ row.status = "waiting" /\ task'.status = "waiting"
           \/ execs[i].status = "waiting" /\ row.status \in {"running", "succeeded"} /\ task'.status = "running"
           \/ execs[i].status = "running" /\ row.status = "succeeded" /\ task'.status = task.status
           \/ execs[i].status = "running" /\ row.status = "failed" /\ task'.status = "failed"
    PROVE  BoardStep
<1>1. Single(execs) /\ execs[i] \in Execution /\ task.status # "none"
  BY ElementOfSeq, LenProperties
     DEF Shown, Driven, Typed, TypeOK, RowsOK, OneCurrentExecution, Single, Begun
<1>2. task.status # "none" /\ row.node \in Nodes
  BY <1>1 DEF Execution
<1>3. /\ Cell(execs, row.node) = execs[i].status
      /\ Cells(execs') = [Cells(execs) EXCEPT ![row.node] = row.status]
  BY EditCells
<1> DEFINE n == row.node
           from == execs[i].status
           to == row.status
<1>4. \/ from = "running" /\ to = "waiting" /\ task'.status = "waiting"
      \/ from = "waiting" /\ to \in {"running", "succeeded"} /\ task'.status = "running"
      \/ from = "running" /\ to = "succeeded" /\ task'.status = task.status
      \/ from = "running" /\ to = "failed" /\ task'.status = "failed"
  OBVIOUS
<1>5. n \in Nodes /\ Cell(execs, n) = from /\ Cells(execs') = [Cells(execs) EXCEPT ![n] = to]
  BY <1>2, <1>3
<1> HIDE DEF n, from, to
<1> QED BY <1>2, <1>4, <1>5, MoveShown

LEMMA AnswerShown ==
    ASSUME Shown, Begun, NEW r \in Requests, NEW v \in Outputs, Answer(r, v)
    PROVE  BoardStep
<1>1. CASE UNCHANGED db
  BY <1>1, NothingShown DEF db
<1>2. CASE ~UNCHANGED db
  <2>1. PICK i \in DOMAIN execs :
           /\ WaitingAt(execs, req[r].node) = {i}
           /\ execs' = [execs EXCEPT ![i].status = "succeeded", ![i].output = v]
           /\ task' = [task EXCEPT !.status = "running",
                                   !.view = [mem[r].view EXCEPT !.status = "running"]]
    BY <1>2 DEF Answer
  <2> DEFINE row == [execs[i] EXCEPT !.status = "succeeded", !.output = v]
  <2>2. /\ execs[i] \in Execution /\ execs[i].status = "waiting"
        /\ task \in [status : Statuses, view : CurrentView, finished : BOOLEAN]
    BY <2>1, ElementOfSeq, LenProperties DEF WaitingAt, Shown, Driven, Typed, TypeOK, RowsOK
  <2>3. execs' = [execs EXCEPT ![i] = row] /\ row.node = execs[i].node /\ row.status = "succeeded"
    BY <2>1, <2>2 DEF Execution
  <2>4. task'.status = "running" /\ pc[r] # "new"
    BY <2>1, <2>2 DEF Answer
  <2> HIDE DEF row
  <2> QED BY <2>2, <2>3, <2>4, EditShown
<1> QED BY <1>1, <1>2

LEMMA SubmitShown ==
    ASSUME Shown, Begun, NEW r \in Requests, Submit(r)
    PROVE  BoardStep
<1> DEFINE i == mem[r].exec
           row == [execs[i] EXCEPT !.status = "running",
                     !.uses = Uses(req[r].node, mem[r].outs), !.fields = {}]
<1>1. i \in DOMAIN execs /\ execs[i].status = "waiting"
  BY DEF Submit, Shown, Driven, Remembers, HasRow
<1>2. execs[i] \in Execution /\ task \in [status : Statuses, view : CurrentView, finished : BOOLEAN]
  BY <1>1, ElementOfSeq, LenProperties DEF Shown, Driven, Typed, TypeOK, RowsOK
<1>3. execs' = [execs EXCEPT ![i] = row] /\ row.node = execs[i].node /\ row.status = "running"
  BY <1>1, <1>2 DEF Submit, Execution
<1>4. task'.status = "running" /\ pc[r] # "new"
  BY <1>2 DEF Submit
<1> HIDE DEF row, i
<1> QED BY <1>1, <1>3, <1>4, EditShown

LEMMA MarksShown ==
    ASSUME Shown, Begun, NEW r \in Requests,
           MarkWaiting(r) \/ (\E v \in Outputs : MarkSucceeded(r, v)) \/ MarkFailed(r)
    PROVE  BoardStep
<1> DEFINE i == mem[r].exec
<1>1. /\ i \in DOMAIN execs /\ execs[i].status = "running" /\ pc[r] # "new"
      /\ task \in [status : Statuses, view : CurrentView, finished : BOOLEAN]
  BY DEF MarkWaiting, MarkSucceeded, MarkFailed, Shown, Driven, Remembers, HasRow, Typed, TypeOK, RowsOK
<1>2. execs[i] \in Execution
  BY <1>1, ElementOfSeq, LenProperties DEF Shown, Driven, Typed, TypeOK, RowsOK
<1>3. CASE MarkWaiting(r)
  <2> DEFINE row == [execs[i] EXCEPT !.status = "waiting", !.form = (pc[r] = "ask")]
  <2>1. execs' = [execs EXCEPT ![i] = row]
    BY <1>3 DEF MarkWaiting
  <2>2. row.node = execs[i].node /\ row.status = "waiting"
    BY <1>2 DEF Execution
  <2>3. task'.status = "waiting"
    BY <1>1, <1>3 DEF MarkWaiting
  <2> HIDE DEF row, i
  <2> QED BY <1>1, <2>1, <2>2, <2>3, EditShown
<1>4. CASE \E v \in Outputs : MarkSucceeded(r, v)
  <2>1. PICK v \in Outputs : MarkSucceeded(r, v)
    BY <1>4
  <2> DEFINE row == [execs[i] EXCEPT !.status = "succeeded", !.output = v, !.form = FALSE]
  <2>2. execs' = [execs EXCEPT ![i] = row] /\ task' = task
    BY <2>1 DEF MarkSucceeded
  <2>3. row.node = execs[i].node /\ row.status = "succeeded"
    BY <1>2 DEF Execution
  <2> HIDE DEF row, i
  <2> QED BY <1>1, <2>2, <2>3, EditShown
<1>5. CASE MarkFailed(r)
  <2> DEFINE row == [execs[i] EXCEPT !.status = "failed"]
  <2>1. execs' = [execs EXCEPT ![i] = row] /\ task'.status = "failed"
    BY <1>5 DEF MarkFailed
  <2>2. row.node = execs[i].node /\ row.status = "failed"
    BY <1>2 DEF Execution
  <2> HIDE DEF row, i
  <2> QED BY <1>1, <2>1, <2>2, EditShown
<1> QED BY <1>3, <1>4, <1>5

LEMMA StartShown ==
    ASSUME Shown, Begun, NEW r \in Requests, StartNode(r)
    PROVE  BoardStep
<1> DEFINE n == mem[r].node
           row == [node |-> n, attempt |-> mem[r].attempt, status |-> "running",
                   form |-> FALSE, output |-> NoOutput,
                   uses |-> Uses(n, mem[r].outs), fields |-> {}]
<1>1. /\ n \in mem[r].todo /\ mem[r].todo \cap StartedNodes(execs) = {}
      /\ execs \in Seq(Execution) /\ mem[r] \in Locals /\ pc[r] # "new"
  BY DEF StartNode, Shown, Driven, Remembers, Typed, TypeOK, RowsOK, RequestsOK
<1>2. execs' = Append(execs, row) /\ row.node = n /\ row.status = "running" /\ task' = task
  BY DEF StartNode
<1>3. n \in Nodes /\ task.status # "none"
  BY <1>1 DEF Locals, Begun
<1>4. Single(execs')
  BY HandleDriven DEF Handle, Shown, Driven, OneCurrentExecution, Single
<1> HIDE DEF row, n
<1>5. Cell(execs, n) = "idle" /\ Cells(execs') = [Cells(execs) EXCEPT ![n] = "running"]
  <2>1. /\ Cell(execs, row.node) = "idle"
        /\ Cells(execs') = [Cells(execs) EXCEPT ![row.node] = row.status]
    <3>1. row.node \notin StartedNodes(execs) /\ row.status # "superseded"
      BY <1>1, <1>2
    <3> QED BY <1>1, <1>2, <1>4, <3>1, RowShown, Zenon
  <2> QED BY <1>2, <2>1
<1> QED BY <1>2, <1>3, <1>5, MoveShown

LEMMA ClearShown ==
    ASSUME Shown, Begun, NEW r \in Requests, ClearDownstream(r)
    PROVE  BoardStep
<1> DEFINE n == req[r].node
<1>1. /\ execs \in Seq(Execution) /\ Single(execs) /\ task.status # "none" /\ n \in Nodes
      /\ mem[r].doomed = CurrentRows(execs, Affected(n))
  BY DEF ClearDownstream, Shown, Driven, Typed, TypeOK, RowsOK, OneCurrentExecution, Single, Begun, Knows
<1>2. task'.status = "running"
  BY DEF ClearDownstream
<1>3. Affected(n) \in SUBSET Nodes
  BY <1>1 DEF Affected, Downstream
<1>4. execs' = [i \in DOMAIN execs |-> IF i \in CurrentRows(execs, Affected(n))
                  THEN [execs[i] EXCEPT !.status = "superseded"] ELSE execs[i]]
  BY <1>1 DEF ClearDownstream
<1>5. Cells(execs') = [m \in Nodes |-> IF m \in Affected(n) THEN "idle" ELSE Cells(execs)[m]]
  BY <1>1, <1>3, <1>4, RowsDropped
<1>6. Board!Rerun(n)
  BY <1>1, <1>2, <1>5 DEF Board!Rerun, Cells
<1> QED BY <1>1, <1>6 DEF BoardStep, Board!Next

LEMMA FinishShown ==
    ASSUME Shown, Begun, NEW r \in Requests, FinishTask(r)
    PROVE  BoardStep
<1>1. task.status # "none" /\ task'.status = "succeeded" /\ execs' = execs
  BY DEF FinishTask, Begun
<1>2. ~AnyFailed(execs) /\ NoneWaits(execs)
  BY DEF FinishTask, Shown, Knows
<1>3. ASSUME NEW n \in Nodes PROVE Cell(execs, n) \notin {"waiting", "failed"}
  <2>1. CASE CurrentAt(execs, n) = {}
    BY <2>1 DEF Cell
  <2>2. CASE CurrentAt(execs, n) # {}
    <3>1. (CHOOSE i \in CurrentAt(execs, n) : TRUE) \in DOMAIN execs
      BY <2>2 DEF CurrentAt
    <3> QED BY <1>2, <2>2, <3>1 DEF Cell, AnyFailed, NoneWaits
  <2> QED BY <2>1, <2>2
<1>4. Board!Finish
  BY <1>1, <1>3 DEF Board!Finish
<1> QED BY <1>1, <1>4 DEF BoardStep, Board!Next

LEMMA EndShown ==
    ASSUME Shown, Begun, NEW r \in Requests, FailTask(r) \/ ArchiveTask(r)
    PROVE  BoardStep
<1>1. task.status # "none" /\ execs' = execs
  BY DEF FailTask, ArchiveTask, Begun
<1>2. CASE FailTask(r)
  <2>1. task'.status = "failed"
    BY <1>2 DEF FailTask
  <2>2. Board!GiveUp
    BY <1>1, <2>1 DEF Board!GiveUp
  <2> QED BY <1>1, <2>2 DEF BoardStep, Board!Next
<1>3. CASE ArchiveTask(r)
  <2>1. Board!Archive
    BY <1>1, <1>3 DEF Board!Archive, ArchiveTask
  <2> QED BY <1>1, <2>1 DEF BoardStep, Board!Next
<1> QED BY <1>2, <1>3

LEMMA DraftShown ==
    ASSUME Shown, NEW r \in Requests, CommitDraft(r)
    PROVE  BoardStep
<1>1. Cells(execs') = Cells(execs)
  BY AsideSteps, RowsAlike DEF Aside, Shown
<1>2. task'.status = task.status
  <2>1. task \in [status : Statuses, view : CurrentView, finished : BOOLEAN]
    BY DEF Shown, Driven, Typed, TypeOK, RowsOK
  <2>2. UNCHANGED task \/ \E w : task' = [task EXCEPT !.view = w]
    BY DEF CommitDraft, db
  <2> QED BY <2>1, <2>2
<1> QED BY <1>1, <1>2, NothingShown

LEMMA CallShown ==
    ASSUME Drivers \subseteq Exclusive, Shown, NEW r \in Requests, Call(r)
    PROVE  BoardStep
<1>1. UNCHANGED execs
  BY CallKnows
<1>2. CASE CreateTask(r)
  <2>1. Board!Create
    BY <1>1, <1>2 DEF CreateTask, Board!Create
  <2> QED BY <2>1 DEF BoardStep, Board!Next
<1>3. CASE ~CreateTask(r)
  <2>1. UNCHANGED task
    BY <1>3 DEF Call, ResumeTask, RerunNode, SaveDraft, DeleteTask, db
  <2> QED BY <1>1, <2>1, NothingShown
<1> QED BY <1>2, <1>3

LEMMA StepShown ==
    ASSUME Drivers \subseteq Exclusive, Shown, Begun, [Next \/ Crash]_vars
    PROVE  [Board!Next]_(Board!vars)
<1>1. ASSUME NEW r \in Requests, Handle(r) PROVE BoardStep
  <2>1. CASE UNCHANGED <<task, execs>>
    BY <2>1, NothingShown
  <2> QED BY <1>1, <2>1, AnswerShown, SubmitShown, StartShown, MarksShown, ClearShown,
             FinishShown, EndShown, DraftShown
          DEF Handle, FindWaiting, LoadInput, ReadExecutions, LoadOutputs, ResolveInputs,
              LookAgain, FinishRead, FailRead, FindCurrent, ClearRead, ReadView, MergeDraft, ArchiveRead, db
<1>2. CASE Crash \/ UNCHANGED vars
  BY <1>2, NothingShown DEF Crash, vars, BoardStep
<1> QED BY <1>1, <1>2, CallShown DEF Next, BoardStep

\* As long as callers make one driving request at a time, a task is a TaskBoard,
\* for every contract and any number of requests, drafts, deletions and crashes:
\* no interleaving of the handlers shows a client a step the board does not have.
THEOREM BoardImplemented ==
    ASSUME Drivers \subseteq Exclusive
    PROVE  CrashSpec => BoardShown
<1>1. Init => Shown /\ Begun
  BY KnowsInit, BegunInit
<1>2. Shown /\ Begun /\ [Next \/ Crash]_vars => Shown' /\ Begun'
  BY ShownStep, BegunStep DEF Shown, Driven
<1>3. Shown /\ Begun /\ [Next \/ Crash]_vars => [Board!Next]_(Board!vars)
  BY StepShown
<1>4. Init => Board!Init
  <2> SUFFICES ASSUME Init PROVE Board!Init
    OBVIOUS
  <2>1. \A n \in Nodes : Cell(execs, n) = "idle"
    BY DEF Init, Cell, CurrentAt
  <2> QED BY <2>1 DEF Init, Board!Init
<1> QED BY <1>1, <1>2, <1>3, <1>4, PTL DEF CrashSpec, BoardShown, Board!Spec

----------------------------------------------------------------------------
(* The events tell the same.  Told is what a client that follows them knows   *)
(* of a node; it is to be the node's cell on the board.                       *)

Told(evs, n) ==
    LET about == {k \in DOMAIN evs : n \in evs[k].nodes}
    IN  IF about = {} THEN "cleared" ELSE Tells(evs[Latest(about)].type)

Word(cell) == IF cell = "idle" THEN "cleared" ELSE cell

Reported == \A n \in Nodes : Told(events, n) = Word(Cells(execs)[n])

\* The node a request writes into its events is the node of its row.
Named(r) ==
    /\ pc[r] \in {"ask", "run", "run input"} => execs[mem[r].exec].node = mem[r].node
    /\ pc[r] \in {"load input", "submit"} => execs[mem[r].exec].node = req[r].node

Telling == Shown /\ Reported /\ \A r \in Requests : Named(r)

\* An event tells of its nodes, and of no other.
LEMMA ToldNext ==
    ASSUME NEW evs \in Seq(EventRow), NEW e \in EventRow, NEW n
    PROVE  Told(Append(evs, e), n) = IF n \in e.nodes THEN Tells(e.type) ELSE Told(evs, n)
<1> DEFINE m == Len(evs)
           fs == Append(evs, e)
           old == {k \in DOMAIN evs : n \in evs[k].nodes}
           new == {k \in DOMAIN fs : n \in fs[k].nodes}
<1>1. /\ m \in Nat /\ DOMAIN evs = 1..m /\ DOMAIN fs = 1..(m + 1)
      /\ fs[m + 1] = e /\ \A k \in 1..m : fs[k] = evs[k]
  BY LenProperties, AppendProperties
<1>2. Told(fs, n) = IF new = {} THEN "cleared" ELSE Tells(fs[Latest(new)].type)
  BY DEF Told
<1>3. Told(evs, n) = IF old = {} THEN "cleared" ELSE Tells(evs[Latest(old)].type)
  BY DEF Told
<1>4. CASE n \in e.nodes
  <2>1. m + 1 \in new /\ new \subseteq 1..(m + 1) /\ new # {}
    BY <1>1, <1>4
  <2>2. IsFiniteSet(new) /\ new \in SUBSET Nat
    <3>1. IsFiniteSet(1..(m + 1)) /\ 1..(m + 1) \subseteq Nat
      BY <1>1, FS_Interval, m + 1 \in Int, 1 \in Int
    <3> HIDE DEF new
    <3> QED BY <2>1, <3>1, FS_Subset
  <2> HIDE DEF new, m
  <2>3. Latest(new) \in 1..(m + 1) /\ m + 1 <= Latest(new)
    BY <2>1, <2>2, LatestIs
  <2>4. Latest(new) = m + 1
    BY <1>1, <2>3
  <2> QED BY <1>1, <1>2, <1>4, <2>1, <2>4
<1>5. CASE n \notin e.nodes
  <2>1. new = old /\ old \in SUBSET (1..m)
    BY <1>1, <1>5
  <2> HIDE DEF new, old, m, fs
  <2>2. CASE old = {}
    BY <1>2, <1>3, <1>5, <2>1, <2>2 DEF fs
  <2>3. CASE old # {}
    <3>1. Latest(old) \in 1..m
      BY <1>1, <2>1, <2>3, LatestFound
    <3>2. fs[Latest(old)] = evs[Latest(old)]
      BY <1>1, <3>1
    <3> QED BY <1>2, <1>3, <1>5, <2>1, <2>3, <3>2 DEF fs
  <2> QED BY <2>2, <2>3
<1> QED BY <1>4, <1>5

LEMMA ToldTwo ==
    ASSUME NEW evs \in Seq(EventRow), NEW e1 \in EventRow, NEW e2 \in EventRow, NEW n
    PROVE  Told(evs \o <<e1, e2>>, n) =
             IF n \in e2.nodes THEN Tells(e2.type)
             ELSE IF n \in e1.nodes THEN Tells(e1.type) ELSE Told(evs, n)
<1>1. Append(evs, e1) \in Seq(EventRow)
  BY AppendProperties
<1>2. evs \o <<e1, e2>> = Append(Append(evs, e1), e2)
  OBVIOUS
<1>3. Told(Append(Append(evs, e1), e2), n) =
        IF n \in e2.nodes THEN Tells(e2.type) ELSE Told(Append(evs, e1), n)
  BY <1>1, ToldNext
<1> QED BY <1>2, <1>3, ToldNext

LEMMA ToldThree ==
    ASSUME NEW evs \in Seq(EventRow), NEW e1 \in EventRow, NEW e2 \in EventRow,
           NEW e3 \in EventRow, NEW n
    PROVE  Told(evs \o <<e1, e2, e3>>, n) =
             IF n \in e3.nodes THEN Tells(e3.type)
             ELSE IF n \in e2.nodes THEN Tells(e2.type)
             ELSE IF n \in e1.nodes THEN Tells(e1.type) ELSE Told(evs, n)
<1>1. evs \o <<e1, e2>> \in Seq(EventRow)
  BY AppendProperties, evs \o <<e1, e2>> = Append(Append(evs, e1), e2)
<1>2. evs \o <<e1, e2, e3>> = Append(evs \o <<e1, e2>>, e3)
  OBVIOUS
<1>3. Told(Append(evs \o <<e1, e2>>, e3), n) =
        IF n \in e3.nodes THEN Tells(e3.type) ELSE Told(evs \o <<e1, e2>>, n)
  BY <1>1, ToldNext
<1>4. Told(evs \o <<e1, e2>>, n) =
        IF n \in e2.nodes THEN Tells(e2.type)
        ELSE IF n \in e1.nodes THEN Tells(e1.type) ELSE Told(evs, n)
  BY ToldTwo
<1> QED BY <1>2, <1>3, <1>4

\* What a commit of one event tells.
LEMMA OneTold ==
    ASSUME Shown, NEW type \in EventTypes, NEW S \in SUBSET Nodes,
           events' = Append(events, Event(type, S))
    PROVE  \A n : Told(events', n) = IF n \in S THEN Tells(type) ELSE Told(events, n)
<1> DEFINE e == Event(type, S)
<1>1. events \in Seq(EventRow) /\ e \in EventRow /\ e.type = type /\ e.nodes = S
  BY EventType DEF Event, Shown, Driven, Typed, TypeOK, RowsOK
<1>2. events' = Append(events, e)
  OBVIOUS
<1> HIDE DEF e
<1>3. ASSUME NEW n PROVE Told(events', n) = IF n \in S THEN Tells(type) ELSE Told(events, n)
  <2>1. Told(Append(events, e), n) = IF n \in e.nodes THEN Tells(e.type) ELSE Told(events, n)
    BY <1>1, ToldNext
  <2> QED BY <1>1, <1>2, <2>1
<1> QED BY <1>3

\* What each type of event tells.
LEMMA TellsWhat ==
    /\ Tells("node_started") = "running" /\ Tells("task_resumed") = "running"
    /\ Tells("node_waiting") = "waiting" /\ Tells("human_input_requested") = "waiting"
    /\ Tells("task_waiting") = "waiting" /\ Tells("node_draft_saved") = "waiting"
    /\ Tells("node_succeeded") = "succeeded"
    /\ Tells("node_failed") = "failed" /\ Tells("task_failed") = "failed"
    /\ Tells("node_rerun_started") = "cleared" /\ Tells("downstream_cleared") = "cleared"
BY DEF Tells

LEMMA WaitingTold ==
    ASSUME Shown, NEW S \in SUBSET Nodes,
           events' = events \o <<Event("node_waiting", S), Event("human_input_requested", S),
                                Event("task_waiting", S)>>
    PROVE  \A n : Told(events', n) = IF n \in S THEN "waiting" ELSE Told(events, n)
<1> DEFINE e1 == Event("node_waiting", S)
           e2 == Event("human_input_requested", S)
           e3 == Event("task_waiting", S)
<1>1. /\ events \in Seq(EventRow) /\ e1 \in EventRow /\ e2 \in EventRow /\ e3 \in EventRow
      /\ e1.nodes = S /\ e2.nodes = S /\ e3.nodes = S
      /\ e3.type = "task_waiting"
  BY EventType DEF Event, EventTypes, Shown, Driven, Typed, TypeOK, RowsOK
<1>2. events' = events \o <<e1, e2, e3>>
  OBVIOUS
<1> HIDE DEF e1, e2, e3
<1>3. ASSUME NEW n PROVE Told(events', n) = IF n \in S THEN "waiting" ELSE Told(events, n)
  <2>1. Told(events \o <<e1, e2, e3>>, n) =
          IF n \in e3.nodes THEN Tells(e3.type)
          ELSE IF n \in e2.nodes THEN Tells(e2.type)
          ELSE IF n \in e1.nodes THEN Tells(e1.type) ELSE Told(events, n)
    BY <1>1, ToldThree
  <2>2. (n \in e1.nodes => n \in e3.nodes) /\ (n \in e2.nodes => n \in e3.nodes)
    BY <1>1
  <2> QED BY <1>1, <1>2, <2>1, <2>2, TellsWhat
<1> QED BY <1>3

LEMMA FailedTold ==
    ASSUME Shown, NEW S \in SUBSET Nodes,
           events' = events \o <<Event("node_failed", S), Event("task_failed", S)>>
    PROVE  \A n : Told(events', n) = IF n \in S THEN "failed" ELSE Told(events, n)
<1> DEFINE e1 == Event("node_failed", S)
           e2 == Event("task_failed", S)
<1>1. /\ events \in Seq(EventRow) /\ e1 \in EventRow /\ e2 \in EventRow
      /\ e1.nodes = S /\ e2.nodes = S
      /\ e2.type = "task_failed"
  BY EventType DEF Event, EventTypes, Shown, Driven, Typed, TypeOK, RowsOK
<1>2. events' = events \o <<e1, e2>>
  OBVIOUS
<1> HIDE DEF e1, e2
<1>3. ASSUME NEW n PROVE Told(events', n) = IF n \in S THEN "failed" ELSE Told(events, n)
  <2>1. Told(events \o <<e1, e2>>, n) =
          IF n \in e2.nodes THEN Tells(e2.type)
          ELSE IF n \in e1.nodes THEN Tells(e1.type) ELSE Told(events, n)
    BY <1>1, ToldTwo
  <2>2. (n \in e1.nodes => n \in e2.nodes)
    BY <1>1
  <2> QED BY <1>1, <1>2, <2>1, <2>2, TellsWhat
<1> QED BY <1>3

LEMMA AnsweredTold ==
    ASSUME Shown, NEW S \in SUBSET Nodes,
           events' = events \o <<Event("task_resumed", S), Event("node_succeeded", S)>>
    PROVE  \A n : Told(events', n) = IF n \in S THEN "succeeded" ELSE Told(events, n)
<1> DEFINE e1 == Event("task_resumed", S)
           e2 == Event("node_succeeded", S)
<1>1. /\ events \in Seq(EventRow) /\ e1 \in EventRow /\ e2 \in EventRow
      /\ e1.nodes = S /\ e2.nodes = S
      /\ e2.type = "node_succeeded"
  BY EventType DEF Event, EventTypes, Shown, Driven, Typed, TypeOK, RowsOK
<1>2. events' = events \o <<e1, e2>>
  OBVIOUS
<1> HIDE DEF e1, e2
<1>3. ASSUME NEW n PROVE Told(events', n) = IF n \in S THEN "succeeded" ELSE Told(events, n)
  <2>1. Told(events \o <<e1, e2>>, n) =
          IF n \in e2.nodes THEN Tells(e2.type)
          ELSE IF n \in e1.nodes THEN Tells(e1.type) ELSE Told(events, n)
    BY <1>1, ToldTwo
  <2>2. (n \in e1.nodes => n \in e2.nodes)
    BY <1>1
  <2> QED BY <1>1, <1>2, <2>1, <2>2, TellsWhat
<1> QED BY <1>3

LEMMA ClearedTold ==
    ASSUME Shown, NEW S \in SUBSET Nodes, NEW T \in SUBSET S,
           events' = events \o <<Event("node_rerun_started", T), Event("downstream_cleared", S)>>
    PROVE  \A n : Told(events', n) = IF n \in S THEN "cleared" ELSE Told(events, n)
<1> DEFINE e1 == Event("node_rerun_started", T)
           e2 == Event("downstream_cleared", S)
<1>1. /\ events \in Seq(EventRow) /\ e1 \in EventRow /\ e2 \in EventRow
      /\ e1.nodes = T /\ e2.nodes = S
      /\ e2.type = "downstream_cleared"
  BY EventType DEF Event, EventTypes, Shown, Driven, Typed, TypeOK, RowsOK
<1>2. events' = events \o <<e1, e2>>
  OBVIOUS
<1> HIDE DEF e1, e2
<1>3. ASSUME NEW n PROVE Told(events', n) = IF n \in S THEN "cleared" ELSE Told(events, n)
  <2>1. Told(events \o <<e1, e2>>, n) =
          IF n \in e2.nodes THEN Tells(e2.type)
          ELSE IF n \in e1.nodes THEN Tells(e1.type) ELSE Told(events, n)
    BY <1>1, ToldTwo
  <2>2. (n \in e1.nodes => n \in e2.nodes)
    BY <1>1
  <2> QED BY <1>1, <1>2, <2>1, <2>2, TellsWhat
<1> QED BY <1>3

----------------------------------------------------------------------------
LEMMA StillTold ==
    ASSUME Shown, Reported, Cells(execs') = Cells(execs),
           \A n \in Nodes : Told(events', n) = Told(events, n)
    PROVE  Reported'
BY DEF Reported

LEMMA MoveTold ==
    ASSUME Reported, NEW m \in Nodes, NEW c, c # "idle",
           Cells(execs') = [Cells(execs) EXCEPT ![m] = c],
           \A n \in Nodes : Told(events', n) = IF n = m THEN c ELSE Told(events, n)
    PROVE  Reported'
BY DEF Reported, Word, Cells

\* Events about no node tell nothing.
LEMMA NobodyTold ==
    ASSUME Shown, Reported, UNCHANGED execs, NEW type \in EventTypes,
           events' = Append(events, Event(type, {}))
    PROVE  Reported'
<1>1. \A n \in Nodes : Told(events', n) = Told(events, n)
  BY OneTold
<1> QED BY <1>1, StillTold

LEMMA AnswerTold ==
    ASSUME Telling, NEW r \in Requests, NEW v \in Outputs, Answer(r, v)
    PROVE  Reported'
<1>1. CASE UNCHANGED db
  BY <1>1 DEF db, Telling, Reported
<1>2. CASE ~UNCHANGED db
  <2>1. PICK i \in DOMAIN execs :
           /\ WaitingAt(execs, req[r].node) = {i}
           /\ execs' = [execs EXCEPT ![i].status = "succeeded", ![i].output = v]
           /\ events' = events \o <<Event("task_resumed", {req[r].node}),
                                    Event("node_succeeded", {req[r].node})>>
    BY <1>2 DEF Answer
  <2> DEFINE row == [execs[i] EXCEPT !.status = "succeeded", !.output = v]
  <2>2. execs[i] \in Execution /\ execs[i].status = "waiting" /\ execs[i].node = req[r].node
    BY <2>1, ElementOfSeq, LenProperties DEF WaitingAt, Telling, Shown, Driven, Typed, TypeOK, RowsOK
  <2>3. execs' = [execs EXCEPT ![i] = row] /\ row.node = execs[i].node /\ row.status = "succeeded"
    BY <2>1, <2>2 DEF Execution
  <2>4. Cells(execs') = [Cells(execs) EXCEPT ![row.node] = row.status]
    <3> HIDE DEF row
    <3> QED BY <2>2, <2>3, EditCells DEF Telling
  <2> DEFINE m == req[r].node
  <2>5. m \in Nodes /\ Cells(execs') = [Cells(execs) EXCEPT ![m] = "succeeded"]
    BY <2>2, <2>3, <2>4 DEF Execution
  <2>6. \A n : Told(events', n) = IF n \in {m} THEN "succeeded" ELSE Told(events, n)
    <3>1. events' = events \o <<Event("task_resumed", {m}), Event("node_succeeded", {m})>>
      BY <2>1
    <3>2. Shown /\ {m} \in SUBSET Nodes
      BY <2>5 DEF Telling
    <3> HIDE DEF m
    <3> QED BY <3>1, <3>2, AnsweredTold
  <2> HIDE DEF m
  <2> QED BY <2>5, <2>6, MoveTold DEF Telling
<1> QED BY <1>1, <1>2

LEMMA SubmitTold ==
    ASSUME Telling, NEW r \in Requests, Submit(r)
    PROVE  Reported'
<1> DEFINE i == mem[r].exec
           row == [execs[i] EXCEPT !.status = "running",
                     !.uses = Uses(req[r].node, mem[r].outs), !.fields = {}]
           m == req[r].node
<1>1. i \in DOMAIN execs /\ execs[i].status = "waiting" /\ execs[i].node = m
  BY DEF Submit, Telling, Shown, Driven, Remembers, HasRow, Named
<1>2. execs[i] \in Execution
  BY <1>1, ElementOfSeq, LenProperties DEF Telling, Shown, Driven, Typed, TypeOK, RowsOK
<1>3. execs' = [execs EXCEPT ![i] = row] /\ row.node = execs[i].node /\ row.status = "running"
  BY <1>1, <1>2 DEF Submit, Execution
<1>4. m \in Nodes /\ events' = Append(events, Event("task_resumed", {m}))
  BY <1>1, <1>2 DEF Submit, Execution
<1>5. Cells(execs') = [Cells(execs) EXCEPT ![m] = "running"]
  <2> HIDE DEF row, i
  <2>1. Cells(execs') = [Cells(execs) EXCEPT ![row.node] = row.status]
    BY <1>1, <1>3, EditCells DEF Telling
  <2> QED BY <1>1, <1>3, <2>1
<1>6. \A n : Told(events', n) = IF n \in {m} THEN "running" ELSE Told(events, n)
  <2>1. "task_resumed" \in EventTypes /\ {m} \in SUBSET Nodes
    BY <1>4 DEF EventTypes
  <2> HIDE DEF m
  <2> QED BY <1>4, <2>1, OneTold, TellsWhat DEF Telling
<1> HIDE DEF m
<1> QED BY <1>4, <1>5, <1>6, MoveTold DEF Telling

LEMMA MarksTold ==
    ASSUME Telling, NEW r \in Requests,
           MarkWaiting(r) \/ (\E v \in Outputs : MarkSucceeded(r, v)) \/ MarkFailed(r)
    PROVE  Reported'
<1> DEFINE i == mem[r].exec
           m == mem[r].node
<1>0. Shown
  BY DEF Telling
<1>1. i \in DOMAIN execs /\ execs[i].status = "running" /\ execs[i].node = m
  BY DEF MarkWaiting, MarkSucceeded, MarkFailed, Telling, Shown, Driven, Remembers, HasRow, Named
<1>2. execs[i] \in Execution /\ events \in Seq(EventRow)
  BY <1>1, ElementOfSeq, LenProperties DEF Telling, Shown, Driven, Typed, TypeOK, RowsOK
<1>3. m \in Nodes
  BY <1>1, <1>2 DEF Execution
<1>4. {m} \in SUBSET Nodes
  BY <1>3
<1>5. ASSUME NEW row, execs' = [execs EXCEPT ![i] = row], row.node = execs[i].node,
             row.status \in {"waiting", "succeeded", "failed"}
      PROVE  Cells(execs') = [Cells(execs) EXCEPT ![m] = row.status]
  <2> HIDE DEF i
  <2>1. Cells(execs') = [Cells(execs) EXCEPT ![row.node] = row.status]
    BY <1>1, <1>5, EditCells DEF Telling
  <2> QED BY <1>1, <1>5, <2>1
<1>6. CASE MarkWaiting(r)
  <2> DEFINE row == [execs[i] EXCEPT !.status = "waiting", !.form = (pc[r] = "ask")]
  <2>1. execs' = [execs EXCEPT ![i] = row]
    BY <1>6 DEF MarkWaiting
  <2>2. row.node = execs[i].node /\ row.status = "waiting"
    BY <1>2 DEF Execution
  <2>3. events' = events \o <<Event("node_waiting", {m}), Event("human_input_requested", {m}),
                             Event("task_waiting", {m})>>
    BY <1>6 DEF MarkWaiting
  <2> HIDE DEF row, i, m
  <2>4. Cells(execs') = [Cells(execs) EXCEPT ![m] = "waiting"]
    BY <1>5, <2>1, <2>2
  <2>5. \A n : Told(events', n) = IF n \in {m} THEN "waiting" ELSE Told(events, n)
    BY <1>0, <1>4, <2>3, WaitingTold
  <2> QED BY <1>3, <2>4, <2>5, MoveTold DEF Telling
<1>7. CASE \E v \in Outputs : MarkSucceeded(r, v)
  <2>1. PICK v \in Outputs : MarkSucceeded(r, v)
    BY <1>7
  <2> DEFINE row == [execs[i] EXCEPT !.status = "succeeded", !.output = v, !.form = FALSE]
  <2>2. execs' = [execs EXCEPT ![i] = row] /\ events' = Append(events, Event("node_succeeded", {m}))
    BY <2>1 DEF MarkSucceeded
  <2>3. row.node = execs[i].node /\ row.status = "succeeded"
    BY <1>2 DEF Execution
  <2> HIDE DEF row, i, m
  <2>4. Cells(execs') = [Cells(execs) EXCEPT ![m] = "succeeded"]
    BY <1>5, <2>2, <2>3
  <2>5. \A n : Told(events', n) = IF n \in {m} THEN "succeeded" ELSE Told(events, n)
    <3>1. "node_succeeded" \in EventTypes
      BY DEF EventTypes
    <3> QED BY <1>4, <2>2, <3>1, OneTold, TellsWhat DEF Telling
  <2> QED BY <1>3, <2>4, <2>5, MoveTold DEF Telling
<1>8. CASE MarkFailed(r)
  <2> DEFINE row == [execs[i] EXCEPT !.status = "failed"]
  <2>1. /\ execs' = [execs EXCEPT ![i] = row]
        /\ events' = events \o <<Event("node_failed", {m}), Event("task_failed", {m})>>
    BY <1>8 DEF MarkFailed
  <2>2. row.node = execs[i].node /\ row.status = "failed"
    BY <1>2 DEF Execution
  <2> HIDE DEF row, i, m
  <2>3. Cells(execs') = [Cells(execs) EXCEPT ![m] = "failed"]
    BY <1>5, <2>1, <2>2
  <2>4. \A n : Told(events', n) = IF n \in {m} THEN "failed" ELSE Told(events, n)
    BY <1>0, <1>4, <2>1, FailedTold
  <2> QED BY <1>3, <2>3, <2>4, MoveTold DEF Telling
<1> QED BY <1>6, <1>7, <1>8

LEMMA StartTold ==
    ASSUME Telling, NEW r \in Requests, StartNode(r)
    PROVE  Reported'
<1> DEFINE m == mem[r].node
           row == [node |-> m, attempt |-> mem[r].attempt, status |-> "running",
                   form |-> FALSE, output |-> NoOutput,
                   uses |-> Uses(m, mem[r].outs), fields |-> {}]
<1>1. /\ m \in mem[r].todo /\ mem[r].todo \cap StartedNodes(execs) = {}
      /\ execs \in Seq(Execution) /\ events \in Seq(EventRow) /\ mem[r] \in Locals
  BY DEF StartNode, Telling, Shown, Driven, Remembers, Typed, TypeOK, RowsOK, RequestsOK
<1>2. /\ execs' = Append(execs, row) /\ row.node = m /\ row.status = "running"
      /\ events' = Append(events, Event("node_started", {m}))
  BY DEF StartNode
<1>3. m \in Nodes
  BY <1>1 DEF Locals
<1>4. Single(execs')
  BY HandleDriven DEF Handle, Telling, Shown, Driven, OneCurrentExecution, Single
<1> HIDE DEF row, m
<1>5. Cells(execs') = [Cells(execs) EXCEPT ![m] = "running"]
  <2>1. row.node \notin StartedNodes(execs) /\ row.status # "superseded"
    BY <1>1, <1>2
  <2>2. Cells(execs') = [Cells(execs) EXCEPT ![row.node] = row.status]
    BY <1>1, <1>2, <1>4, <2>1, RowShown, Zenon
  <2> QED BY <1>2, <2>2
<1>6. \A n : Told(events', n) = IF n \in {m} THEN "running" ELSE Told(events, n)
  <2>1. "node_started" \in EventTypes /\ {m} \in SUBSET Nodes
    BY <1>3 DEF EventTypes
  <2>2. \A n : Told(events', n) = IF n \in {m} THEN Tells("node_started") ELSE Told(events, n)
    BY <1>2, <2>1, OneTold, Zenon DEF Telling
  <2> QED BY <2>2, TellsWhat
<1> QED BY <1>3, <1>5, <1>6, MoveTold DEF Telling

LEMMA ClearTold ==
    ASSUME Telling, NEW r \in Requests, ClearDownstream(r)
    PROVE  Reported'
<1> DEFINE m == req[r].node
           S == Affected(m)
<1>1. /\ execs \in Seq(Execution) /\ events \in Seq(EventRow) /\ Single(execs) /\ m \in Nodes
      /\ mem[r].doomed = CurrentRows(execs, S)
  BY DEF ClearDownstream, Telling, Shown, Driven, Typed, TypeOK, RowsOK, OneCurrentExecution, Single, Knows
<1>2. S \in SUBSET Nodes /\ m \in S
  BY <1>1 DEF Affected, Downstream
<1>3. execs' = [i \in DOMAIN execs |-> IF i \in CurrentRows(execs, Affected(m))
                  THEN [execs[i] EXCEPT !.status = "superseded"] ELSE execs[i]]
  BY <1>1 DEF ClearDownstream
<1>4. events' = events \o <<Event("node_rerun_started", {m}), Event("downstream_cleared", S)>>
  BY DEF ClearDownstream
<1>5. Cells(execs') = [n \in Nodes |-> IF n \in Affected(m) THEN "idle" ELSE Cells(execs)[n]]
  BY <1>1, <1>2, <1>3, RowsDropped
<1> HIDE DEF m
<1>6. \A n : Told(events', n) = IF n \in S THEN "cleared" ELSE Told(events, n)
  <2> HIDE DEF S
  <2>1. Shown /\ {m} \in SUBSET S
    BY <1>2 DEF Telling
  <2> QED BY <1>2, <1>4, <2>1, ClearedTold
<1> QED BY <1>5, <1>6 DEF Telling, Reported, Word

\* The event of a draft says what the row already said: it waits.
LEMMA DraftTold ==
    ASSUME Telling, NEW r \in Requests, CommitDraft(r)
    PROVE  Reported'
<1>1. Cells(execs') = Cells(execs)
  BY AsideSteps, RowsAlike DEF Aside, Telling, Shown
<1>2. CASE UNCHANGED db
  BY <1>1, <1>2, StillTold DEF db, Telling
<1>3. CASE ~UNCHANGED db
  <2> DEFINE m == req[r].node
  <2>1. PICK i \in DOMAIN execs :
           WaitingAt(execs, m) = {i} /\ events' = Append(events, Event("node_draft_saved", {m}))
    BY <1>3 DEF CommitDraft
  <2>2. /\ execs[i] \in Execution /\ events \in Seq(EventRow) /\ Single(execs)
        /\ execs[i].status = "waiting" /\ execs[i].node = m
    BY <2>1, ElementOfSeq, LenProperties
       DEF WaitingAt, Telling, Shown, Driven, Typed, TypeOK, RowsOK, OneCurrentExecution, Single
  <2>3. m \in Nodes /\ Live(execs, i)
    BY <2>2 DEF Execution, Live
  <2> HIDE DEF m
  <2>4. Cells(execs)[m] = "waiting"
    BY <2>2, <2>3, CellIs DEF Cells
  <2>5. Told(events, m) = "waiting"
    BY <2>3, <2>4 DEF Telling, Reported, Word
  <2>6. "node_draft_saved" \in EventTypes /\ {m} \in SUBSET Nodes
    BY <2>3 DEF EventTypes
  <2>7. \A n : Told(events', n) = IF n \in {m} THEN "waiting" ELSE Told(events, n)
    <3>1. \A n : Told(events', n) = IF n \in {m} THEN Tells("node_draft_saved") ELSE Told(events, n)
      BY <2>1, <2>6, OneTold, Zenon DEF Telling
    <3> QED BY <3>1, TellsWhat
  <2>8. \A n : Told(events', n) = Told(events, n)
    BY <2>5, <2>7
  <2> QED BY <1>1, <2>8, StillTold DEF Telling
<1> QED BY <1>2, <1>3

----------------------------------------------------------------------------
(* The steps keep it so.                                                      *)

NamedPlaces == {"ask", "run", "run input", "load input", "submit"}

LEMMA NamedElsewhere ==
    ASSUME NEW r \in Requests, pc'[r] \notin NamedPlaces
    PROVE  Named(r)'
BY DEF Named, NamedPlaces

LEMMA NamedStill ==
    ASSUME Driven, NEW r \in Requests, Named(r), SameRows,
           pc'[r] = pc[r], mem'[r] = mem[r], req'[r] = req[r]
    PROVE  Named(r)'
<1>1. CASE pc[r] \in NamedPlaces
  <2>1. mem[r].exec \in DOMAIN execs
    BY <1>1 DEF Driven, Remembers, HasRow, NamedPlaces
  <2> QED BY <2>1 DEF Named, SameRows
<1>2. CASE pc[r] \notin NamedPlaces
  BY <1>2, NamedElsewhere
<1> QED BY <1>1, <1>2

LEMMA HandleNamed ==
    ASSUME Telling, NEW r \in Requests, Handle(r)
    PROVE  \A q \in Requests : Named(q)'
<1>0. /\ Driven /\ Typed /\ mem \in [Requests -> Locals] /\ execs \in Seq(Execution)
      /\ UNCHANGED req /\ NamedPlaces \subseteq DriverPlaces
  BY HandleMoves, DriverPlacesAre
     DEF Telling, Shown, Driven, Typed, TypeOK, RequestsOK, RowsOK, NamedPlaces
<1>1. CASE Aside(r)
  <2>1. Named(r)'
    BY <1>0, <1>1, AsideSteps, NamedElsewhere
  <2>2. \A q \in Requests \ {r} : Named(q)'
    BY <1>0, <1>1, AsideSteps, NamedStill DEF Telling
  <2> QED BY <2>1, <2>2
<1>2. CASE ~Aside(r)
  <2>1. \A q \in Requests \ {r} : Named(q)'
    BY <1>0, <1>2, DriverSteps, NamedElsewhere
  <2>2. CASE FindWaiting(r)
    <3>1. CASE Return(r)
      <4>1. pc'[r] = "done"
        BY <1>0, <3>1, Went DEF Return
      <4> QED BY <2>1, <4>1 DEF Named
    <3>2. CASE ~Return(r)
      <4> DEFINE found == WaitingAt(execs, req[r].node)
      <4>1. found # {} /\ UNCHANGED execs /\ mem'[r].exec = Latest(found)
        BY <1>0, <2>2, <3>2 DEF FindWaiting, Locals, db
      <4>2. pc'[r] \in {"load input", "answer"}
        BY <1>0, <2>2, <3>2, Went DEF FindWaiting
      <4>3. Latest(found) \in found
        <5>1. Len(execs) \in Nat /\ found \in SUBSET (1..Len(execs))
          BY <1>0, LenProperties DEF WaitingAt
        <5> HIDE DEF found
        <5> QED BY <4>1, <5>1, LatestFound
      <4>4. execs[Latest(found)].node = req[r].node
        BY <4>3 DEF WaitingAt
      <4> HIDE DEF found
      <4>5. Named(r)'
        BY <1>0, <4>1, <4>2, <4>4 DEF Named
      <4> QED BY <2>1, <4>5
    <3> QED BY <3>1, <3>2
  <2>3. CASE LoadInput(r)
    <3>1. CASE pc'[r] = "submit"
      <4>1. pc[r] = "load input" /\ UNCHANGED execs /\ mem'[r].exec = mem[r].exec
        <5>1. ~Return(r)
          BY <1>0, <3>1, Went DEF Return
        <5> QED BY <1>0, <2>3, <5>1 DEF LoadInput, Locals, db
      <4>2. Named(r)'
        BY <1>0, <3>1, <4>1 DEF Named, Telling
      <4> QED BY <2>1, <4>2
    <3>2. CASE pc'[r] # "submit"
      <4>1. pc'[r] = "done"
        BY <1>0, <2>3, <3>2, Went DEF LoadInput, Return
      <4> QED BY <2>1, <4>1 DEF Named
    <3> QED BY <3>1, <3>2
  <2>4. CASE Submit(r)
    <3>1. pc'[r] = "run input" /\ mem'[r].exec = mem[r].exec /\ mem'[r].node = req[r].node
      BY <1>0, <2>4, Went DEF Submit, NoMem
    <3>2. mem[r].exec \in DOMAIN execs /\ execs[mem[r].exec].node = req[r].node
      BY <1>0, <2>4 DEF Submit, Telling, Named, Remembers, HasRow, Driven
    <3>3. execs'[mem[r].exec].node = execs[mem[r].exec].node
      BY <1>0, <3>2, HandleDriven DEF HistoryStep
    <3> QED BY <2>1, <3>1, <3>2, <3>3 DEF Named
  <2>5. CASE StartNode(r)
    <3>1. /\ pc'[r] \in {"ask", "run"}
          /\ mem'[r].exec = Len(execs) + 1 /\ mem'[r].node = mem[r].node
      BY <1>0, <2>5, Went DEF StartNode, Locals
    <3>2. execs'[Len(execs) + 1].node = mem[r].node
      <4> DEFINE row == [node |-> mem[r].node, attempt |-> mem[r].attempt, status |-> "running",
                         form |-> FALSE, output |-> NoOutput,
                         uses |-> Uses(mem[r].node, mem[r].outs), fields |-> {}]
      <4>1. execs' = Append(execs, row) /\ row.node = mem[r].node
        BY <2>5 DEF StartNode
      <4> HIDE DEF row
      <4>2. Append(execs, row)[Len(execs) + 1] = row
        BY <1>0, LenProperties, AppendProperties
      <4> QED BY <4>1, <4>2
    <3> QED BY <2>1, <3>1, <3>2 DEF Named
  <2>6. CASE \/ (\E v \in Outputs : Answer(r, v)) \/ ReadExecutions(r) \/ LoadOutputs(r)
             \/ ResolveInputs(r) \/ LookAgain(r) \/ FinishRead(r) \/ FinishTask(r)
             \/ FailRead(r) \/ FailTask(r) \/ FindCurrent(r) \/ ClearRead(r) \/ ClearDownstream(r)
    <3>1. pc'[r] \in {"done", "continue", "load outputs", "resolve", "insert", "finish",
                      "finish commit", "fail", "fail commit", "clear", "clear commit"}
      BY <1>0, <2>6, Went
         DEF Answer, ReadExecutions, LoadOutputs, Idle, ResolveInputs, LookAgain, FinishRead,
             FinishTask, FailRead, FailTask, FindCurrent, ClearRead, ClearDownstream, ReadView, Return, Raise
    <3> QED BY <2>1, <3>1 DEF Named
  <2>7. CASE MarkWaiting(r) \/ (\E v \in Outputs : MarkSucceeded(r, v)) \/ MarkFailed(r)
    <3>1. pc'[r] \in {"done", "look", "continue"}
      BY <1>0, <2>7, Went DEF MarkWaiting, MarkSucceeded, MarkFailed, AfterMark
    <3> QED BY <2>1, <3>1 DEF Named
  <2> QED BY <1>2, <2>2, <2>3, <2>4, <2>5, <2>6, <2>7 DEF Handle, Aside
<1> QED BY <1>1, <1>2

LEMMA HandleTold ==
    ASSUME Telling, NEW r \in Requests, Handle(r)
    PROVE  Reported'
<1>1. CASE UNCHANGED <<execs, events>>
  BY <1>1 DEF Telling, Reported
<1>2. CASE FinishTask(r) \/ FailTask(r) \/ ArchiveTask(r)
  <2>1. \E type \in {"task_succeeded", "task_failed", "task_archived"} :
           events' = Append(events, Event(type, {}))
    BY <1>2 DEF FinishTask, FailTask, ArchiveTask
  <2>2. UNCHANGED execs
    BY <1>2 DEF FinishTask, FailTask, ArchiveTask
  <2>3. {"task_succeeded", "task_failed", "task_archived"} \subseteq EventTypes
    BY DEF EventTypes
  <2> QED BY <2>1, <2>2, <2>3, NobodyTold DEF Telling
<1> QED BY <1>1, <1>2, AnswerTold, SubmitTold, StartTold, MarksTold, ClearTold, DraftTold
        DEF Handle, FindWaiting, LoadInput, ReadExecutions, LoadOutputs, ResolveInputs,
            LookAgain, FinishRead, FailRead, FindCurrent, ClearRead, ReadView, MergeDraft, ArchiveRead, db

LEMMA CallTold ==
    ASSUME Telling, Drivers \subseteq Exclusive, NEW r \in Requests, Call(r)
    PROVE  Reported' /\ \A q \in Requests : Named(q)'
<1>1. /\ UNCHANGED execs
      /\ \A q \in Requests : pc'[q] \in DriverPlaces /\ q # r => pc'[q] = pc[q] /\ mem'[q] = mem[q]
      /\ pc'[r] \in {"continue", "find waiting", "find draft", "find current", "archive"}
  BY AloneCall DEF Telling, Shown, Driven
<1>2. \A q \in Requests : q # r => req'[q] = req[q]
  BY DEF Call, CreateTask, ResumeTask, RerunNode, SaveDraft, DeleteTask, Arrive,
         Telling, Shown, Driven, Typed, TypeOK, RequestsOK
<1>3. ASSUME NEW q \in Requests PROVE Named(q)'
  <2>1. CASE q = r
    BY <1>1, <2>1, NamedElsewhere DEF NamedPlaces
  <2>2. CASE q # r /\ pc'[q] \in DriverPlaces
    BY <1>1, <1>2, <2>2, NamedStill DEF Telling, Shown, SameRows
  <2>3. CASE pc'[q] \notin DriverPlaces
    BY <2>3, NamedElsewhere, DriverPlacesAre DEF NamedPlaces
  <2> QED BY <2>1, <2>2, <2>3
<1>4. CASE CreateTask(r)
  <2> DEFINE e1 == Event("task_created", {})
             e2 == Event("task_started", {})
  <2>1. /\ events \in Seq(EventRow) /\ e1 \in EventRow /\ e2 \in EventRow
        /\ e1.nodes = {} /\ e2.nodes = {}
    BY EventType DEF Event, EventTypes, Telling, Shown, Driven, Typed, TypeOK, RowsOK
  <2>2. events' = events \o <<e1, e2>>
    BY <1>4 DEF CreateTask
  <2> HIDE DEF e1, e2
  <2>3. ASSUME NEW n PROVE Told(events', n) = Told(events, n)
    <3>1. Told(events \o <<e1, e2>>, n) =
            IF n \in e2.nodes THEN Tells(e2.type)
            ELSE IF n \in e1.nodes THEN Tells(e1.type) ELSE Told(events, n)
      BY <2>1, ToldTwo
    <3> QED BY <2>1, <2>2, <3>1
  <2> QED BY <1>1, <1>3, <2>3, StillTold DEF Telling
<1>5. CASE ~CreateTask(r)
  <2>1. UNCHANGED events
    BY <1>5 DEF Call, ResumeTask, RerunNode, SaveDraft, DeleteTask, db
  <2> QED BY <1>1, <1>3, <2>1 DEF Telling, Reported
<1> QED BY <1>4, <1>5

LEMMA TellingStep ==
    ASSUME Drivers \subseteq Exclusive, Telling, [Next \/ Crash]_vars
    PROVE  Telling'
<1>1. Shown'
  BY ShownStep DEF Telling
<1>2. CASE Next
  BY <1>1, <1>2, HandleTold, HandleNamed, CallTold DEF Next, Telling
<1>3. CASE Crash
  <2>1. UNCHANGED <<execs, events>> /\ \A r \in Requests : pc'[r] \in {"new", "done"}
    BY <1>3 DEF Crash, InFlight, Telling, Shown, Driven, Typed, TypeOK, RequestsOK
  <2>2. \A r \in Requests : Named(r)'
    BY <2>1, NamedElsewhere DEF NamedPlaces
  <2> QED BY <1>1, <2>1, <2>2 DEF Telling, Reported
<1>4. CASE UNCHANGED vars
  BY <1>1, <1>4 DEF vars, Telling, Reported, Named
<1> QED BY <1>2, <1>3, <1>4

LEMMA TellingInit == Init => Telling
<1> SUFFICES ASSUME Init PROVE Telling
  OBVIOUS
<1>1. Shown
  BY KnowsInit
<1>2. \A n \in Nodes : Cells(execs)[n] = "idle" /\ Told(events, n) = "cleared"
  BY DEF Init, Cells, Cell, CurrentAt, Told
<1>3. \A r \in Requests : Named(r)
  BY DEF Init, Named
<1> QED BY <1>1, <1>2, <1>3 DEF Telling, Reported, Word

LEMMA TellingTells == Telling => EventsTellTheRows
<1> SUFFICES ASSUME Telling, NEW n \in Nodes
    PROVE LET about == {k \in DOMAIN events : n \in events[k].nodes}
              current == {i \in DOMAIN execs : execs[i].node = n /\ Live(execs, i)}
              told == IF about = {} THEN "cleared" ELSE Tells(events[Latest(about)].type)
          IN  /\ current = {} => told = "cleared"
              /\ \A i \in current : execs[i].status = told
  BY DEF EventsTellTheRows
<1> DEFINE current == {i \in DOMAIN execs : execs[i].node = n /\ Live(execs, i)}
<1>1. Told(events, n) = Word(Cell(execs, n))
  BY DEF Telling, Reported, Cells
<1>2. current = {} => Told(events, n) = "cleared"
  BY <1>1 DEF Cell, CurrentAt, Word
<1>3. ASSUME NEW i \in current PROVE execs[i].status = Told(events, n)
  <2>1. Single(execs) /\ execs[i] \in Execution
    BY ElementOfSeq, LenProperties
       DEF Telling, Shown, Driven, Typed, TypeOK, RowsOK, OneCurrentExecution, Single
  <2>2. Cell(execs, n) = execs[i].status
    BY <2>1, CellIs
  <2>3. execs[i].status # "idle"
    BY <2>1 DEF Execution, ExecStatuses
  <2> QED BY <1>1, <2>2, <2>3 DEF Word
<1> QED BY <1>2, <1>3 DEF Told

\* As long as callers make one driving request at a time, the events tell the
\* rows: whatever drafts, deletions and crashes come in between, the last event
\* about a node gives the status of its current execution.
THEOREM EventsAlwaysTellTheRows ==
    ASSUME Drivers \subseteq Exclusive
    PROVE  CrashSpec => []EventsTellTheRows
<1>1. Init => Telling
  BY TellingInit
<1>2. Telling /\ [Next \/ Crash]_vars => Telling'
  BY TellingStep
<1>3. Telling => EventsTellTheRows
  BY TellingTells
<1> QED BY <1>1, <1>2, <1>3, PTL DEF CrashSpec
=============================================================================
