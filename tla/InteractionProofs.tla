-------------------------- MODULE InteractionProofs --------------------------
(* No draft loses what another saved: the input of a question that waits is   *)
(* what the events say was saved, for any number of nodes, requests and       *)
(* questions, as long as nothing happens to a node between the read of its    *)
(* input and the write.  And the events of an interaction tell one story,     *)
(* which has an end, whatever overlaps.                                       *)
EXTENDS TaskInteraction, TLAPS

CallsAssumption == Calls \subseteq [route : Routes, node : Nodes, value : Values]

----------------------------------------------------------------------------
(* The last event that set a key of a node's input.                           *)

Sets(e, n, k) == e.node = n /\ <<e.type, e.key>> \in {<<"asked", None>>, <<"saved", k>>}
Setters(l, n, k) == {i \in 1..Len(l) : Sets(l[i], n, k)}
Latest(S) == CHOOSE i \in S : \A j \in S : i >= j
LastIn(l, n, k) ==
    LET i == IF Setters(l, n, k) # {} THEN Latest(Setters(l, n, k)) ELSE 0
    IN  IF i = 0 THEN None ELSE l[i].value
HasLast(l, n, k) == \E i \in Setters(l, n, k) : \A j \in Setters(l, n, k) : i >= j

----------------------------------------------------------------------------
(* The inductive invariant.                                                   *)

Places == {"idle", "check", "record", "look", "run", "read_draft", "write_draft",
           "raised", "returned", "cancelled"}
Events == [type : {"started", "succeeded", "failed", "saved"} \cup TaskTypes,
           node : Nodes \cup {None}, by : Requests \cup {None}, key : Keys \cup {None},
           value : Values \cup {None}]

\* The value saved under each key of a node's input.
Inputs == [Keys -> Values \cup {None}]

WellTyped ==
    /\ log \in Seq(Events)
    /\ open \subseteq Nodes
    /\ snapshot \in [Nodes -> Inputs]
    /\ DOMAIN req = Requests

Working == {"check", "record", "look", "run", "read_draft", "write_draft"}

\* What a request remembers; once it is called it is about a node.
Request == [pc : Places, route : Routes, node : Nodes \cup {None}, value : Values \cup {None},
            calls : Int, read : Inputs, since : Nat, next : {"started", "run", "succeeded", "failed", None}]
Sound(q) ==
    /\ q \in Request
    /\ q.pc \in Working => q.node \in Nodes /\ q.value \in Values
    /\ q.pc \in {"check", "record"} => q.next \in {"started", "succeeded", "failed"}

\* A request about to write to a node that waits has read the input there is, and
\* no other is about to write that node's.
Alone ==
    /\ \A r \in Requests : At(r, "write_draft") => req[r].read = snapshot[req[r].node]
    /\ \A r, o \in Requests :
          At(r, "write_draft") /\ At(o, "write_draft") /\ req[r].node = req[o].node => r = o

\* The question itself is an event that sets every key, so there is a last one.
Asked == \A n \in open, k \in Keys : HasLast(log, n, k)

Merged == WellTyped /\ (\A r \in Requests : Sound(req[r])) /\ Alone /\ Asked /\ DraftsKept

----------------------------------------------------------------------------
(* The last event that set a key, after an event is appended.                 *)

LEMMA LastSavedIs ==
    ASSUME NEW n, NEW k
    PROVE  LastSaved(n, k) = LastIn(log, n, k) /\ LastSaved(n, k)' = LastIn(log', n, k)
BY DEF LastSaved, SelectLastInSeq, Max, Setters, Sets, Latest, LastIn

\* An event that sets the key is the last that does.
LEMMA Setting ==
    ASSUME NEW l \in Seq(Events), NEW e \in Events, NEW n, NEW k, Sets(e, n, k)
    PROVE  HasLast(Append(l, e), n, k) /\ LastIn(Append(l, e), n, k) = e.value
<1> DEFINE m == Append(l, e)
<1>1. Len(m) = Len(l) + 1 /\ Len(l) \in Nat /\ m[Len(m)] = e
    OBVIOUS
<1>2. Len(m) \in Setters(m, n, k)
    BY <1>1 DEF Setters
<1>3. \A j \in Setters(m, n, k) : Len(m) >= j /\ j \in Int
    BY <1>1 DEF Setters
<1>4. Latest(Setters(m, n, k)) = Len(m)
    BY <1>1, <1>2, <1>3 DEF Latest
<1> QED
    BY <1>1, <1>2, <1>3, <1>4 DEF LastIn, HasLast

\* Another event changes nothing.
LEMMA NotSetting ==
    ASSUME NEW l \in Seq(Events), NEW e \in Events, NEW n, NEW k, ~Sets(e, n, k), HasLast(l, n, k)
    PROVE  HasLast(Append(l, e), n, k) /\ LastIn(Append(l, e), n, k) = LastIn(l, n, k)
<1> DEFINE m == Append(l, e)
<1>1. Len(m) = Len(l) + 1 /\ Len(l) \in Nat /\ m[Len(m)] = e /\ \A i \in 1..Len(l) : m[i] = l[i]
    OBVIOUS
<1>2. Setters(m, n, k) = Setters(l, n, k)
    BY <1>1 DEF Setters
<1>3. Setters(l, n, k) # {} /\ Latest(Setters(l, n, k)) \in Setters(l, n, k)
    BY DEF HasLast, Latest
<1> QED
    BY <1>1, <1>2, <1>3 DEF LastIn, Setters, HasLast

----------------------------------------------------------------------------
(* Steps that leave the input of every node that waits as it was.             *)

\* The log grows by at most an event that sets nothing.
Quiet ==
    /\ snapshot' = snapshot /\ open' \subseteq open
    /\ \/ log' = log
       \/ \E e \in Events : log' = Append(log, e) /\ \A n \in open', k \in Keys : ~Sets(e, n, k)

LEMMA QuietKeeps ==
    ASSUME WellTyped, Asked, DraftsKept, Quiet
    PROVE  log' \in Seq(Events) /\ Asked' /\ DraftsKept'
<1>1. CASE log' = log
    BY <1>1, LastSavedIs DEF Quiet, WellTyped, Asked, DraftsKept
<1>2. ASSUME NEW e \in Events, log' = Append(log, e), \A n \in open', k \in Keys : ~Sets(e, n, k)
      PROVE  log' \in Seq(Events) /\ Asked' /\ DraftsKept'
    <2>1. log' \in Seq(Events)
        BY <1>2 DEF WellTyped
    <2>2. ASSUME NEW n \in open', NEW k \in Keys
          PROVE  HasLast(log', n, k) /\ snapshot'[n][k] = LastSaved(n, k)'
        <3>1. HasLast(log, n, k) /\ n \in open /\ snapshot[n][k] = LastIn(log, n, k)
            BY LastSavedIs DEF Quiet, Asked, DraftsKept
        <3>2. HasLast(log', n, k) /\ LastIn(log', n, k) = LastIn(log, n, k)
            BY <1>2, <3>1, NotSetting DEF WellTyped
        <3> QED
            BY <3>1, <3>2, LastSavedIs DEF Quiet
    <2> QED
        BY <2>1, <2>2 DEF Asked, DraftsKept
<1> QED
    BY <1>1, <1>2 DEF Quiet

----------------------------------------------------------------------------
(* A request that moves on, but not to a write.                               *)

LEMMA Moves ==
    ASSUME Merged, Quiet, open' = open, NEW r \in Requests, NEW q, Set(r, q),
           Sound(q), q.pc # "write_draft"
    PROVE  Merged'
<1>1. /\ DOMAIN req' = Requests /\ req'[r] = q
      /\ \A o \in Requests \ {r} : req'[o] = req[o]
    BY DEF Merged, WellTyped, Set
<1>2. log' \in Seq(Events) /\ Asked' /\ DraftsKept'
    BY QuietKeeps DEF Merged
<1>3. WellTyped'
    BY <1>1, <1>2 DEF Merged, WellTyped, Quiet
<1>4. \A o \in Requests : Sound(req'[o])
    BY <1>1 DEF Merged
<1>5. Alone'
    BY <1>1 DEF Merged, Alone, At, Quiet
<1> QED
    BY <1>2, <1>3, <1>4, <1>5 DEF Merged

LEMMA RouteFacts ==
    /\ \A route \in Routes : route.key \in Keys /\ route.calls \in Int
    /\ Blank \in Request /\ Draft \in Routes
<1>1. \A route \in Routes : route.key \in Keys /\ route.calls \in Int
    BY InteractionAssumption DEF Routes, Keys, AssetDraft, AssetImage, PanelImage, PanelPrompt, Draft
<1>2. Draft \in Routes /\ [k \in Keys |-> None] \in Inputs
    BY DEF Routes, Inputs
<1> QED
    BY <1>1, <1>2 DEF Blank, Request, Places

LEMMA FinishMoves ==
    ASSUME Merged, Quiet, open' = open, NEW r \in Requests,
           NEW how \in {"raised", "returned", "cancelled"}, Finish(r, how)
    PROVE  Merged'
<1> DEFINE q == [Blank EXCEPT !.pc = how, !.since = req[r].since]
<1>1. q.pc = how /\ q \in Request
    BY RouteFacts DEF Request, Places, Merged, Sound
<1>2. Sound(q)
    BY <1>1 DEF Sound, Working
<1> HIDE DEF q
<1>3. Set(r, q)
    BY DEF Finish, q
<1> QED
    BY <1>1, <1>2, <1>3, Moves

\* A request that works on what it was called for.
Same(q, p) == q.node = p.node /\ q.value = p.value /\ q.route = p.route /\ q.since = p.since

LEMMA Remains ==
    ASSUME NEW p, Sound(p), p.pc \in Working, NEW q \in Request, Same(q, p),
           q.pc \in {"check", "record"} => q.next \in {"started", "succeeded", "failed"}
    PROVE  Sound(q)
BY DEF Sound, Same

LEMMA GotoMoves ==
    ASSUME Merged, Quiet, open' = open, NEW r \in Requests, req[r].pc \in Working,
           NEW pc \in {"record", "run", "read_draft", "check"}, Goto(r, pc),
           pc \in {"record", "check"} => req[r].next \in {"started", "succeeded", "failed"}
    PROVE  Merged'
<1> DEFINE q == [req[r] EXCEPT !.pc = pc]
<1>1. req[r] \in Request /\ Sound(req[r])
    BY DEF Merged, Sound
<1>2. q.pc = pc /\ q \in Request /\ Same(q, req[r]) /\ q.next = req[r].next
    BY <1>1 DEF Request, Places, Same
<1> HIDE DEF q
<1>3. Sound(q)
    BY <1>1, <1>2, Remains
<1>4. Set(r, q)
    BY DEF Goto, q
<1> QED
    BY <1>2, <1>3, <1>4, Moves

\* The request goes to record an event.
LEMMA CheckMoves ==
    ASSUME Merged, Quiet, open' = open, NEW r \in Requests, req[r].pc \in Working,
           NEW next \in {"succeeded", "failed"}, Set(r, [req[r] EXCEPT !.pc = "check", !.next = next])
    PROVE  Merged'
<1> DEFINE q == [req[r] EXCEPT !.pc = "check", !.next = next]
<1>1. req[r] \in Request /\ Sound(req[r])
    BY DEF Merged, Sound
<1>2. q.pc = "check" /\ q \in Request /\ Same(q, req[r]) /\ q.next = next
    BY <1>1 DEF Request, Places, Same
<1>3. Set(r, q)
    OBVIOUS
<1> HIDE DEF q
<1>4. Sound(q)
    BY <1>1, <1>2, Remains
<1> QED
    BY <1>2, <1>3, <1>4, Moves

LEMMA RaisedMoves ==
    ASSUME Merged, Quiet, open' = open, NEW r \in Requests, req[r].pc \in Working, Raised(r)
    PROVE  Merged'
BY FinishMoves, CheckMoves DEF Raised

LEMMA SavedMoves ==
    ASSUME Merged, Quiet, open' = open, NEW r \in Requests, req[r].pc \in Working, Saved(r)
    PROVE  Merged'
BY FinishMoves, CheckMoves DEF Saved

----------------------------------------------------------------------------
(* The steps.                                                                 *)

LEMMA RowsQuiet == ASSUME Merged, UNCHANGED rows PROVE Quiet /\ open' = open
BY DEF rows, Quiet

\* What a request remembers when it is called.
Called(c) ==
    [Blank EXCEPT !.since = Len(log), !.route = c.route, !.node = c.node,
                  !.value = c.value, !.calls = c.route.calls, !.next = "started",
                  !.pc = IF c.route = Draft THEN "read_draft" ELSE "check"]

LEMMA CalledFacts ==
    ASSUME CallsAssumption, WellTyped, NEW c \in Calls, NEW q, q = Called(c)
    PROVE  /\ Sound(q) /\ q.pc = (IF c.route = Draft THEN "read_draft" ELSE "check")
           /\ q.node = c.node /\ q.next = "started" /\ q.since = Len(log) /\ q.route = c.route
           /\ Len(log) \in Nat
<1>1. /\ c.route \in Routes /\ c.node \in Nodes /\ c.value \in Values
      /\ c.route.calls \in Int /\ Len(log) \in Nat
    BY RouteFacts DEF CallsAssumption, WellTyped
<1>2. /\ q \in Request /\ q.pc = (IF c.route = Draft THEN "read_draft" ELSE "check")
      /\ q.node = c.node /\ q.value = c.value /\ q.next = "started" /\ q.since = Len(log)
      /\ q.route = c.route
    BY <1>1, RouteFacts DEF Request, Places, Called
<1> QED
    BY <1>1, <1>2 DEF Sound

LEMMA CallMerged ==
    ASSUME CallsAssumption, Merged, NEW r \in Requests, Call(r)
    PROVE  Merged'
<1>1. PICK c \in Calls : Set(r, Called(c))
    BY DEF Call, Called
<1> DEFINE q == Called(c)
<1>2. Sound(q) /\ q.pc \in {"read_draft", "check"}
    BY CalledFacts DEF Merged
<1>3. Quiet /\ open' = open
    BY RowsQuiet DEF Call
<1> QED
    BY <1>1, <1>2, <1>3, Moves

LEMMA CheckWaitingMerged ==
    ASSUME Merged, NEW r \in Requests, CheckWaiting(r)
    PROVE  Merged'
<1>1. Quiet /\ open' = open
    BY RowsQuiet DEF CheckWaiting
<1>2. req[r].pc \in Working /\ req[r].next \in {"started", "succeeded", "failed"}
    BY DEF CheckWaiting, At, Merged, Sound, Working
<1>3. Goto(r, "record") \/ Raised(r)
    BY DEF CheckWaiting
<1> QED
    BY <1>1, <1>2, <1>3, GotoMoves, RaisedMoves

\* An event of a request that works.
LEMMA EventFacts ==
    ASSUME NEW r \in Requests, Sound(req[r]), req[r].pc \in Working,
           NEW type \in {"started", "succeeded", "failed", "saved"}, NEW e, e = Event(type, r)
    PROVE  /\ e \in Events /\ e.type = type /\ e.by = r /\ e.node = req[r].node
           /\ e.key = req[r].route.key /\ e.value = req[r].value
           /\ e.node \in Nodes /\ e.key \in Keys /\ e.value \in Values
BY RouteFacts DEF Sound, Request, Event, Events

LEMMA RecordEventMerged ==
    ASSUME Merged, NEW r \in Requests, RecordEvent(r)
    PROVE  Merged'
<1> DEFINE next == req[r].next
           e == Event(next, r)
           q == [req[r] EXCEPT !.next = "run", !.pc = IF req[r].route.looks THEN "look" ELSE "run"]
<1>1. /\ req[r] \in Request /\ Sound(req[r]) /\ req[r].pc \in Working
      /\ next \in {"started", "succeeded", "failed"}
    BY DEF RecordEvent, At, Merged, Sound, Working
<1>2. e \in Events /\ e.type = next
    BY <1>1, EventFacts
<1>4. \A n \in open', k \in Keys : ~Sets(e, n, k)
    BY <1>1, <1>2 DEF Sets
<1>5. Quiet /\ open' = open
    BY <1>2, <1>4 DEF Quiet, RecordEvent, Insert
<1>6. CASE next = "started" /\ Set(r, q)
    <2>1. q \in Request /\ q.pc \in {"look", "run"} /\ Same(q, req[r])
        BY <1>1 DEF Request, Places, Same
    <2> HIDE DEF q
    <2>2. Sound(q)
        BY <1>1, <2>1, Remains
    <2> QED
        BY <1>5, <1>6, <2>1, <2>2, Moves
<1>7. CASE \E how \in {"raised", "returned", "cancelled"} : Finish(r, how)
    BY <1>5, <1>7, FinishMoves
<1>8. \/ next = "started" /\ Set(r, q)
      \/ \E how \in {"raised", "returned", "cancelled"} : Finish(r, how)
    BY <1>1 DEF RecordEvent
<1> QED
    BY <1>6, <1>7, <1>8

LEMMA WaitingExecutionMerged ==
    ASSUME Merged, NEW r \in Requests, WaitingExecution(r)
    PROVE  Merged'
<1>1. Quiet /\ open' = open
    BY RowsQuiet DEF WaitingExecution
<1>2. req[r].pc \in Working
    BY DEF WaitingExecution, At, Working
<1>3. Goto(r, "run") \/ Raised(r)
    BY DEF WaitingExecution
<1> QED
    BY <1>1, <1>2, <1>3, GotoMoves, RaisedMoves

LEMMA RunNodeMerged ==
    ASSUME Merged, NEW r \in Requests, RunNode(r)
    PROVE  Merged'
<1> DEFINE q == [req[r] EXCEPT !.calls = @ - 1]
<1>1. Quiet /\ open' = open
    BY RowsQuiet DEF RunNode
<1>2. req[r] \in Request /\ Sound(req[r]) /\ req[r].pc = "run" /\ req[r].pc \in Working
    BY DEF RunNode, At, Merged, Sound, Working
<1>3. q \in Request /\ q.pc = "run" /\ Same(q, req[r])
    BY <1>2 DEF Request, Same
<1>4. Set(r, q) \/ Raised(r)
    BY DEF RunNode
<1> HIDE DEF q
<1>5. Sound(q)
    BY <1>2, <1>3, Remains
<1> QED
    BY <1>1, <1>2, <1>3, <1>4, <1>5, Moves, RaisedMoves

LEMMA ResultMerged ==
    ASSUME Merged, NEW r \in Requests, Result(r)
    PROVE  Merged'
<1>1. Quiet /\ open' = open
    BY RowsQuiet DEF Result
<1>2. req[r].pc \in Working
    BY DEF Result, At, Working
<1> QED
    BY <1>1, <1>2, GotoMoves DEF Result

\* The request reads the input of a node that nobody is about to write.
LEMMA ReadDraftMerged ==
    ASSUME ~Overlap, Merged, NEW r \in Requests, ReadDraft(r)
    PROVE  Merged'
<1> DEFINE n == req[r].node
           q == [req[r] EXCEPT !.pc = "write_draft", !.read = snapshot[n]]
<1>1. Quiet /\ open' = open
    BY RowsQuiet DEF ReadDraft
<1>2. req[r] \in Request /\ Sound(req[r]) /\ n \in Nodes /\ req[r].pc \in Working
    BY DEF ReadDraft, At, Merged, Sound, Working
<1>3. CASE Raised(r) \/ Saved(r)
    BY <1>1, <1>2, <1>3, RaisedMoves, SavedMoves
<1>4. CASE Waits(n) /\ Set(r, q)
    <2>1. snapshot[n] \in Inputs
        BY <1>2 DEF Merged, WellTyped
    <2>2. q \in Request /\ q.pc = "write_draft" /\ Same(q, req[r]) /\ q.read = snapshot[n]
        BY <1>2, <2>1 DEF Request, Places, Same
    <2> HIDE DEF q
    <2>3. Sound(q) /\ q.node = n
        BY <1>2, <2>2, Remains DEF Same
    <2>4. /\ DOMAIN req' = Requests /\ req'[r] = q
          /\ \A o \in Requests \ {r} : req'[o] = req[o]
        BY <1>4 DEF Merged, WellTyped, Set
    <2>5. log' = log /\ open' = open /\ snapshot' = snapshot
        BY DEF ReadDraft, rows
    <2>6. WellTyped' /\ Asked' /\ DraftsKept'
        BY <1>1, <2>4, <2>5, QuietKeeps DEF Merged, WellTyped
    <2>7. \A o \in Requests : Sound(req'[o])
        BY <2>3, <2>4 DEF Merged
    <2>8. \A o \in Requests : At(o, "write_draft") => req[o].node # n
        BY DEF ReadDraft, Free, Writing
    <2>9. Alone'
        BY <1>4, <2>2, <2>3, <2>4, <2>5, <2>8 DEF Merged, Alone, At
    <2> QED
        BY <2>6, <2>7, <2>9 DEF Merged
<1> QED
    BY <1>3, <1>4 DEF ReadDraft

\* An event about one node that sets keys of its input, and what that becomes.
Rewrites(n, e, input) ==
    /\ n \in Nodes /\ e \in Events /\ e.node = n /\ input \in Inputs
    /\ log' = Append(log, e) /\ open' \subseteq open \cup {n}
    /\ snapshot' = [snapshot EXCEPT ![n] = input]
    /\ \A k \in Keys : IF Sets(e, n, k) THEN input[k] = e.value
                       ELSE n \in open /\ input[k] = snapshot[n][k]

LEMMA Rewritten ==
    ASSUME WellTyped, Asked, DraftsKept, NEW n, NEW e, NEW input, Rewrites(n, e, input)
    PROVE  /\ log' \in Seq(Events) /\ snapshot' \in [Nodes -> Inputs] /\ open' \subseteq Nodes
           /\ Asked' /\ DraftsKept'
<1>1. log' \in Seq(Events) /\ snapshot' \in [Nodes -> Inputs] /\ open' \subseteq Nodes
    BY DEF WellTyped, Rewrites
<1>2. ASSUME NEW m \in open', NEW k \in Keys
      PROVE  HasLast(log', m, k) /\ snapshot'[m][k] = LastIn(log', m, k)
    <2>1. CASE m = n /\ Sets(e, n, k)
        <3>1. snapshot'[m][k] = e.value
            BY <2>1 DEF WellTyped, Rewrites
        <3> QED
            BY <2>1, <3>1, Setting DEF WellTyped, Rewrites
    <2>2. CASE ~Sets(e, m, k)
        <3>1. m \in open /\ snapshot'[m][k] = snapshot[m][k]
            BY <1>1, <2>2 DEF WellTyped, Rewrites
        <3>2. HasLast(log, m, k) /\ snapshot[m][k] = LastIn(log, m, k)
            BY <3>1, LastSavedIs DEF Asked, DraftsKept
        <3> QED
            BY <2>2, <3>1, <3>2, NotSetting DEF WellTyped, Rewrites
    <2>3. m = n \/ ~Sets(e, m, k)
        BY DEF Sets, Rewrites
    <2> QED
        BY <2>1, <2>2, <2>3
<1>3. Asked' /\ DraftsKept'
    BY <1>2, LastSavedIs DEF Asked, DraftsKept
<1> QED
    BY <1>1, <1>3

LEMMA WriteDraftMerged ==
    ASSUME Merged, NEW r \in Requests, WriteDraft(r)
    PROVE  Merged'
<1> DEFINE n == req[r].node
           key == req[r].route.key
           e == Event("saved", r)
           input == [req[r].read EXCEPT ![key] = req[r].value]
<1>1. /\ req[r] \in Request /\ Sound(req[r]) /\ req[r].pc \in Working /\ n \in Nodes
      /\ req[r].read = snapshot[n] /\ req[r].value \in Values /\ WellTyped
    BY DEF WriteDraft, At, Merged, Sound, Alone, Working
<1>0. CASE n \notin open
    <2>1. Raised(r) /\ UNCHANGED rows
        BY <1>0 DEF WriteDraft, rows
    <2> QED
        BY <1>1, <2>1, RowsQuiet, RaisedMoves
<1>a. ASSUME n \in open PROVE Merged'
    <2>2. key \in Keys /\ req[r].read \in Inputs /\ input \in Inputs
        BY <1>1, RouteFacts DEF Request, Inputs
    <2>3. e \in Events /\ e.node = n /\ e.value = req[r].value /\ e.type = "saved" /\ e.key = key
        BY <1>1, EventFacts
    <2>4. snapshot' = [snapshot EXCEPT ![n] = input] /\ log' = Append(log, e) /\ open' = open /\ Saved(r)
        BY <1>a DEF WriteDraft, Insert
    <2>5. \A k \in Keys : IF Sets(e, n, k) THEN input[k] = e.value
                          ELSE n \in open /\ input[k] = snapshot[n][k]
        BY <1>1, <1>a, <2>2, <2>3 DEF Sets, Inputs
    <2>5a. Rewrites(n, e, input)
        BY <1>1, <2>2, <2>3, <2>4, <2>5 DEF Rewrites
    <2> HIDE DEF e, input
    <2>6. log' \in Seq(Events) /\ snapshot' \in [Nodes -> Inputs] /\ open' \subseteq Nodes /\ Asked' /\ DraftsKept'
        BY <2>5a, Rewritten DEF Merged
    <2>7. PICK q : Set(r, q) /\ Sound(q) /\ q.pc # "write_draft"
        <3>1. CASE Finish(r, "returned")
            <4> DEFINE q == [Blank EXCEPT !.pc = "returned", !.since = req[r].since]
            <4>1. q.pc = "returned" /\ q \in Request
                BY <1>1, RouteFacts DEF Request, Places
            <4>2. Sound(q)
                BY <4>1 DEF Sound, Working
            <4> QED
                BY <3>1, <4>1, <4>2 DEF Finish
        <3>2. CASE Set(r, [req[r] EXCEPT !.pc = "check", !.next = "succeeded"])
            <4> DEFINE q == [req[r] EXCEPT !.pc = "check", !.next = "succeeded"]
            <4>1. q.pc = "check" /\ q \in Request /\ Same(q, req[r]) /\ q.next = "succeeded"
                BY <1>1 DEF Request, Places, Same
            <4>2. Sound(q)
                BY <1>1, <4>1, Remains
            <4> QED
                BY <3>2, <4>1, <4>2
        <3> QED
            BY <2>4, <3>1, <3>2 DEF Saved
    <2>8. /\ DOMAIN req' = Requests /\ req'[r] = q
          /\ \A o \in Requests \ {r} : req'[o] = req[o]
        BY <1>1, <2>7 DEF WellTyped, Set
    <2>9. \A o \in Requests \ {r} : At(o, "write_draft") => req[o].node # n
        BY DEF Merged, Alone, WriteDraft, At
    <2>10. \A o \in Requests \ {r} : At(o, "write_draft") => snapshot'[req[o].node] = snapshot[req[o].node]
        BY <1>1, <2>4, <2>9 DEF At, Merged, Sound, WellTyped, Working
    <2>11. Alone'
        BY <2>4, <2>7, <2>8, <2>10 DEF Merged, Alone, At
    <2>12. \A o \in Requests : Sound(req'[o])
        BY <2>7, <2>8 DEF Merged
    <2> QED
        BY <2>6, <2>8, <2>11, <2>12 DEF Merged, WellTyped
<1> QED
    BY <1>0, <1>a

LEMMA CancelMerged ==
    ASSUME Merged, NEW r \in Requests, Cancel(r)
    PROVE  Merged'
BY RowsQuiet, FinishMoves DEF Cancel

\* An event of the task itself.
LEMMA TaskEventFacts ==
    ASSUME NEW type \in TaskTypes, NEW n \in Nodes \cup {None}, NEW e, e = TaskEvent(type, n)
    PROVE  /\ e \in Events /\ e.type = type /\ e.node = n /\ e.by = None
           /\ e.key = None /\ e.value = None
BY DEF TaskEvent, Events

\* The task moves on, and nothing asks.
LEMMA MovesOnMerged ==
    ASSUME Merged, open' \subseteq open, UNCHANGED <<snapshot, req>>,
           \/ log' = log
           \/ \E type \in TaskTypes \ {"asked"}, n \in Nodes \cup {None} : TaskMoves(type, n)
    PROVE  Merged'
<1>1. Quiet
    <2>1. ASSUME NEW type \in TaskTypes \ {"asked"}, NEW n \in Nodes \cup {None}, TaskMoves(type, n)
          PROVE  \E e \in Events : log' = Append(log, e) /\ \A m \in open', k \in Keys : ~Sets(e, m, k)
        <3> DEFINE e == TaskEvent(type, n)
        <3>1. e \in Events /\ e.type = type /\ log' = Append(log, e)
            BY <2>1, TaskEventFacts DEF TaskMoves, Insert
        <3> HIDE DEF e
        <3>2. \A m \in open', k \in Keys : ~Sets(e, m, k)
            BY <3>1 DEF Sets, TaskTypes
        <3> QED
            BY <3>1, <3>2
    <2> QED
        BY <2>1 DEF Quiet
<1>2. log' \in Seq(Events) /\ Asked' /\ DraftsKept'
    BY <1>1, QuietKeeps DEF Merged
<1> QED
    BY <1>2 DEF Merged, WellTyped, Alone, At

\* A node that a request is about to write asks no question.
LEMMA AskMerged ==
    ASSUME ~Overlap, Merged, NEW n \in Nodes, Ask(n)
    PROVE  Merged'
<1> DEFINE e == TaskEvent("asked", n)
           input == [k \in Keys |-> None]
<1>1. e \in Events /\ e.node = n /\ e.value = None /\ e.type = "asked" /\ e.key = None
    BY TaskEventFacts DEF TaskTypes
<1>2. /\ log' = Append(log, e) /\ open' = open \cup {n} /\ req' = req
      /\ snapshot' = [snapshot EXCEPT ![n] = input] /\ n \notin open
    BY DEF Ask, TaskMoves, Insert
<1>3. /\ input \in Inputs /\ open' \subseteq open \cup {n}
      /\ \A k \in Keys : IF Sets(e, n, k) THEN input[k] = e.value
                         ELSE n \in open /\ input[k] = snapshot[n][k]
    BY <1>1, <1>2 DEF Inputs, Sets
<1>3a. Rewrites(n, e, input)
    BY <1>1, <1>2, <1>3 DEF Rewrites
<1> HIDE DEF e, input
<1>4. log' \in Seq(Events) /\ snapshot' \in [Nodes -> Inputs] /\ open' \subseteq Nodes /\ Asked' /\ DraftsKept'
    BY <1>3a, Rewritten DEF Merged
<1>5. \A r \in Requests : At(r, "write_draft") => req[r].node # n /\ req[r].node \in Nodes
    BY DEF Ask, Free, Writing, Merged, Sound, At, Working
<1>6. \A r \in Requests : At(r, "write_draft") => snapshot'[req[r].node] = snapshot[req[r].node]
    BY <1>2, <1>5 DEF Merged, WellTyped
<1>7. Alone'
    BY <1>2, <1>6 DEF Merged, Alone, At
<1> QED
    BY <1>2, <1>4, <1>7 DEF Merged, WellTyped

LEMMA MergedInit == ASSUME Init PROVE Merged
<1>1. WellTyped /\ Asked /\ DraftsKept
    BY DEF Init, WellTyped, Asked, DraftsKept, Inputs
<1>2. \A r \in Requests : req[r] = Blank /\ Blank.pc = "idle"
    BY DEF Init, Blank
<1> QED
    BY <1>1, <1>2, RouteFacts DEF Merged, Alone, At, Sound, Working

LEMMA MergedNext ==
    ASSUME ~Overlap, CallsAssumption, Merged, [Next]_vars
    PROVE  Merged'
<1>1. ASSUME NEW r \in Requests, Call(r) \/ Handle(r) \/ Cancel(r)
      PROVE  Merged'
    BY <1>1, CallMerged, CheckWaitingMerged, RecordEventMerged, WaitingExecutionMerged, RunNodeMerged,
       ResultMerged, ReadDraftMerged, WriteDraftMerged, CancelMerged DEF Handle
<1>2. ASSUME NEW n \in Nodes, Ask(n)
      PROVE  Merged'
    BY <1>2, AskMerged
<1>3. ASSUME NEW n \in Nodes, Answer(n)
      PROVE  Merged'
    BY <1>3, MovesOnMerged DEF Answer, TaskTypes
<1>4. CASE Rerun
    BY <1>4, MovesOnMerged DEF Rerun, TaskTypes
<1>5. CASE Leave \/ Archive
    BY <1>5, MovesOnMerged DEF Leave, Archive, TaskTypes
<1>6. CASE UNCHANGED vars
    BY <1>6, MovesOnMerged DEF vars, rows
<1> QED
    BY <1>1, <1>2, <1>3, <1>4, <1>5, <1>6 DEF Next

----------------------------------------------------------------------------
\* No draft loses another's: when nothing else happens to a node between the read
\* of its input and the write (save_waiting_node_draft), its input holds, under each
\* key, what the last draft saved since the question was asked put there.
THEOREM DraftsAlwaysKept == ASSUME ~Overlap, CallsAssumption PROVE Spec => []DraftsKept
<1>1. Init => Merged
    BY MergedInit
<1>2. Merged /\ [Next]_vars => Merged'
    BY MergedNext
<1>3. Merged => DraftsKept
    BY DEF Merged
<1> QED
    BY <1>1, <1>2, <1>3, PTL DEF Spec

----------------------------------------------------------------------------
(* What an interaction records, whatever overlaps.                            *)

\* What a request has told, by where it is: a draft nothing until it writes, an
\* interaction what its next event continues.
Chapter(r) ==
    LET q == req[r] IN
    /\ q.pc = "idle" => Types(r) = {}
    /\ q.pc \in Working /\ q.route = Draft =>
         Types(r) = {} /\ q.next = "started" /\ q.pc \in {"read_draft", "write_draft"}
    /\ q.pc \in Working /\ q.route # Draft =>
         \/ q.next = "started" /\ q.pc \in {"check", "record"} /\ Types(r) = {}
         \/ q.next = "run" /\ q.pc \notin {"check", "record"} /\ Types(r) = {"started"}
         \/ q.next \in {"succeeded", "failed"} /\ q.pc \in {"check", "record"}
            /\ Types(r) \in {{"started"}, {"started", "saved"}}

\* Since it was called, the task moved on.
MoveOns == {"answered", "rerun", "ended", "archived"}
MovedOn(r) == \E j \in 1..Len(log) : j > req[r].since /\ log[j].type \in MoveOns

\* An interaction that found its node waiting finds it waiting still, unless the
\* task moved on.
Watched(r) ==
    LET q == req[r] IN
    /\ q.since <= Len(log)
    /\ q.pc \in Working /\ "started" \in Types(r) => Waits(q.node) \/ MovedOn(r)
    /\ At(r, "record") => Waits(q.node) \/ MovedOn(r)

\* StoriesInOrder, in its two parts.
InOrder ==
    \A r \in Requests :
      /\ \A i, j \in Own(r) : i < j => <<log[i].type, log[j].type>> \in Order
      /\ "started" \notin Types(r) =>
           \A i \in Own(r) : log[i].type = "saved" /\ log[i].key = Draft.key
SavedBefore(l, i, n, k, x) ==
    \E j \in 1..(i - 1) : l[j].type = "saved" /\ l[j].node = n /\ l[j].key = k /\ l[j].value = x
SavedFirst ==
    \A r \in Requests : \A i \in Own(r) :
      log[i].type = "succeeded" => SavedBefore(log, i, log[i].node, log[i].key, log[i].value)

Recorded == WellTyped /\ \A r \in Requests : Sound(req[r])
Storied ==
    /\ Recorded
    /\ \A r \in Requests : Chapter(r) /\ Watched(r)
    /\ InOrder /\ EndsRecorded

----------------------------------------------------------------------------
(* The log grows by one event, or by none.                                    *)

LEMMA OwnIs ==
    ASSUME WellTyped, NEW r
    PROVE  Own(r) = {i \in 1..Len(log) : log[i].by = r} /\ Len(log) \in Nat
BY DEF WellTyped, Own

LEMMA OwnGrows ==
    ASSUME WellTyped, NEW e \in Events, log' = Append(log, e), NEW r
    PROVE  /\ log' \in Seq(Events) /\ Len(log') = Len(log) + 1 /\ Len(log) \in Nat
           /\ log'[Len(log) + 1] = e /\ \A i \in 1..Len(log) : log'[i] = log[i]
           /\ e.by = r => Own(r)' = Own(r) \cup {Len(log) + 1} /\ Types(r)' = Types(r) \cup {e.type}
           /\ e.by # r => Own(r)' = Own(r) /\ Types(r)' = Types(r)
<1>1. /\ log' \in Seq(Events) /\ Len(log') = Len(log) + 1 /\ Len(log) \in Nat
      /\ log'[Len(log) + 1] = e /\ \A i \in 1..Len(log) : log'[i] = log[i]
    BY DEF WellTyped
<1>2. /\ Own(r) = {i \in 1..Len(log) : log[i].by = r}
      /\ Own(r)' = {i \in 1..Len(log') : log'[i].by = r}
    BY <1>1 DEF WellTyped, Own
<1>3. CASE e.by = r
    <2>1. Own(r)' = Own(r) \cup {Len(log) + 1}
        BY <1>1, <1>2, <1>3
    <2>2. Types(r)' = Types(r) \cup {e.type}
        BY <1>1, <1>2, <2>1 DEF Types
    <2> QED BY <1>1, <1>3, <2>1, <2>2
<1>4. CASE e.by # r
    <2>1. Own(r)' = Own(r)
        BY <1>1, <1>2, <1>4
    <2>2. Types(r)' = Types(r)
        BY <1>1, <1>2, <2>1 DEF Types
    <2> QED BY <1>1, <1>4, <2>1, <2>2
<1> QED BY <1>3, <1>4

\* An event that may follow all that its request has told.
Continues(r, e) ==
    /\ \A t \in Types(r) : <<t, e.type>> \in Order
    /\ "started" \notin Types(r) => e.type = "started" \/ (e.type = "saved" /\ e.key = Draft.key)

LEMMA StoriesContinue ==
    ASSUME WellTyped, InOrder,
           \/ log' = log
           \/ \E e \in Events : log' = Append(log, e) /\ (e.by \in Requests => Continues(e.by, e))
    PROVE  InOrder'
<1>1. CASE log' = log
    BY <1>1 DEF InOrder, Own, Types
<1>2. ASSUME NEW e \in Events, log' = Append(log, e), e.by \in Requests => Continues(e.by, e)
      PROVE  InOrder'
    <2> SUFFICES ASSUME NEW r \in Requests
                 PROVE  /\ \A i, j \in Own(r)' : i < j => <<log'[i].type, log'[j].type>> \in Order
                        /\ "started" \notin Types(r)' =>
                             \A i \in Own(r)' : log'[i].type = "saved" /\ log'[i].key = Draft.key
        BY DEF InOrder
    <2>1. /\ \A i, j \in Own(r) : i < j => <<log[i].type, log[j].type>> \in Order
          /\ "started" \notin Types(r) => \A i \in Own(r) : log[i].type = "saved" /\ log[i].key = Draft.key
        BY DEF InOrder
    <2>2. /\ \A i \in Own(r) : i \in 1..Len(log) /\ log'[i] = log[i] /\ log[i].type \in Types(r)
          /\ Len(log) \in Nat /\ log'[Len(log) + 1] = e
        BY <1>2, OwnIs, OwnGrows DEF Types
    <2>3. CASE e.by = r
        <3>1. Own(r)' = Own(r) \cup {Len(log) + 1} /\ Types(r)' = Types(r) \cup {e.type}
            BY <1>2, <2>3, OwnGrows
        <3>2. Continues(r, e)
            BY <1>2, <2>3
        <3>3. ASSUME NEW i \in Own(r)', NEW j \in Own(r)', i < j
              PROVE  <<log'[i].type, log'[j].type>> \in Order
            <4>1. i \in Own(r)
                BY <2>2, <3>1, <3>3
            <4>2. CASE j \in Own(r)
                BY <2>1, <2>2, <3>3, <4>1, <4>2
            <4>3. CASE j = Len(log) + 1
                BY <2>2, <3>2, <4>1, <4>3 DEF Continues
            <4> QED BY <3>1, <4>2, <4>3
        <3>4. ASSUME "started" \notin Types(r)', NEW i \in Own(r)'
              PROVE  log'[i].type = "saved" /\ log'[i].key = Draft.key
            <4>1. CASE i \in Own(r)
                BY <2>1, <2>2, <3>1, <3>4, <4>1
            <4>2. CASE i = Len(log) + 1
                BY <2>2, <3>1, <3>2, <3>4, <4>2 DEF Continues
            <4> QED BY <3>1, <4>1, <4>2
        <3> QED BY <3>3, <3>4
    <2>4. CASE e.by # r
        <3>1. Own(r)' = Own(r) /\ Types(r)' = Types(r)
            BY <1>2, <2>4, OwnGrows
        <3> QED BY <2>1, <2>2, <3>1
    <2> QED BY <2>3, <2>4
<1> QED BY <1>1, <1>2

----------------------------------------------------------------------------
(* What a step leaves of the other requests.                                  *)

Ends(r) ==
    "started" \in Types(r) /\ req[r].pc \in {"raised", "returned"} =>
      Types(r) \cap {"succeeded", "failed"} # {} \/ MovedOn(r)

LEMMA EndsAre ==
    ASSUME WellTyped
    PROVE  EndsRecorded <=> \A r \in Requests : Ends(r)
BY DEF WellTyped, EndsRecorded, Ends, MovedOn, Told, MoveOns

\* A node stops waiting only by an event that tells the task moved on.
Goes(e) == e.type \notin MoveOns => \A n \in Nodes : Waits(n) => Waits(n)'
Silent == log' = log /\ \A n \in Nodes : Waits(n) => Waits(n)'

LEMMA OthersKeep ==
    ASSUME Storied, NEW o \in Requests, req'[o] = req[o],
           Silent \/ \E e \in Events : log' = Append(log, e) /\ e.by # o /\ Goes(e)
    PROVE  Types(o)' = Types(o) /\ Chapter(o)' /\ Watched(o)' /\ Ends(o)'
<1> DEFINE q == req[o]
<1>1. /\ WellTyped /\ Chapter(o) /\ Watched(o) /\ Ends(o)
      /\ q.pc \in Working => q.node \in Nodes
    BY EndsAre DEF Storied, Recorded, Sound, Working
<1>1a. q.since \in Nat
    BY DEF Storied, Recorded, Sound, Request
<1>2. Types(o)' = Types(o) /\ q.since <= Len(log') /\ (MovedOn(o) => MovedOn(o)')
    <2>1. CASE log' = log
        BY <1>1, <2>1 DEF Own, Types, Watched, MovedOn
    <2>2. ASSUME NEW e \in Events, log' = Append(log, e), e.by # o
          PROVE  Types(o)' = Types(o) /\ q.since <= Len(log') /\ (MovedOn(o) => MovedOn(o)')
        BY <1>1, <1>1a, <2>2, OwnGrows DEF Watched, MovedOn
    <2> QED BY <2>1, <2>2 DEF Silent
<1>3. Chapter(o)'
    BY <1>1, <1>2 DEF Chapter
<1>5. q.pc \in Working /\ Waits(q.node) => Waits(q.node)' \/ MovedOn(o)'
    <2>1. CASE Silent
        BY <1>1, <2>1 DEF Silent
    <2>2. ASSUME NEW e \in Events, log' = Append(log, e), Goes(e)
          PROVE  q.pc \in Working /\ Waits(q.node) => Waits(q.node)' \/ MovedOn(o)'
        <3>1. CASE e.type \in MoveOns
            BY <1>1, <1>1a, <2>2, <3>1, OwnGrows DEF MovedOn, Watched
        <3>2. CASE e.type \notin MoveOns
            BY <1>1, <2>2, <3>2 DEF Goes
        <3> QED BY <3>1, <3>2
    <2> QED BY <2>1, <2>2
<1>6. Watched(o)'
    BY <1>1, <1>2, <1>5 DEF Watched, At, Working
<1>7. Ends(o)'
    BY <1>1, <1>2 DEF Ends
<1> QED BY <1>2, <1>3, <1>6, <1>7

\* A request that goes on, with an event of its own or without.
LEMMA Turns ==
    ASSUME Storied, NEW r \in Requests, NEW q, Set(r, q), Sound(q),
           task' = task, open' = open, snapshot' \in [Nodes -> Inputs],
           \/ log' = log
           \/ \E e \in Events : log' = Append(log, e) /\ e.by = r /\ e.type \notin MoveOns /\ Continues(r, e),
           Chapter(r)', Watched(r)', Ends(r)'
    PROVE  Storied'
<1>1. WellTyped /\ InOrder
    BY DEF Storied, Recorded
<1>2. /\ DOMAIN req' = Requests /\ req'[r] = q
      /\ \A o \in Requests \ {r} : req'[o] = req[o]
    BY <1>1 DEF WellTyped, Set
<1>3. log' \in Seq(Events)
    BY <1>1 DEF WellTyped
<1>4. WellTyped'
    BY <1>1, <1>2, <1>3 DEF WellTyped
<1>5. Recorded'
    BY <1>2, <1>4 DEF Storied, Recorded
<1>6. InOrder'
    BY <1>1, StoriesContinue
<1>7. ASSUME NEW o \in Requests
      PROVE  Chapter(o)' /\ Watched(o)' /\ Ends(o)'
    <2>1. CASE o = r
        BY <2>1
    <2>2. CASE o # r
        <3>1. \A n \in Nodes : Waits(n)' = Waits(n)
            BY DEF Waits
        <3>2. Silent \/ \E e \in Events : log' = Append(log, e) /\ e.by # o /\ Goes(e)
            BY <2>2, <3>1 DEF Silent, Goes
        <3> QED BY <1>2, <2>2, <3>2, OthersKeep
    <2> QED BY <2>1, <2>2
<1>8. EndsRecorded'
    BY <1>4, <1>7 DEF WellTyped, EndsRecorded, Ends, MovedOn, Told, MoveOns
<1> QED BY <1>4, <1>5, <1>6, <1>7, <1>8 DEF Storied

----------------------------------------------------------------------------
(* The ways a request goes on.                                                *)

LEMMA Remembered ==
    ASSUME Storied, NEW r \in Requests
    PROVE  /\ WellTyped /\ snapshot \in [Nodes -> Inputs] /\ Sound(req[r]) /\ req[r] \in Request
           /\ Chapter(r) /\ Watched(r) /\ Ends(r) /\ req[r].since \in Nat /\ Len(log) \in Nat
           /\ req[r].pc \in Working => req[r].node \in Nodes
BY EndsAre DEF Storied, Recorded, Sound, Working, Request, WellTyped

\* Without an event, a request that still works remembers as much.
LEMMA WorksOn ==
    ASSUME Storied, UNCHANGED rows, NEW r \in Requests, NEW q, Set(r, q), Sound(q),
           q.pc \in Working, Chapter(r)', q.since = req[r].since, q.node = req[r].node,
           req[r].pc \in Working,
           q.pc = "record" => Waits(q.node)
    PROVE  Storied'
<1>1. /\ WellTyped /\ Watched(r) /\ snapshot' \in [Nodes -> Inputs]
      /\ task' = task /\ open' = open /\ log' = log
    BY Remembered DEF rows
<1>2. req'[r] = q
    BY <1>1 DEF WellTyped, Set
<1>3. Types(r)' = Types(r) /\ MovedOn(r)' = MovedOn(r) /\ Waits(q.node)' = Waits(q.node)
    BY <1>1, <1>2 DEF Types, Own, MovedOn, Waits
<1>4. Watched(r)'
    BY <1>1, <1>2, <1>3 DEF Watched, At
<1>5. Ends(r)'
    BY <1>2 DEF Ends, Working
<1> QED BY <1>1, <1>4, <1>5, Turns

\* A request that ends without an event has told an end, or need not tell one.
LEMMA EndsSilently ==
    ASSUME Storied, UNCHANGED rows, NEW r \in Requests,
           NEW how \in {"raised", "returned", "cancelled"}, Finish(r, how),
           how # "cancelled" /\ "started" \in Types(r) => MovedOn(r)
    PROVE  Storied'
<1> DEFINE q == [Blank EXCEPT !.pc = how, !.since = req[r].since]
<1>1. /\ WellTyped /\ Watched(r) /\ snapshot' \in [Nodes -> Inputs] /\ req[r].since \in Nat
      /\ task' = task /\ open' = open /\ log' = log
    BY Remembered DEF rows
<1>2. q \in Request /\ q.pc = how /\ q.since = req[r].since
    BY <1>1, RouteFacts DEF Request, Places
<1>3. Sound(q)
    BY <1>2 DEF Sound, Working
<1> HIDE DEF q
<1>4. Set(r, q)
    BY DEF Finish, q
<1>5. req'[r] = q
    BY <1>1, <1>4 DEF WellTyped, Set
<1>6. Types(r)' = Types(r) /\ MovedOn(r)' = MovedOn(r)
    BY <1>1, <1>2, <1>5 DEF Types, Own, MovedOn
<1>7. Chapter(r)'
    BY <1>2, <1>5 DEF Chapter, Working
<1>8. Watched(r)'
    BY <1>1, <1>2, <1>5 DEF Watched, At, Working
<1>9. Ends(r)'
    BY <1>1, <1>2, <1>5, <1>6 DEF Ends
<1> QED BY <1>1, <1>3, <1>4, <1>7, <1>8, <1>9, Turns

\* The work is done or has failed, and its end is to be recorded.
LEMMA ToTheEnd ==
    ASSUME Storied, UNCHANGED rows, NEW r \in Requests, req[r].pc \in Working, req[r].route # Draft,
           req[r].next \in {"run", "succeeded"}, NEW next \in {"succeeded", "failed"},
           Set(r, [req[r] EXCEPT !.pc = "check", !.next = next])
    PROVE  Storied'
<1> DEFINE q == [req[r] EXCEPT !.pc = "check", !.next = next]
<1>1. /\ Chapter(r) /\ Watched(r) /\ req[r] \in Request /\ Sound(req[r])
      /\ WellTyped /\ log' = log
    BY Remembered DEF rows
<1>2. q \in Request /\ q.pc = "check" /\ q.next = next /\ Same(q, req[r])
    BY <1>1 DEF Request, Places, Same
<1>3. Set(r, q)
    OBVIOUS
<1> HIDE DEF q
<1>4. Sound(q)
    BY <1>1, <1>2, Remains
<1>5. req'[r] = q
    BY <1>1, <1>3 DEF WellTyped, Set
<1>6. Types(r)' = Types(r) /\ Types(r) \in {{"started"}, {"started", "saved"}}
    BY <1>1 DEF Types, Own, Chapter
<1>7. Chapter(r)'
    BY <1>2, <1>5, <1>6 DEF Chapter, Working, Same
<1> QED BY <1>2, <1>3, <1>4, <1>7, WorksOn DEF Working, Same

\* Where an exception leads.
LEMMA RaisedStory ==
    ASSUME Storied, UNCHANGED rows, NEW r \in Requests, req[r].pc \in Working, Raised(r),
           req[r].pc # "record", req[r].pc = "check" => ~Waits(req[r].node)
    PROVE  Storied'
<1>1. Chapter(r) /\ Watched(r) /\ req[r] \in Request
    BY Remembered
<1>2. CASE /\ req[r].next \in {"started", "failed"} \/ req[r].route = Draft
           /\ Finish(r, "raised")
    <2>1. "started" \in Types(r) => req[r].next = "failed" /\ req[r].pc \in {"check", "record"}
        BY <1>1, <1>2 DEF Chapter
    <2>2. "started" \in Types(r) => MovedOn(r)
        BY <1>1, <2>1 DEF Watched
    <2> QED BY <1>2, <2>2, EndsSilently
<1>3. CASE /\ ~(req[r].next \in {"started", "failed"} \/ req[r].route = Draft)
           /\ Set(r, [req[r] EXCEPT !.pc = "check", !.next = "failed"])
    BY <1>1, <1>3, ToTheEnd DEF Chapter
<1> QED BY <1>2, <1>3 DEF Raised

----------------------------------------------------------------------------
(* The steps of a request.                                                    *)

\* A request that works goes to another place, and tells nothing.
LEMMA GoesOn ==
    ASSUME Storied, UNCHANGED rows, NEW r \in Requests, req[r].pc \in Working,
           NEW pc \in Working, Goto(r, pc),
           pc = "record" => Waits(req[r].node) /\ req[r].pc = "check",
           pc # "record" => pc \in {"run", "read_draft"} /\ req[r].pc \in {"look", "run"}
    PROVE  Storied'
<1> DEFINE q == [req[r] EXCEPT !.pc = pc]
<1>1. /\ Chapter(r) /\ Sound(req[r]) /\ req[r] \in Request /\ WellTyped /\ log' = log
    BY Remembered DEF rows
<1>2. q \in Request /\ q.pc = pc /\ q.next = req[r].next /\ Same(q, req[r])
    BY <1>1 DEF Request, Places, Working, Same
<1> HIDE DEF q
<1>3. Sound(q)
    BY <1>1, <1>2, Remains DEF Sound
<1>4. Set(r, q)
    BY DEF Goto, q
<1>5. req'[r] = q
    BY <1>1, <1>4 DEF WellTyped, Set
<1>6. Types(r)' = Types(r)
    BY <1>1 DEF Types, Own
<1>7. Chapter(r)'
    BY <1>1, <1>2, <1>5, <1>6 DEF Chapter, Working, Same
<1> QED BY <1>2, <1>3, <1>4, <1>7, WorksOn DEF Same

LEMMA CheckWaitingStory ==
    ASSUME Storied, NEW r \in Requests, CheckWaiting(r)
    PROVE  Storied'
<1>1. req[r].pc = "check" /\ UNCHANGED rows
    BY DEF CheckWaiting, At
<1>2. CASE Waits(req[r].node) /\ Goto(r, "record")
    BY <1>1, <1>2, GoesOn DEF Working
<1>3. CASE ~Waits(req[r].node) /\ Raised(r)
    BY <1>1, <1>3, RaisedStory DEF Working
<1> QED BY <1>2, <1>3 DEF CheckWaiting

LEMMA WaitingExecutionStory ==
    ASSUME Storied, NEW r \in Requests, WaitingExecution(r)
    PROVE  Storied'
<1>1. req[r].pc = "look" /\ UNCHANGED rows
    BY DEF WaitingExecution, At
<1>2. CASE Goto(r, "run")
    BY <1>1, <1>2, GoesOn DEF Working
<1>3. CASE Raised(r)
    BY <1>1, <1>3, RaisedStory DEF Working
<1> QED BY <1>2, <1>3 DEF WaitingExecution

LEMMA RunNodeStory ==
    ASSUME Storied, NEW r \in Requests, RunNode(r)
    PROVE  Storied'
<1> DEFINE q == [req[r] EXCEPT !.calls = @ - 1]
<1>1. /\ req[r].pc = "run" /\ UNCHANGED rows
      /\ Chapter(r) /\ Sound(req[r]) /\ req[r] \in Request /\ WellTyped /\ log' = log
    BY Remembered DEF RunNode, At, rows
<1>2. CASE Set(r, q)
    <2>1. q \in Request /\ q.pc = "run" /\ q.next = req[r].next /\ Same(q, req[r])
        BY <1>1 DEF Request, Same
    <2> HIDE DEF q
    <2>2. Sound(q)
        BY <1>1, <2>1, Remains DEF Working
    <2>3. req'[r] = q
        BY <1>1, <1>2 DEF WellTyped, Set
    <2>4. Types(r)' = Types(r)
        BY <1>1 DEF Types, Own
    <2>5. Chapter(r)'
        BY <1>1, <2>1, <2>3, <2>4 DEF Chapter, Working, Same
    <2> QED BY <1>1, <1>2, <2>1, <2>2, <2>5, WorksOn DEF Working, Same
<1>3. CASE Raised(r)
    BY <1>1, <1>3, RaisedStory DEF Working
<1> QED BY <1>2, <1>3 DEF RunNode

LEMMA ResultStory ==
    ASSUME Storied, NEW r \in Requests, Result(r)
    PROVE  Storied'
<1>1. req[r].pc = "run" /\ UNCHANGED rows /\ Goto(r, "read_draft")
    BY DEF Result, At
<1> QED BY <1>1, GoesOn DEF Working

LEMMA ReadDraftStory ==
    ASSUME Storied, NEW r \in Requests, ReadDraft(r)
    PROVE  Storied'
<1> DEFINE q == [req[r] EXCEPT !.pc = "write_draft", !.read = snapshot[req[r].node]]
<1>1. /\ req[r].pc = "read_draft" /\ UNCHANGED rows
      /\ Chapter(r) /\ Sound(req[r]) /\ req[r] \in Request /\ WellTyped /\ log' = log
      /\ snapshot \in [Nodes -> Inputs]
    BY Remembered DEF ReadDraft, At, rows
<1>1a. req[r].node \in Nodes
    BY <1>1, Remembered DEF Working
<1>2. CASE Set(r, q)
    <2>1. q \in Request /\ q.pc = "write_draft" /\ q.next = req[r].next /\ Same(q, req[r])
        BY <1>1, <1>1a DEF Request, Places, Same
    <2> HIDE DEF q
    <2>2. Sound(q)
        BY <1>1, <2>1, Remains DEF Working
    <2>3. req'[r] = q
        BY <1>1, <1>2 DEF WellTyped, Set
    <2>4. Types(r)' = Types(r)
        BY <1>1 DEF Types, Own
    <2>5. Chapter(r)'
        BY <1>1, <2>1, <2>3, <2>4 DEF Chapter, Working, Same
    <2> QED BY <1>1, <1>2, <2>1, <2>2, <2>5, WorksOn DEF Working, Same
<1>3. CASE Raised(r)
    BY <1>1, <1>3, RaisedStory DEF Working
<1>4. CASE Saved(r)
    <2>1. CASE req[r].route = Draft /\ Finish(r, "returned")
        BY <1>1, <2>1, EndsSilently DEF Chapter, Working
    <2>2. CASE req[r].route # Draft /\ Set(r, [req[r] EXCEPT !.pc = "check", !.next = "succeeded"])
        BY <1>1, <2>2, ToTheEnd DEF Chapter, Working
    <2> QED BY <1>4, <2>1, <2>2 DEF Saved
<1> QED BY <1>2, <1>3, <1>4 DEF ReadDraft

\* The routes with an interaction are not the draft's.
LEMMA CallStory ==
    ASSUME CallsAssumption, Storied, NEW r \in Requests, Call(r)
    PROVE  Storied'
<1>1. PICK c \in Calls : Set(r, Called(c))
    BY DEF Call, Called
<1> DEFINE q == Called(c)
<1>2. /\ WellTyped /\ Chapter(r) /\ snapshot' \in [Nodes -> Inputs] /\ req[r].pc = "idle"
      /\ task' = task /\ open' = open /\ log' = log
    BY Remembered DEF Call, At, rows
<1>3. /\ Sound(q) /\ q.pc = (IF c.route = Draft THEN "read_draft" ELSE "check")
      /\ q.next = "started" /\ q.since = Len(log) /\ q.route = c.route /\ Len(log) \in Nat
    BY <1>2, CalledFacts
<1>4. Set(r, q)
    BY <1>1
<1> HIDE DEF q
<1>7. req'[r] = q
    BY <1>2, <1>4 DEF WellTyped, Set
<1>8. Types(r)' = {}
    BY <1>2 DEF Types, Own, Chapter
<1>9. Chapter(r)'
    BY <1>3, <1>7, <1>8 DEF Chapter, Working
<1>10. Watched(r)'
    BY <1>2, <1>3, <1>7, <1>8 DEF Watched, At
<1>11. Ends(r)'
    BY <1>8 DEF Ends
<1> QED BY <1>2, <1>3, <1>4, <1>9, <1>10, <1>11, Turns

\* An event is recorded that continues the request's story.
LEMMA Records ==
    ASSUME Storied, NEW r \in Requests, NEW q, Set(r, q), Sound(q),
           task' = task, open' = open, snapshot' \in [Nodes -> Inputs],
           NEW e \in Events, log' = Append(log, e), e.by = r, e.type \notin MoveOns, Continues(r, e),
           req[r].pc \in Working, q.since = req[r].since,
           \/ /\ q.pc \in Working \ {"record"} /\ q.node = req[r].node
              /\ "started" \in Types(r) \/ req[r].pc = "record"
           \/ /\ q.pc \in {"raised", "returned"}
              /\ IF "started" \in Types(r) THEN e.type \in {"succeeded", "failed"} ELSE e.type = "saved",
           Chapter(r)'
    PROVE  Storied'
<1>1. WellTyped /\ Watched(r) /\ req[r].since \in Nat /\ req[r].node \in Nodes /\ Len(log) \in Nat
    BY Remembered
<1>2. req'[r] = q
    BY <1>1 DEF WellTyped, Set
<1>3. /\ Types(r)' = Types(r) \cup {e.type} /\ Len(log') = Len(log) + 1
      /\ \A i \in 1..Len(log) : log'[i] = log[i]
    BY <1>1, OwnGrows
<1>4. MovedOn(r) => MovedOn(r)'
    BY <1>1, <1>2, <1>3 DEF MovedOn
<1>5. \A n \in Nodes : Waits(n)' = Waits(n)
    BY DEF Waits
<1>6. Watched(r)'
    BY <1>1, <1>2, <1>3, <1>4, <1>5 DEF Watched, At, Working
<1>7. Ends(r)'
    BY <1>2, <1>3 DEF Ends, Working
<1> QED BY <1>6, <1>7, Turns

LEMMA RecordEventStory ==
    ASSUME Storied, NEW r \in Requests, RecordEvent(r)
    PROVE  Storied'
<1> DEFINE next == req[r].next
           e == Event(next, r)
           q == [req[r] EXCEPT !.next = "run", !.pc = IF req[r].route.looks THEN "look" ELSE "run"]
<1>1. /\ req[r] \in Request /\ Chapter(r) /\ req[r].pc = "record" /\ req[r].since \in Nat
      /\ WellTyped /\ snapshot' \in [Nodes -> Inputs] /\ task' = task /\ open' = open
    BY Remembered DEF RecordEvent, At
<1>2. Sound(req[r]) /\ req[r].pc \in Working
    BY <1>1, Remembered DEF Working
<1>3. /\ req[r].route # Draft
      /\ \/ next = "started" /\ Types(r) = {}
         \/ next \in {"succeeded", "failed"} /\ Types(r) \in {{"started"}, {"started", "saved"}}
    BY <1>1 DEF Chapter, Working
<1>4. e \in Events /\ e.type = next /\ e.by = r /\ e.type \notin MoveOns
    BY <1>2, <1>3, EventFacts DEF MoveOns
<1>5. log' = Append(log, e)
    BY DEF RecordEvent, Insert
<1>6. Continues(r, e)
    BY <1>3, <1>4 DEF Continues, Order
<1> HIDE DEF e
<1>7. Types(r)' = Types(r) \cup {next}
    BY <1>1, <1>4, <1>5, OwnGrows
<1>8. CASE next = "started" /\ Set(r, q)
    <2>1. q \in Request /\ q.pc \in {"look", "run"} /\ q.next = "run" /\ Same(q, req[r])
        BY <1>1 DEF Request, Places, Same
    <2> HIDE DEF q
    <2>2. Sound(q)
        BY <1>2, <2>1, Remains
    <2>3. req'[r] = q
        BY <1>1, <1>8 DEF WellTyped, Set
    <2>4. Chapter(r)'
        BY <1>3, <1>7, <1>8, <2>1, <2>3 DEF Chapter, Working, Same
    <2> QED BY <1>1, <1>4, <1>5, <1>6, <1>8, <2>1, <2>2, <2>4, Records DEF Working, Same
<1>9. ASSUME next # "started", NEW how \in {"raised", "returned"}, Finish(r, how)
      PROVE  Storied'
    <2> DEFINE f == [Blank EXCEPT !.pc = how, !.since = req[r].since]
    <2>1. f \in Request /\ f.pc = how /\ f.since = req[r].since
        BY <1>1, RouteFacts DEF Request, Places
    <2>2. Sound(f)
        BY <2>1 DEF Sound, Working
    <2> HIDE DEF f
    <2>3. Set(r, f)
        BY <1>9 DEF Finish, f
    <2>4. req'[r] = f
        BY <1>1, <2>3 DEF WellTyped, Set
    <2>5. Chapter(r)'
        BY <2>1, <2>4 DEF Chapter, Working
    <2> QED BY <1>1, <1>3, <1>4, <1>5, <1>6, <1>9, <2>1, <2>2, <2>3, <2>5, Records DEF Working
<1>10. \/ next = "started" /\ Set(r, q)
       \/ next # "started" /\ \E how \in {"raised", "returned"} : Finish(r, how)
    BY <1>3 DEF RecordEvent
<1> QED BY <1>8, <1>9, <1>10

LEMMA WriteDraftStory ==
    ASSUME Storied, NEW r \in Requests, WriteDraft(r)
    PROVE  Storied'
<1> DEFINE n == req[r].node
           key == req[r].route.key
           e == Event("saved", r)
           input == [req[r].read EXCEPT ![key] = req[r].value]
           q == [req[r] EXCEPT !.pc = "check", !.next = "succeeded"]
           f == [Blank EXCEPT !.pc = "returned", !.since = req[r].since]
<1>1. /\ req[r] \in Request /\ Chapter(r) /\ req[r].pc = "write_draft" /\ req[r].since \in Nat
      /\ WellTyped /\ snapshot \in [Nodes -> Inputs] /\ task' = task /\ open' = open
    BY Remembered DEF WriteDraft, At
<1>2. n \in Nodes /\ key \in Keys /\ Sound(req[r]) /\ req[r].value \in Values /\ req[r].pc \in Working
    BY <1>1, Remembered, RouteFacts DEF Request, Working, Sound
<1>3. CASE n \notin open
    <2>1. Raised(r) /\ UNCHANGED rows
        BY <1>3 DEF WriteDraft, rows
    <2> QED BY <1>1, <2>1, RaisedStory DEF Working
<1>4. CASE n \in open
    <2>1. log' = Append(log, e) /\ snapshot' = [snapshot EXCEPT ![n] = input] /\ Saved(r)
        BY <1>4 DEF WriteDraft, Insert
    <2>2. input \in Inputs
        BY <1>1, <1>2 DEF Inputs, Request
    <2>3. snapshot' \in [Nodes -> Inputs]
        BY <1>1, <2>1, <2>2
    <2>4. e \in Events /\ e.type = "saved" /\ e.by = r /\ e.key = key /\ e.type \notin MoveOns
        BY <1>2, EventFacts DEF MoveOns
    <2> HIDE DEF e
    <2>5. Types(r)' = Types(r) \cup {"saved"}
        BY <1>1, <2>1, <2>4, OwnGrows
    <2>6. CASE req[r].route = Draft
        <3>1. Types(r) = {}
            BY <1>1, <2>6 DEF Chapter, Working
        <3>2. Continues(r, e)
            BY <2>4, <2>6, <3>1 DEF Continues
        <3>3. Set(r, f)
            BY <2>1, <2>6 DEF Saved, Finish
        <3>4. f \in Request /\ f.pc = "returned" /\ f.since = req[r].since
            BY <1>1, RouteFacts DEF Request, Places
        <3>5. Sound(f)
            BY <3>4 DEF Sound, Working
        <3> HIDE DEF f
        <3>6. req'[r] = f
            BY <1>1, <3>3 DEF WellTyped, Set
        <3>7. Chapter(r)'
            BY <3>4, <3>6 DEF Chapter, Working
        <3> QED BY <1>1, <2>1, <2>3, <2>4, <3>1, <3>2, <3>3, <3>4, <3>5, <3>7, Records DEF Working
    <2>7. CASE req[r].route # Draft
        <3>1. Types(r) = {"started"}
            BY <1>1, <2>7 DEF Chapter, Working
        <3>2. Continues(r, e)
            BY <2>4, <3>1 DEF Continues, Order
        <3>3. Set(r, q)
            BY <2>1, <2>7 DEF Saved
        <3>4. q \in Request /\ q.pc = "check" /\ q.next = "succeeded" /\ Same(q, req[r])
            BY <1>1 DEF Request, Places, Same
        <3> HIDE DEF q
        <3>5. Sound(q)
            BY <1>2, <3>4, Remains
        <3>6. req'[r] = q
            BY <1>1, <3>3 DEF WellTyped, Set
        <3>7. Chapter(r)'
            BY <2>5, <2>7, <3>1, <3>4, <3>6 DEF Chapter, Working, Same
        <3> QED BY <1>1, <2>1, <2>3, <2>4, <3>1, <3>2, <3>3, <3>4, <3>5, <3>7, Records DEF Working, Same
    <2> QED BY <2>6, <2>7
<1> QED BY <1>3, <1>4

LEMMA CancelStory ==
    ASSUME Storied, NEW r \in Requests, Cancel(r)
    PROVE  Storied'
BY EndsSilently DEF Cancel

----------------------------------------------------------------------------
(* The steps beside the requests.                                             *)

LEMMA Beside ==
    ASSUME Storied, req' = req, snapshot' \in [Nodes -> Inputs], open' \subseteq Nodes,
           Silent \/ \E e \in Events : log' = Append(log, e) /\ e.by = None /\ Goes(e),
           None \notin Requests
    PROVE  Storied'
<1>1. WellTyped /\ InOrder
    BY DEF Storied, Recorded
<1>2. log' \in Seq(Events)
    BY <1>1 DEF WellTyped, Silent
<1>3. WellTyped'
    BY <1>1, <1>2 DEF WellTyped
<1>4. Recorded'
    BY <1>3 DEF Storied, Recorded
<1>5. InOrder'
    BY <1>1, StoriesContinue DEF Silent
<1>6. \A o \in Requests : Chapter(o)' /\ Watched(o)' /\ Ends(o)'
    BY OthersKeep
<1>7. EndsRecorded'
    BY <1>3, <1>6 DEF WellTyped, EndsRecorded, Ends, MovedOn, Told, MoveOns
<1> QED BY <1>4, <1>5, <1>6, <1>7 DEF Storied

\* The task moves on: it takes an answer, is rerun, ends or is deleted.
LEMMA MovesOnStory ==
    ASSUME None \notin Requests, Storied, UNCHANGED <<snapshot, req>>, open' \subseteq open,
           NEW type \in MoveOns, NEW n \in Nodes \cup {None}, TaskMoves(type, n)
    PROVE  Storied'
<1> DEFINE e == TaskEvent(type, n)
<1>1. e \in Events /\ e.type = type /\ e.by = None /\ log' = Append(log, e)
    BY TaskEventFacts DEF TaskMoves, Insert, TaskTypes, MoveOns
<1> HIDE DEF e
<1>2. Goes(e)
    BY <1>1 DEF Goes
<1> QED BY <1>1, <1>2, Beside DEF Storied, Recorded, WellTyped

LEMMA AskStory ==
    ASSUME None \notin Requests, Storied, NEW n \in Nodes, Ask(n)
    PROVE  Storied'
<1> DEFINE e == TaskEvent("asked", n)
           input == [k \in Keys |-> None]
<1>1. e \in Events /\ e.type = "asked" /\ e.by = None /\ log' = Append(log, e)
    BY TaskEventFacts DEF Ask, TaskMoves, Insert, TaskTypes
<1>2. /\ task' = "waiting" /\ open' = open \cup {n} /\ req' = req
      /\ snapshot' = [snapshot EXCEPT ![n] = input] /\ input \in Inputs
    BY DEF Ask, Inputs
<1>3. snapshot' \in [Nodes -> Inputs] /\ open' \subseteq Nodes
    BY <1>2 DEF Storied, Recorded, WellTyped
<1>4. \A m \in Nodes : Waits(m) => Waits(m)'
    BY <1>2 DEF Waits
<1>5. Goes(e)
    BY <1>2, <1>4 DEF Goes
<1> QED BY <1>1, <1>2, <1>3, <1>5, Beside

LEMMA RestStory ==
    ASSUME None \notin Requests, Storied, UNCHANGED <<task, open, snapshot, log, req>>
    PROVE  Storied'
<1>1. Silent
    BY DEF Silent, Waits
<1> QED BY <1>1, Beside DEF Storied, Recorded, WellTyped

LEMMA StoriedInit == ASSUME Init PROVE Storied
<1>1. WellTyped
    BY DEF Init, WellTyped, Inputs
<1>2. \A r \in Requests : req[r] = Blank /\ Blank.pc = "idle" /\ Blank.since = 0
    BY DEF Init, Blank
<1>3. \A r \in Requests : Own(r) = {} /\ Types(r) = {}
    BY DEF Init, Own, Types
<1>4. \A r \in Requests : Sound(req[r]) /\ Chapter(r) /\ Watched(r)
    BY <1>2, <1>3, RouteFacts DEF Sound, Chapter, Watched, Working, At, Init
<1>5. InOrder /\ EndsRecorded
    BY <1>3 DEF InOrder, EndsRecorded
<1> QED BY <1>1, <1>4, <1>5 DEF Storied, Recorded

LEMMA StoriedNext ==
    ASSUME None \notin Requests, CallsAssumption, Storied, [Next]_vars
    PROVE  Storied'
<1>1. ASSUME NEW r \in Requests, Call(r) \/ Handle(r) \/ Cancel(r)
      PROVE  Storied'
    BY <1>1, CallStory, CheckWaitingStory, RecordEventStory, WaitingExecutionStory, RunNodeStory,
       ResultStory, ReadDraftStory, WriteDraftStory, CancelStory DEF Handle
<1>2. ASSUME NEW n \in Nodes, Ask(n)
      PROVE  Storied'
    BY <1>2, AskStory
<1>3. ASSUME NEW n \in Nodes, Answer(n)
      PROVE  Storied'
    BY <1>3, MovesOnStory DEF Answer, MoveOns
<1>4. CASE Rerun
    BY <1>4, MovesOnStory DEF Rerun, MoveOns
<1>5. CASE Leave
    <2>1. CASE UNCHANGED <<task, log>>
        BY <1>5, <2>1, RestStory DEF Leave
    <2>2. CASE TaskMoves("ended", None)
        BY <1>5, <2>2, MovesOnStory DEF Leave, MoveOns
    <2> QED BY <1>5, <2>1, <2>2 DEF Leave
<1>6. CASE Archive
    BY <1>6, MovesOnStory DEF Archive, MoveOns
<1>7. CASE UNCHANGED vars
    BY <1>7, RestStory DEF vars, rows
<1> QED
    BY <1>1, <1>2, <1>3, <1>4, <1>5, <1>6, <1>7 DEF Next

----------------------------------------------------------------------------
(* Whatever an input holds, an event says who saved it.                       *)

SavedIn(l, n, k, x) == SavedBefore(l, Len(l) + 1, n, k, x)
TracedInput(l, n, input) == \A k \in Keys : input[k] # None => SavedIn(l, n, k, input[k])

\* A request that is about to write has read such an input, and one about to tell
\* that it succeeded has its result saved.
Vouched(l, q) ==
    /\ q.pc = "write_draft" => TracedInput(l, q.node, q.read)
    /\ q.pc \in Working /\ q.next = "succeeded" => SavedIn(l, q.node, q.route.key, q.value)

Traced ==
    /\ \A n \in Nodes : TracedInput(log, n, snapshot[n])
    /\ \A r \in Requests : Vouched(log, req[r])
    /\ SavedFirst

\* The log grows by an event, which tells of a success only after the draft.
Grows ==
    \/ log' = log
    \/ \E e \in Events : /\ log' = Append(log, e)
                         /\ e.type = "succeeded" => SavedIn(log, e.node, e.key, e.value)

LEMMA SavedStays ==
    ASSUME WellTyped, Grows
    PROVE  /\ \A n, k, x : SavedIn(log, n, k, x) => SavedIn(log', n, k, x)
           /\ \A n, input : TracedInput(log, n, input) => TracedInput(log', n, input)
           /\ \A q : Vouched(log, q) => Vouched(log', q)
<1>1. Len(log) \in Nat /\ Len(log') \in Nat /\ Len(log) <= Len(log') /\ \A i \in 1..Len(log) : log'[i] = log[i]
    BY DEF WellTyped, Grows
<1>2. \A n, k, x : SavedIn(log, n, k, x) => SavedIn(log', n, k, x)
    BY <1>1 DEF SavedIn, SavedBefore
<1>3. \A n, input : TracedInput(log, n, input) => TracedInput(log', n, input)
    BY <1>2 DEF TracedInput
<1> QED
    BY <1>2, <1>3 DEF Vouched

LEMMA SavedFirstStays ==
    ASSUME WellTyped, SavedFirst, Grows
    PROVE  SavedFirst'
<1>1. CASE log' = log
    BY <1>1 DEF SavedFirst, Own
<1>2. ASSUME NEW e \in Events, log' = Append(log, e),
             e.type = "succeeded" => SavedIn(log, e.node, e.key, e.value)
      PROVE  SavedFirst'
    <2> SUFFICES ASSUME NEW r \in Requests, NEW i \in Own(r)', log'[i].type = "succeeded"
                 PROVE  SavedBefore(log', i, log'[i].node, log'[i].key, log'[i].value)
        BY DEF SavedFirst
    <2>1. /\ Len(log') = Len(log) + 1 /\ Len(log) \in Nat
          /\ log'[Len(log) + 1] = e /\ \A j \in 1..Len(log) : log'[j] = log[j]
        BY <1>2 DEF WellTyped
    <2>2. Own(r) = {j \in 1..Len(log) : log[j].by = r} /\ Own(r)' \subseteq Own(r) \cup {Len(log) + 1}
        BY <1>2, OwnIs, OwnGrows
    <2>3. CASE i \in Own(r)
        <3>1. i \in 1..Len(log) /\ log'[i] = log[i]
            BY <2>1, <2>2, <2>3
        <3>2. SavedBefore(log, i, log[i].node, log[i].key, log[i].value)
            BY <2>3, <3>1 DEF SavedFirst
        <3> QED BY <2>1, <3>1, <3>2 DEF SavedBefore
    <2>4. CASE i = Len(log) + 1
        BY <1>2, <2>1, <2>4 DEF SavedIn, SavedBefore
    <2> QED BY <2>2, <2>3, <2>4
<1> QED BY <1>1, <1>2 DEF Grows

\* A step in which one request goes on, or none.
LEMMA TracedTurns ==
    ASSUME WellTyped, Traced, Grows, \A n \in Nodes : TracedInput(log', n, snapshot'[n]),
           \/ req' = req
           \/ \E r \in Requests : \E q : Set(r, q) /\ Vouched(log', q)
    PROVE  Traced'
<1>1. \A r \in Requests : Vouched(log', req'[r])
    BY SavedStays DEF Traced, Set, WellTyped
<1> QED BY <1>1, SavedFirstStays DEF Traced

\* One that leaves the inputs as they were.
LEMMA TracedGoesOn ==
    ASSUME WellTyped, Traced, Grows, snapshot' = snapshot, NEW r \in Requests, NEW q,
           Set(r, q), Vouched(log', q)
    PROVE  Traced'
<1>1. \A n \in Nodes : TracedInput(log', n, snapshot'[n])
    BY SavedStays DEF Traced
<1> QED BY <1>1, TracedTurns

\* A request that ends, or goes to tell that it failed.
LEMMA TracedEnds ==
    ASSUME Storied, Traced, Grows, snapshot' = snapshot, NEW r \in Requests,
           Raised(r) \/ \E how \in {"raised", "returned", "cancelled"} : Finish(r, how)
    PROVE  Traced'
<1>1. WellTyped /\ req[r] \in Request /\ Blank \in Request
    BY Remembered, RouteFacts
<1>2. ASSUME NEW how \in {"raised", "returned", "cancelled"}, Finish(r, how)
      PROVE  Traced'
    <2> DEFINE q == [Blank EXCEPT !.pc = how, !.since = req[r].since]
    <2>1. q.pc = how
        BY <1>1 DEF Request
    <2> HIDE DEF q
    <2>2. Vouched(log', q)
        BY <2>1 DEF Vouched, Working
    <2>3. Set(r, q)
        BY <1>2 DEF Finish, q
    <2> QED BY <1>1, <2>2, <2>3, TracedGoesOn
<1>3. CASE Set(r, [req[r] EXCEPT !.pc = "check", !.next = "failed"])
    <2> DEFINE q == [req[r] EXCEPT !.pc = "check", !.next = "failed"]
    <2>1. q.pc = "check" /\ q.next = "failed"
        BY <1>1 DEF Request
    <2>2. Set(r, q)
        BY <1>3
    <2> HIDE DEF q
    <2>3. Vouched(log', q)
        BY <2>1 DEF Vouched
    <2> QED BY <1>1, <2>2, <2>3, TracedGoesOn
<1> QED BY <1>2, <1>3 DEF Raised

\* A request that works on, with what it has to tell.
LEMMA TracedWorks ==
    ASSUME Storied, Traced, UNCHANGED rows, NEW r \in Requests, req[r].pc \in Working, NEW q,
           Set(r, q), Same(q, req[r]), q.pc # "write_draft", q.next = req[r].next
    PROVE  Traced'
<1>1. WellTyped /\ Grows /\ snapshot' = snapshot
    BY Remembered DEF rows, Grows
<1>2. Vouched(log, q)
    BY DEF Traced, Vouched, Same
<1> QED BY <1>1, <1>2, SavedStays, TracedGoesOn

LEMMA TracedGoto ==
    ASSUME Storied, Traced, UNCHANGED rows, NEW r \in Requests, req[r].pc \in Working,
           NEW pc \in {"record", "run", "read_draft"}, Goto(r, pc)
    PROVE  Traced'
<1> DEFINE q == [req[r] EXCEPT !.pc = pc]
<1>1. req[r] \in Request
    BY Remembered
<1>2. q.pc = pc /\ q.next = req[r].next /\ Same(q, req[r])
    BY <1>1 DEF Request, Same
<1>3. Set(r, q)
    BY DEF Goto
<1> HIDE DEF q
<1> QED BY <1>2, <1>3, TracedWorks

\* A draft that is saved, by this request or by another before.
LEMMA TracedSaved ==
    ASSUME Storied, Traced, Grows, NEW r \in Requests, req[r].pc \in Working, Saved(r),
           \A n \in Nodes : TracedInput(log', n, snapshot'[n]),
           SavedIn(log', req[r].node, req[r].route.key, req[r].value)
    PROVE  Traced'
<1>1. WellTyped /\ req[r] \in Request /\ Blank \in Request
    BY Remembered, RouteFacts
<1>2. CASE Finish(r, "returned")
    <2> DEFINE q == [Blank EXCEPT !.pc = "returned", !.since = req[r].since]
    <2>1. q.pc = "returned"
        BY <1>1 DEF Request
    <2> HIDE DEF q
    <2>2. Vouched(log', q)
        BY <2>1 DEF Vouched, Working
    <2>3. Set(r, q)
        BY <1>2 DEF Finish, q
    <2> QED BY <1>1, <2>2, <2>3, TracedTurns
<1>3. CASE Set(r, [req[r] EXCEPT !.pc = "check", !.next = "succeeded"])
    <2> DEFINE q == [req[r] EXCEPT !.pc = "check", !.next = "succeeded"]
    <2>1. q.pc = "check" /\ Same(q, req[r])
        BY <1>1 DEF Request, Same
    <2>2. Set(r, q)
        BY <1>3
    <2> HIDE DEF q
    <2>3. Vouched(log', q)
        BY <2>1 DEF Vouched, Same
    <2> QED BY <1>1, <2>2, <2>3, TracedTurns
<1> QED BY <1>2, <1>3 DEF Saved

LEMMA CallTraced ==
    ASSUME CallsAssumption, Storied, Traced, NEW r \in Requests, Call(r)
    PROVE  Traced'
<1>1. PICK c \in Calls : Set(r, Called(c))
    BY DEF Call, Called
<1> DEFINE q == Called(c)
<1>2. WellTyped /\ Grows /\ snapshot' = snapshot
    BY Remembered DEF Call, rows, Grows
<1>3. q.pc \in {"read_draft", "check"} /\ q.next = "started"
    BY <1>2, CalledFacts
<1> HIDE DEF q
<1>4. Vouched(log', q)
    BY <1>3 DEF Vouched
<1> QED BY <1>1, <1>2, <1>4, TracedGoesOn DEF q

LEMMA RecordEventTraced ==
    ASSUME Storied, Traced, NEW r \in Requests, RecordEvent(r)
    PROVE  Traced'
<1> DEFINE next == req[r].next
           e == Event(next, r)
           q == [req[r] EXCEPT !.next = "run", !.pc = IF req[r].route.looks THEN "look" ELSE "run"]
<1>1. /\ WellTyped /\ Sound(req[r]) /\ req[r] \in Request /\ req[r].pc = "record" /\ req[r].pc \in Working
      /\ next \in {"started", "succeeded", "failed"} /\ snapshot' = snapshot
    BY Remembered DEF RecordEvent, At, Working, Sound
<1>2. /\ e \in Events /\ e.type = next /\ log' = Append(log, e)
      /\ e.node = req[r].node /\ e.key = req[r].route.key /\ e.value = req[r].value
    BY <1>1, EventFacts DEF RecordEvent, Insert
<1>3. Grows
    BY <1>1, <1>2 DEF Grows, Traced, Vouched
<1>4. CASE next = "started" /\ Set(r, q)
    <2>1. q.pc # "write_draft" /\ q.next = "run"
        BY <1>1 DEF Request
    <2> HIDE DEF q
    <2>2. Vouched(log', q)
        BY <2>1 DEF Vouched
    <2> QED BY <1>1, <1>3, <1>4, <2>2, TracedGoesOn
<1>5. CASE \E how \in {"raised", "returned", "cancelled"} : Finish(r, how)
    BY <1>1, <1>3, <1>5, TracedEnds
<1> QED BY <1>1, <1>4, <1>5 DEF RecordEvent

LEMMA RunNodeTraced ==
    ASSUME Storied, Traced, NEW r \in Requests, RunNode(r)
    PROVE  Traced'
<1> DEFINE q == [req[r] EXCEPT !.calls = @ - 1]
<1>1. req[r] \in Request /\ req[r].pc = "run" /\ req[r].pc \in Working /\ UNCHANGED rows
    BY Remembered DEF RunNode, At, Working
<1>2. CASE Set(r, q)
    <2>1. q.pc = "run" /\ q.next = req[r].next /\ Same(q, req[r])
        BY <1>1 DEF Request, Same
    <2> HIDE DEF q
    <2> QED BY <1>1, <1>2, <2>1, TracedWorks
<1>3. CASE Raised(r)
    BY <1>1, <1>3, TracedEnds DEF rows, Grows
<1> QED BY <1>2, <1>3 DEF RunNode

LEMMA ReadDraftTraced ==
    ASSUME Storied, Traced, None \notin Values, NEW r \in Requests, ReadDraft(r)
    PROVE  Traced'
<1> DEFINE n == req[r].node
           key == req[r].route.key
           q == [req[r] EXCEPT !.pc = "write_draft", !.read = snapshot[n]]
<1>1. /\ WellTyped /\ Sound(req[r]) /\ req[r] \in Request /\ req[r].pc = "read_draft"
      /\ req[r].pc \in Working /\ UNCHANGED rows /\ Grows /\ log' = log /\ snapshot' = snapshot
    BY Remembered DEF ReadDraft, At, Working, rows, Grows
<1>2. n \in Nodes /\ key \in Keys /\ req[r].value \in Values
    BY <1>1, RouteFacts DEF Sound, Request
<1>3. CASE Raised(r)
    BY <1>1, <1>3, TracedEnds
<1>4. CASE snapshot[n][key] = req[r].value /\ Saved(r)
    <2>1. SavedIn(log, n, key, req[r].value)
        BY <1>2, <1>4 DEF Traced, TracedInput
    <2> QED BY <1>1, <1>4, <2>1, TracedSaved DEF Traced
<1>5. CASE Set(r, q)
    <2>1. q.pc = "write_draft" /\ q.next = req[r].next /\ Same(q, req[r]) /\ q.read = snapshot[n]
        BY <1>1 DEF Request, Same
    <2> HIDE DEF q
    <2>2. Vouched(log', q)
        BY <1>1, <1>2, <2>1 DEF Traced, Vouched, Same
    <2> QED BY <1>1, <1>5, <2>2, TracedGoesOn
<1> QED BY <1>3, <1>4, <1>5 DEF ReadDraft

LEMMA WriteDraftTraced ==
    ASSUME Storied, Traced, NEW r \in Requests, WriteDraft(r)
    PROVE  Traced'
<1> DEFINE n == req[r].node
           key == req[r].route.key
           e == Event("saved", r)
           input == [req[r].read EXCEPT ![key] = req[r].value]
<1>1. /\ WellTyped /\ Sound(req[r]) /\ req[r] \in Request /\ req[r].pc = "write_draft"
      /\ req[r].pc \in Working /\ snapshot \in [Nodes -> Inputs]
    BY Remembered DEF WriteDraft, At, Working
<1>2. n \in Nodes /\ key \in Keys /\ req[r].read \in Inputs
    BY <1>1, RouteFacts DEF Sound, Request
<1>3. CASE n \notin open
    BY <1>3, TracedEnds DEF WriteDraft, Grows
<1>4. CASE n \in open
    <2>1. log' = Append(log, e) /\ snapshot' = [snapshot EXCEPT ![n] = input] /\ Saved(r)
        BY <1>4 DEF WriteDraft, Insert
    <2>2. /\ e \in Events /\ e.type = "saved" /\ e.node = n /\ e.key = key /\ e.value = req[r].value
        BY <1>1, EventFacts
    <2> HIDE DEF e
    <2>3. Grows
        BY <2>1, <2>2 DEF Grows
    <2>4. SavedIn(log', n, key, req[r].value)
        <3>1. Len(log') = Len(log) + 1 /\ Len(log) \in Nat /\ log'[Len(log) + 1] = e
            BY <1>1, <2>1, <2>2 DEF WellTyped
        <3> QED BY <2>2, <3>1 DEF SavedIn, SavedBefore
    <2>5. TracedInput(log', n, input)
        <3>1. TracedInput(log', n, req[r].read)
            BY <1>1, <2>3, SavedStays DEF Traced, Vouched
        <3> QED BY <1>2, <2>4, <3>1 DEF TracedInput, Inputs
    <2>6. \A m \in Nodes : TracedInput(log', m, snapshot'[m])
        <3>1. \A m \in Nodes : TracedInput(log', m, snapshot[m])
            BY <1>1, <2>3, SavedStays DEF Traced
        <3> HIDE DEF input
        <3> QED BY <1>1, <1>2, <2>1, <2>5, <3>1
    <2> QED BY <1>1, <2>1, <2>3, <2>4, <2>6, TracedSaved
<1> QED BY <1>3, <1>4

\* The steps beside the requests: a question comes with an input of its own.
LEMMA BesideTraced ==
    ASSUME Storied, Traced, req' = req,
           \/ log' = log
           \/ \E type \in TaskTypes, n \in Nodes \cup {None} : TaskMoves(type, n),
           \/ snapshot' = snapshot
           \/ \E n \in Nodes : snapshot' = [snapshot EXCEPT ![n] = [k \in Keys |-> None]]
    PROVE  Traced'
<1>1. WellTyped /\ snapshot \in [Nodes -> Inputs]
    BY DEF Storied, Recorded, WellTyped
<1>2. Grows
    <2>1. ASSUME NEW type \in TaskTypes, NEW n \in Nodes \cup {None}, TaskMoves(type, n)
          PROVE  Grows
        <3> DEFINE e == TaskEvent(type, n)
        <3>1. e \in Events /\ e.type = type /\ log' = Append(log, e)
            BY <2>1, TaskEventFacts DEF TaskMoves, Insert
        <3> HIDE DEF e
        <3> QED BY <3>1 DEF Grows, TaskTypes
    <2> QED BY <2>1 DEF Grows
<1>3. \A n \in Nodes : TracedInput(log', n, snapshot[n])
    BY <1>1, <1>2, SavedStays DEF Traced
<1>4. \A n \in Nodes : TracedInput(log', n, snapshot'[n])
    BY <1>1, <1>3 DEF TracedInput
<1> QED BY <1>1, <1>2, <1>4, TracedTurns

LEMMA TracedInit == ASSUME Init PROVE Traced
<1>1. \A n \in Nodes : TracedInput(log, n, snapshot[n])
    BY DEF Init, TracedInput
<1>2. \A r \in Requests : req[r] = Blank /\ Blank.pc = "idle"
    BY DEF Init, Blank
<1>3. \A r \in Requests : Vouched(log, req[r])
    BY <1>2 DEF Vouched, Working
<1>4. SavedFirst
    BY DEF Init, SavedFirst, Own
<1> QED BY <1>1, <1>3, <1>4 DEF Traced

LEMMA TracedNext ==
    ASSUME None \notin Values, CallsAssumption, Storied, Traced, [Next]_vars
    PROVE  Traced'
<1>1. ASSUME NEW r \in Requests, Handle(r)
      PROVE  Traced'
    <2>1. CASE CheckWaiting(r)
        BY <2>1, TracedGoto, TracedEnds DEF CheckWaiting, At, Working, rows, Grows
    <2>2. CASE WaitingExecution(r) \/ Result(r)
        BY <2>2, TracedGoto, TracedEnds DEF WaitingExecution, Result, At, Working, rows, Grows
    <2> QED
        BY <1>1, <2>1, <2>2, RecordEventTraced, RunNodeTraced, ReadDraftTraced, WriteDraftTraced DEF Handle
<1>2. ASSUME NEW r \in Requests, Cancel(r)
      PROVE  Traced'
    BY <1>2, TracedEnds DEF Cancel, rows, Grows
<1>3. ASSUME NEW n \in Nodes, Answer(n) \/ Ask(n)
      PROVE  Traced'
    BY <1>3, BesideTraced DEF Answer, Ask, TaskTypes
<1>4. CASE Rerun \/ Leave \/ Archive
    BY <1>4, BesideTraced DEF Rerun, Leave, Archive, TaskTypes
<1>5. CASE UNCHANGED vars
    BY <1>5, BesideTraced DEF vars, rows
<1> QED
    BY <1>1, <1>2, <1>3, <1>4, <1>5, CallTraced DEF Next

----------------------------------------------------------------------------
\* The events of an interaction (_run_task_ai_interaction) tell one story, in
\* order, and none says that it succeeded before its result was saved; those of a
\* draft only that it was saved.  Whatever overlaps, whatever is rerun.
THEOREM StoriesAlwaysInOrder ==
    ASSUME None \notin Requests, CallsAssumption PROVE Spec => []StoriesInOrder
<1>1. Init => Storied /\ Traced
    BY StoriedInit, TracedInit
<1>2. Storied /\ Traced /\ [Next]_vars => (Storied /\ Traced)'
    BY StoriedNext, TracedNext, InteractionAssumption
<1>3. Storied /\ Traced => StoriesInOrder
    BY DEF Storied, Traced, InOrder, SavedFirst, SavedBefore, StoriesInOrder
<1> QED
    BY <1>1, <1>2, <1>3, PTL DEF Spec

\* An interaction whose start was recorded and that returned or raised has its end
\* recorded, unless the task moved on meanwhile: it took an answer, was rerun,
\* failed, succeeded or was deleted.
THEOREM EndsAlwaysRecorded ==
    ASSUME None \notin Requests, CallsAssumption PROVE Spec => []EndsRecorded
<1>1. Init => Storied
    BY StoriedInit
<1>2. Storied /\ [Next]_vars => Storied'
    BY StoriedNext
<1>3. Storied => EndsRecorded
    BY DEF Storied
<1> QED
    BY <1>1, <1>2, <1>3, PTL DEF Spec
=============================================================================
