------------------------------ MODULE TaskStream ------------------------------
(* GET /api/tasks/{id}/stream: one page that follows the events of one task.  *)
(* The server lists the events behind a cursor, sends them one by one, looks  *)
(* at the task, stops when it has ended, and otherwise sleeps and begins anew. *)
(*                                                                            *)
(* Who writes the log is left to the modules that use this one: the actions   *)
(* here only read log and life.                                               *)
EXTENDS Naturals, Sequences

CONSTANT Reconnects \* whether the page opens the stream again, with Last-Event-ID

ASSUME ReconnectsAssumption == Reconnects \in BOOLEAN

VARIABLES
    log,        \* log[i]: created_at of the event of rowid i
    life,       \* the task: "live", "over" (succeeded or failed) or "gone" (archived)
    at,         \* where the generator is
    cursor,     \* cursor_event_id, as a rowid; 0 before the stream
    todo,       \* events listed and not yet sent
    wire,       \* events sent and not yet received
    got,        \* events received
    last,       \* the event received last, 0 before the first
    from        \* how long the log was when the first cursor was set

streamVars == <<at, cursor, todo, wire, got, last, from>>

StreamInit ==
    /\ at = "closed" /\ from = 0
    /\ cursor = 0 /\ todo = {} /\ wire = <<>>
    /\ got = {} /\ last = 0

----------------------------------------------------------------------------
(* The order of the queries: created_at, then rowid.                          *)

Earlier(i, j) == log[i] < log[j] \/ (log[i] = log[j] /\ i < j)
FirstOf(i, S) == i \in S /\ \A j \in S \ {i} : Earlier(i, j)
NewestOf(i, S) == i \in S /\ \A j \in S \ {i} : Earlier(j, i)

\* Mutant: events are looked for by their time, which others may share.
LaterThan(c) == {i \in DOMAIN log : log[i] > log[c]}
Behind(c) == {i \in DOMAIN log : i > c}

----------------------------------------------------------------------------
(* The server.                                                                *)

\* The first cursor: the header's, or else the newest event.
Begin ==
    /\ at = "open"
    /\ \/ life = "gone" /\ at' = "ended" /\ UNCHANGED <<cursor, from>>
       \/ /\ life # "gone" /\ last # 0
          /\ at' = "list" /\ cursor' = last
          /\ UNCHANGED from
       \/ /\ life # "gone" /\ last = 0
          /\ at' = "list" /\ from' = Len(log)
          /\ \E i \in DOMAIN log : NewestOf(i, DOMAIN log) /\ cursor' = i
    /\ UNCHANGED <<todo, wire, got, last>>

\* The listing, which an archived task refuses.
ListEvents ==
    /\ at = "list"
    /\ at' = IF life = "gone" THEN "ended" ELSE "send"
    /\ todo' = IF life = "gone" THEN {} ELSE Behind(cursor)
    /\ UNCHANGED <<cursor, wire, got, last, from>>

\* Mutant: the cursor goes to the newest event there is.
SendAndSkip ==
    /\ at = "send"
    /\ \E i \in todo :
          /\ FirstOf(i, todo)
          /\ wire' = Append(wire, i)
          /\ cursor' = Len(log)
          /\ todo' = todo \ {i}
    /\ UNCHANGED <<at, got, last, from>>

SendEvent ==
    /\ at = "send"
    /\ \E i \in todo :
          /\ FirstOf(i, todo)
          /\ wire' = Append(wire, i)
          /\ cursor' = i
          /\ todo' = todo \ {i}
    /\ UNCHANGED <<at, got, last, from>>

\* get_task is read after the events were: an ended task ends the stream.
CheckTask ==
    /\ at = "send" /\ todo = {}
    /\ at' = IF life = "live" THEN "list" ELSE "ended"
    /\ UNCHANGED <<cursor, todo, wire, got, last, from>>

Serve == Begin \/ ListEvents \/ SendEvent \/ CheckTask

----------------------------------------------------------------------------
(* The page and the connection.                                               *)

\* The page opens the stream when it is shown, and never again, unless it
\* reconnects as the API offers.
Connect ==
    /\ \/ at = "closed" /\ from = 0
       \/ at \in {"closed", "ended"} /\ Reconnects /\ wire = <<>>
    /\ at' = "open"
    /\ UNCHANGED <<cursor, todo, wire, got, last, from>>

ReceiveEvent ==
    /\ wire # <<>>
    /\ got' = got \cup {Head(wire)}
    /\ last' = Head(wire)
    /\ wire' = Tail(wire)
    /\ UNCHANGED <<at, cursor, todo, from>>

\* The connection breaks; what is under way is lost.
Break ==
    /\ at \in {"list", "send"}
    /\ at' = "closed"
    /\ todo' = {} /\ wire' = <<>>
    /\ UNCHANGED <<cursor, got, last, from>>
=============================================================================
