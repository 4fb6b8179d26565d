------------------------------ MODULE EventStream ------------------------------
(* The stream beside the requests that write events.  A request takes the     *)
(* time for created_at before it opens its transaction, so events need not be *)
(* committed in the order of their times.                                     *)
EXTENDS TaskStream

CONSTANTS
    Writers,    \* requests that write events, one after the other or together
    MaxEvents,  \* bound on the log
    MaxClock,   \* bound on the clock
    MaxBreaks   \* bound on lost connections

ASSUME BoundsAssumption == MaxEvents \in Nat /\ MaxClock \in Nat /\ MaxBreaks \in Nat

VARIABLES
    clock,      \* the server's clock
    stamp,      \* stamp[w]: the time writer w has taken, 0 if none
    breaks      \* how many connections were lost

vars == <<log, life, clock, stamp, breaks, streamVars>>

Init ==
    /\ log = <<1>> /\ life = "live"     \* task_created
    /\ clock = 1 /\ stamp = [w \in Writers |-> 0] /\ breaks = 0
    /\ StreamInit

Tick ==
    /\ clock < MaxClock
    /\ clock' = clock + 1
    /\ UNCHANGED <<log, life, stamp, breaks, streamVars>>

TakeTime(w) ==
    /\ stamp[w] = 0
    /\ stamp' = [stamp EXCEPT ![w] = clock]
    /\ UNCHANGED <<log, life, clock, breaks, streamVars>>

\* One transaction: n events of one time, and the task's status.
Commit(w, n, l) ==
    /\ stamp[w] # 0
    /\ Len(log) + n <= MaxEvents
    /\ log' = log \o [k \in 1..n |-> stamp[w]]
    /\ life' = l
    /\ stamp' = [stamp EXCEPT ![w] = 0]
    /\ UNCHANGED <<clock, breaks, streamVars>>

Write == \E w \in Writers :
    \/ TakeTime(w)
    \/ \E n \in 1..2, l \in {"live", "over", "gone"} : Commit(w, n, l)

Page == (Connect \/ ReceiveEvent) /\ UNCHANGED <<log, life, clock, stamp, breaks>>
Server == Serve /\ UNCHANGED <<log, life, clock, stamp, breaks>>
Lost == breaks < MaxBreaks /\ Break /\ breaks' = breaks + 1 /\ UNCHANGED <<log, life, clock, stamp>>

Next == Tick \/ Write \/ Server \/ Page \/ Lost

Spec == Init /\ [][Next]_vars

\* The generator and the browser go on; writers and the network owe nothing.
FairSpec == Spec /\ WF_vars(Server) /\ WF_vars(Page)

----------------------------------------------------------------------------

OnWire == {wire[k] : k \in DOMAIN wire}

\* The types; the log has its first event, and only a stream that is sending
\* has events listed.
StreamTypeOK ==
    /\ log \in Seq(Nat) /\ Len(log) > 0 /\ life \in {"live", "over", "gone"}
    /\ at \in {"closed", "open", "list", "send", "ended"}
    /\ cursor \in 0..Len(log) /\ last \in 0..Len(log) /\ from \in 0..Len(log)
    /\ todo \subseteq DOMAIN log /\ (at # "send" => todo = {})
    /\ got \subseteq DOMAIN log
    /\ wire \in Seq(Nat) /\ OnWire \subseteq DOMAIN log
    /\ clock \in Nat /\ stamp \in [Writers -> Nat] /\ breaks \in Nat

\* While a stream is open, every event committed after its beginning has been
\* sent or listed, or lies behind the cursor and all that is listed, in
\* whatever order times and commits come.
NothingSkipped ==
    at \in {"list", "send"} =>
        \A i \in DOMAIN log : i > from =>
            \/ i \in got \cup OnWire \cup todo
            \/ \A j \in todo \cup {cursor} : i > j

\* Every event committed after the beginning reaches the page in the end,
\* unless the task is deleted or the page, with no event yet to name, has
\* begun again behind it.
EveryEventArrives ==
    \A i \in 1..MaxEvents :
        (from # 0 /\ from < i /\ i <= Len(log)) ~> (i \in got \/ i <= from \/ life = "gone")
=============================================================================
