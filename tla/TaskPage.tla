-------------------------------- MODULE TaskPage --------------------------------
(* The page of one task: it reads the task's detail when it opens, follows    *)
(* the stream, and reads the detail again 150 ms after an event has come and  *)
(* when a request of its own is answered.                                     *)
(*                                                                            *)
(* A detail is three reads of the database, at three moments.  What a read    *)
(* sees is told by the length of the log then: each change of a task's rows   *)
(* comes with an event in the same transaction.                               *)
EXTENDS EventStream

CONSTANTS
    Own     \* the requests the page itself makes: "answer" (or rerun), "draft"

ASSUME OwnAssumption == Own \subseteq {"answer", "draft"}

VARIABLES
    fetching,   \* whether a detail is being read
    reads,      \* the versions it has read: task, node executions, events
    shown,      \* the versions the page shows; 0 is nothing, or a guess
    timer,      \* whether detailRefreshTimerRef is set
    error,      \* whether the page shows an error
    asked,      \* the request of its own under way, "none" if none
    said        \* the version of the task in the answer to it, 0 before it is made

pageVars == <<fetching, reads, shown, timer, error, asked, said>>
allVars == <<vars, pageVars>>

Parts == 1..3   \* task, node executions, events

\* Both effects of the page run when it opens: the detail is asked for, and
\* the stream may connect.
PageInit ==
    /\ Init
    /\ fetching = TRUE /\ reads = <<>> /\ shown = [k \in Parts |-> 0]
    /\ timer = FALSE /\ error = FALSE
    /\ asked = "none" /\ said = 0

----------------------------------------------------------------------------

\* Mutant: a refresh leaves a read under way to go on.
RefreshIdle ==
    /\ fetching' = TRUE /\ error' = FALSE
    /\ reads' = IF fetching THEN reads ELSE <<>>

\* A new refreshKey: a detail that is being read is given up for a new one.
Refresh == fetching' = TRUE /\ reads' = <<>> /\ error' = FALSE

ReadDetail ==
    /\ fetching /\ Len(reads) < 3 /\ life # "gone"
    /\ reads' = Append(reads, Len(log))
    /\ UNCHANGED <<vars, fetching, shown, timer, error, asked, said>>

ShowDetail ==
    /\ fetching /\ Len(reads) = 3
    /\ shown' = [k \in Parts |-> reads[k]]
    /\ fetching' = FALSE /\ reads' = <<>>
    /\ UNCHANGED <<vars, timer, error, asked, said>>

\* The task is gone, or the server cannot be reached.
FailDetail ==
    /\ fetching
    /\ fetching' = FALSE /\ reads' = <<>> /\ error' = TRUE
    /\ UNCHANGED <<vars, shown, timer, asked, said>>

\* Each event asks for a refresh; one that is due already will do.
OnEvent ==
    /\ ReceiveEvent
    /\ timer' = TRUE
    /\ UNCHANGED <<log, life, clock, stamp, breaks>>
    /\ UNCHANGED <<fetching, reads, shown, error, asked, said>>

Refreshed ==
    /\ timer /\ timer' = FALSE
    /\ Refresh
    /\ UNCHANGED <<vars, shown, asked, said>>

----------------------------------------------------------------------------
(* The page's own requests; what they write is written by the Writers.        *)

\* An answer is shown as "running" before it is sent.
Ask(kind) ==
    /\ asked = "none" /\ shown[1] # 0
    /\ asked' = kind
    /\ shown' = IF kind = "answer" THEN [shown EXCEPT ![1] = 0] ELSE shown
    /\ UNCHANGED <<vars, fetching, reads, timer, error, said>>

\* The handler ends with a read of the task.
Reply ==
    /\ asked # "none" /\ said = 0
    /\ said' = Len(log)
    /\ UNCHANGED <<vars, fetching, reads, shown, timer, error, asked>>

\* Mutant: the answer is shown again and again.
ShowReplyStays ==
    /\ said # 0
    /\ asked' = "none" /\ said' = said
    /\ \/ shown' = [shown EXCEPT ![1] = said]
       \/ asked = "answer" /\ UNCHANGED shown
    /\ IF asked = "answer" THEN Refresh ELSE UNCHANGED <<fetching, reads, error>>
    /\ UNCHANGED <<vars, timer>>

\* The task of the answer replaces the one shown; only an answer also
\* refreshes.  A refused answer refreshes all the same.
ShowReply ==
    /\ said # 0
    /\ asked' = "none" /\ said' = 0
    /\ \/ shown' = [shown EXCEPT ![1] = said]
       \/ asked = "answer" /\ UNCHANGED shown
    /\ IF asked = "answer" THEN Refresh ELSE UNCHANGED <<fetching, reads, error>>
    /\ UNCHANGED <<vars, timer>>

----------------------------------------------------------------------------

Elsewhere == (Tick \/ Write \/ Server) /\ UNCHANGED pageVars
Opens == Connect /\ UNCHANGED <<log, life, clock, stamp, breaks, pageVars>>
Disconnects == Lost /\ error' = TRUE /\ UNCHANGED <<fetching, reads, shown, timer, asked, said>>
LoadDetail == ReadDetail \/ ShowDetail \/ FailDetail

PageNext ==
    \/ Elsewhere \/ Opens \/ OnEvent \/ Disconnects
    \/ LoadDetail \/ Refreshed
    \/ (\E kind \in Own : Ask(kind)) \/ Reply \/ ShowReply

PageSpec == PageInit /\ [][PageNext]_allVars

\* The server serves the stream and the detail, the stream is opened, events
\* are received, and timers fire.
FairPage ==
    /\ PageSpec
    /\ WF_allVars(Server /\ UNCHANGED pageVars) /\ WF_allVars(Opens)
    /\ WF_allVars(OnEvent) /\ WF_allVars(LoadDetail) /\ WF_allVars(Refreshed)
    /\ WF_allVars(Reply \/ ShowReply)

----------------------------------------------------------------------------

\* The types; the parts of a detail are read one after the other.
PageTypeOK ==
    /\ StreamTypeOK
    /\ fetching \in BOOLEAN /\ timer \in BOOLEAN /\ error \in BOOLEAN
    /\ reads \in Seq(Nat) /\ Len(reads) <= 3 /\ (~fetching => reads = <<>>)
    /\ \A k \in DOMAIN reads : reads[k] <= Len(log)
    /\ shown \in [Parts -> 0..Len(log)]
    /\ asked \in Own \cup {"none"} /\ said \in 0..Len(log)
    /\ asked = "none" => said = 0

Shows(i) == \A k \in Parts : shown[k] >= i

\* A page that has nothing under way and no error to show shows the task at
\* least as new as every event it has received, in each part of it.
PageFollows ==
    ~timer /\ ~fetching /\ ~error /\ asked = "none" => \A i \in got : Shows(i)

Following == at \in {"list", "send"} /\ ~error

\* An event committed after the beginning of the stream changes the page in the
\* end, as long as the stream is up and no error is shown.
PageCatchesUp == \A i \in 1..MaxEvents :
    (Following /\ from < i /\ i <= Len(log)) ~> (Shows(i) \/ ~Following)
=============================================================================
