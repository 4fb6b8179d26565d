------------------------------ MODULE TaskBoard ------------------------------
(* What a task promises to whoever looks at it: a board that shows of every   *)
(* node what its current execution does, and the phase the task is in.  No    *)
(* rows, no requests, no attempts: a node is started only when it is idle,    *)
(* leaves no state but by the way shown here, and is idle again only when it  *)
(* or a node above it is rerun.                                               *)
CONSTANTS
    Nodes,
    Below       \* Below[n]: the nodes a rerun of n clears, n among them

VARIABLES
    board,      \* board[n]: "idle", "running", "waiting", "failed" or "succeeded"
    phase       \* the status of the task, "none" before there is one
vars == <<board, phase>>

Init == board = [n \in Nodes |-> "idle"] /\ phase = "none"

Move(n, from, to) == board[n] = from /\ board' = [board EXCEPT ![n] = to]

Create == phase = "none" /\ phase' = "running" /\ UNCHANGED board
Start(n) == Move(n, "idle", "running") /\ UNCHANGED phase
Ask(n) == Move(n, "running", "waiting") /\ phase' = "waiting"
Answer(n) == Move(n, "waiting", "succeeded") /\ phase' = "running"
Submit(n) == Move(n, "waiting", "running") /\ phase' = "running"
Succeed(n) == Move(n, "running", "succeeded") /\ UNCHANGED phase
Fail(n) == Move(n, "running", "failed") /\ phase' = "failed"
Rerun(n) ==
    /\ board' = [m \in Nodes |-> IF m \in Below[n] THEN "idle" ELSE board[m]]
    /\ phase' = "running"
\* A task is not finished beside a question or a failure.
Finish ==
    /\ \A n \in Nodes : board[n] \notin {"waiting", "failed"}
    /\ phase' = "succeeded" /\ UNCHANGED board
GiveUp == phase' = "failed" /\ UNCHANGED board
Archive == phase' = "archived" /\ UNCHANGED board

Next ==
    \/ Create
    \/ /\ phase # "none"
       /\ \/ Finish \/ GiveUp \/ Archive
          \/ \E n \in Nodes :
              \/ Start(n) \/ Ask(n) \/ Answer(n) \/ Submit(n)
              \/ Succeed(n) \/ Fail(n) \/ Rerun(n)

Spec == Init /\ [][Next]_vars
=============================================================================
