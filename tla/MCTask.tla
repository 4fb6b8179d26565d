------------------------------- MODULE MCTask -------------------------------
(* Contracts small enough for TLC, for the runs of TaskRuntime.               *)
EXTENDS TaskProperties, TLC

E_(from, to) == [from |-> from, to |-> to, when |-> {}]
EIf(from, to, node, value) == [from |-> from, to |-> to,
                               when |-> {[node |-> node, equals |-> value]}]

AllKinds == {"create", "resume", "draft", "rerun", "delete"}
ButDrafts == AllKinds \ {"draft"}
DriverKinds == {"create", "resume", "rerun"}
Values == {"x", "y"}
Symmetric == Permutations(Requests)

----------------------------------------------------------------------------
(* Branch: a form, then an approval whose answer chooses a branch, a drawing  *)
(* beside it, and a join.  The join reads the branch that answer "y" leaves   *)
(* out: such a contract is valid, and its task fails.                         *)

BranchNodes == {"brief", "approve", "draw", "edit", "join"}
BranchRank == ("brief" :> 0) @@ ("approve" :> 1) @@ ("draw" :> 2) @@ ("edit" :> 3)
              @@ ("join" :> 4)
BranchEdges ==
    {E_("start", "brief"), E_("brief", "approve"), E_("brief", "draw"),
     EIf("approve", "edit", "approve", "x"), EIf("approve", "join", "approve", "y"),
     E_("edit", "join"), E_("draw", "join"), E_("join", "end")}
BranchReads == [n \in BranchNodes |->
    CASE n = "brief" -> {} [] n = "join" -> {"draw", "edit"} [] n = "edit" -> {"brief", "approve"}
      [] OTHER -> {"brief"}]
BranchYields == [n \in BranchNodes |-> IF n = "approve" THEN Values ELSE {"x"}]
BranchResults == [n \in BranchNodes |->
    CASE n = "approve" -> {"waiting"} [] n = "draw" -> {"succeeded", "failed"}
      [] OTHER -> {"succeeded"}]

----------------------------------------------------------------------------
(* Chain: an approval and the work behind it.                                 *)

ChainNodes == {"approve", "work"}
ChainRank == ("approve" :> 0) @@ ("work" :> 1)
ChainEdges == {E_("start", "approve"), E_("approve", "work"), E_("work", "end")}
ChainReads == ("approve" :> {}) @@ ("work" :> {"approve"})
ChainYields == [n \in ChainNodes |-> IF n = "approve" THEN Values ELSE {"x"}]
ChainResults == ("approve" :> {"waiting"}) @@ ("work" :> {"succeeded", "failed"})
ChainFormResults == ("approve" :> {"succeeded"}) @@ ("work" :> {"succeeded"})

----------------------------------------------------------------------------
(* Fork: two nodes side by side, the first of which asks.                      *)

ForkNodes == {"draw", "paint"}
ForkRank == ("draw" :> 0) @@ ("paint" :> 1)
ForkEdges == {E_("start", "draw"), E_("start", "paint"), E_("draw", "end"), E_("paint", "end")}
ForkReads == [n \in ForkNodes |-> {}]
ForkYields == [n \in ForkNodes |-> {"x"}]
ForkResults == ("draw" :> {"waiting"}) @@ ("paint" :> {"succeeded"})

=============================================================================
