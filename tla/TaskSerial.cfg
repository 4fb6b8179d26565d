\* One request at a time, beside which drafts may come; any node may be rerun.
SPECIFICATION Spec
CONSTANTS
    START = "start"
    END = "end"
    Nodes <- BranchNodes
    Rank <- BranchRank
    Edges <- BranchEdges
    Reads <- BranchReads
    Outputs <- Values
    Yields <- BranchYields
    Results <- BranchResults
    FormNodes = {"brief"}
    RerunNodes <- BranchNodes
    Fields = {f1}
    Requests = {r1, r2, r3, r4, r5}
    Exclusive <- ButDrafts
SYMMETRY Symmetric
INVARIANTS StuckForAReason SucceededIsComplete ViewIsCurrent
CHECK_DEADLOCK FALSE
