\* Every handler is served; only drafts overlap with other requests.
SPECIFICATION FairSpec
CONSTANTS
    START = "start"
    END = "end"
    Nodes <- BranchNodes
    Rank <- BranchRank
    Edges <- BranchEdges
    Reads <- BranchReads
    Outputs <- Values
    Yields <- BranchYields
    Results <- BranchResults
    FormNodes = {"brief"}
    RerunNodes = {}
    Fields = {f1}
    Requests = {r1, r2, r3}
    Exclusive <- ButDrafts
PROPERTIES RequestsReturn TaskSettles
CHECK_DEADLOCK FALSE
