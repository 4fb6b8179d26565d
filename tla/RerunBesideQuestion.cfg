\* A completed node is rerun while a node beside it waits.
SPECIFICATION Spec
CONSTANTS
    START = "start"
    END = "end"
    Nodes <- ForkNodes
    Rank <- ForkRank
    Edges <- ForkEdges
    Reads <- ForkReads
    Outputs <- Values
    Yields <- ForkYields
    Results <- ForkResults
    FormNodes = {}
    RerunNodes <- ForkNodes
    Fields = {}
    Requests = {r1, r2, r3, r4}
    Exclusive <- AllKinds
SYMMETRY Symmetric
INVARIANT NothingStuck
CHECK_DEADLOCK FALSE
