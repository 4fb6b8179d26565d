\* An answer arrives before the request that asked has looked at the row again.
SPECIFICATION Spec
CONSTANTS
    START = "start"
    END = "end"
    Nodes <- ChainNodes
    Rank <- ChainRank
    Edges <- ChainEdges
    Reads <- ChainReads
    Outputs <- Values
    Yields <- ChainYields
    Results <- ChainResults
    FormNodes = {}
    RerunNodes = {}
    Fields = {}
    Requests = {r1, r2}
    Exclusive = {}
SYMMETRY Symmetric
INVARIANT OneCurrentExecution
CHECK_DEADLOCK FALSE
