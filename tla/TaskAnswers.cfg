\* Requests overlap freely, on an approval that is answered with an output.
SPECIFICATION Spec
CONSTANTS
    START = "start"
    END = "end"
    Nodes <- ChainNodes
    Rank <- ChainRank
    Edges <- ChainEdges
    Reads <- ChainReads
    Outputs <- Values
    Yields <- ChainYields
    Results <- ChainResults
    FormNodes = {}
    RerunNodes = {}
    Fields = {}
    Requests = {r1, r2, r3, r4}
    Exclusive = {}
SYMMETRY Symmetric
CHECK_DEADLOCK FALSE
INVARIANTS AnswersMatchQuestions
