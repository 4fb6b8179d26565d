\* One driving request at a time; any node may be rerun, drafts and deletions
\* come in whenever they like, and the process may die.
SPECIFICATION CrashSpec
CONSTANTS
    START = "start"
    END = "end"
    Nodes <- BranchNodes
    Rank <- BranchRank
    Edges <- BranchEdges
    Reads <- BranchReads
    Outputs <- Values
    Yields <- BranchYields
    Results <- BranchResults
    FormNodes = {"brief"}
    RerunNodes <- BranchNodes
    Fields = {f1}
    Requests = {r1, r2, r3, r4}
    Exclusive <- DriverKinds
SYMMETRY Symmetric
INVARIANTS TypeOK OneCurrentExecution AttemptsInOrder BranchesDoneFirst InputsCurrent EventsTellTheRows WaitingIsAnswerable
PROPERTIES HistoryKept BoardShown ArchivedStays
CHECK_DEADLOCK FALSE
