SPECIFICATION Spec
CONSTANTS
    Requests = {"r1", "r2"}
    People = {"p1", "p2", "p3"}
    Amount <- MCAmount
    Named <- MCNamed
    ByTrade <- MCByTrade
    Crews <- MCCrews
    Stocks = {3, 5}
    Minimum = 1
    Starved = {"r2"}
INVARIANTS
    NobodyOnTwoTransfers
    CommitmentsFit
    RefusedDoesNotLeave
PROPERTIES
    ImplementsLifecycle
    NobodyLeftBehind
CHECK_DEADLOCK FALSE
