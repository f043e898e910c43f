SPECIFICATION FairSpec
CONSTANTS
    Handlers = {"put", "cron", "roster", "staff"}
    KindOf <- MCEach
    Replans = {"short", "long"}
    None = None
    Plans <- MCPlans
    Departs <- MCDeparts
    Arrives <- MCArrives
    DayLength = 2
    People = 1
    DailyRation = 1
    MaxTime = 4
    InitialFood = 2
    MinimumFood = 1
    InitialGoods = 3
    Requested = 2
    HistoryAcceptsInTransit = TRUE
    MayOverlap = FALSE
    MayFail = FALSE
    MayCrash = FALSE
INVARIANTS
    SettledMatchesStatus
    HistoryMatchesStatus
PROPERTIES
    ImplementsLifecycle
    ManualDepartureKeepsReserve
    UntouchedCompletes
CHECK_DEADLOCK FALSE
