SPECIFICATION Spec
CONSTANTS
    Handlers = {"put", "cron"}
    KindOf <- MCRace
    Replans = {}
    None = None
    Plans <- MCPlans
    Departs <- MCDeparts
    Arrives <- MCArrives
    DayLength = 2
    People = 1
    DailyRation = 1
    MaxTime = 4
    InitialFood = 2
    MinimumFood = 1
    InitialGoods = 3
    Requested = 2
    HistoryAcceptsInTransit = FALSE
    MayOverlap = FALSE
    MayFail = FALSE
    MayCrash = FALSE
INVARIANT SettledMatchesStatus
CHECK_DEADLOCK FALSE
