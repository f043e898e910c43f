SPECIFICATION Spec
CONSTANTS
    Handlers = {"put", "cron"}
    KindOf <- MCRace
    Replans = {}
    None = None
    Plans <- MCPlans
    Departs <- MCDeparts
    Arrives <- MCArrives
    DayLength = 2
    People = 1
    DailyRation = 1
    MaxTime = 4
    InitialFood = 2
    MinimumFood = 1
    InitialGoods = 3
    Requested = 2
    HistoryAcceptsInTransit = TRUE
    MayOverlap = TRUE
    MayFail = FALSE
    MayCrash = FALSE
PROPERTY FinalStatusStable
CHECK_DEADLOCK FALSE
