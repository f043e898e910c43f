SPECIFICATION Spec
CONSTANTS
    Expeditions = {"e1", "e2"}
    People = {p1}
    Handlers = {"hour", "request"}
    JobsOf <- MCJobs
    Plans <- MCPlans
    Departs <- MCDeparts
    Returns <- MCReturns
    ExtraDays <- MCExtra
    PlansFor <- MCPlansFor
    Replans = {"later"}
    EditedTo = {"IN_PROGRESS", "CANCELED"}
    GivenTo = {"INACTIVE", "ACTIVE", "OUTSIDE_CAMP"}
    DayLength = 1
    MaxTime = 4
    MaxLoot = 2
INVARIANTS
    ProvisionedOnce
    UnderWayIsProvisioned
    LootedOnce
    PeopleFollowExpeditions
    OneExpeditionAtATime
PROPERTY EveryExpeditionEnds
CHECK_DEADLOCK FALSE
