SPECIFICATION Spec
CONSTANTS
    Resources = {"water", "wood"}
    Rationed = {"water"}
    Ration = 1
    Workers = {"w1"}
    Makes <- MCMakes
    Output = 1
    Opening <- MCOpening
    Minimum <- MCMinimum
    Runs = {r1, r2}
    Clerks = {"clerk"}
    Amounts = {2}
    MaxDay = 1
    MaxCycles = 3
    MaxEvents = 2
    MaxFaults = 1
INVARIANTS
    TypeOK
    CollectedOnce
    OneAlertPerRun
    BooksBalance
SYMMETRY Symmetric
VIEW View
CHECK_DEADLOCK FALSE
