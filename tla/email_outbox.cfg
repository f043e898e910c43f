SPECIFICATION Spec
CONSTANTS
    Emails <- MCEmails
    Runs = {r1, r2}
    MaxAttempts <- MCMaxAttempts
    Delays <- MCDelays
    Lease = 2
    BatchSize = 2
    SendsWithinLease = TRUE
    MaxFaults = 1
INVARIANTS
    NotGivenUpEarly
    AtMostOnceButForFaults
PROPERTY EveryEmailSettles
CHECK_DEADLOCK FALSE
