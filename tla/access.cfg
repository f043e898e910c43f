CONSTANTS
    Requests = {q1, q2, q3}
    Camps = {k1, k2, k3}
    Roles = {"WORKER", "SYSTEM_ADMIN"}
    Sessions = {s1, s2}
    MaxTokens = 1
    MaxAttempts = 2
    Handlers = {h1, h2}
    MaxEvents = 4
    MaxFaults = 1
SPECIFICATION Spec
INVARIANTS ApprovedHasAccess AdmittedAtMost SessionsMatchAccounts ResetsBounded
SYMMETRY Symmetric
CHECK_DEADLOCK FALSE
