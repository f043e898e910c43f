CONSTANTS
    Camps = {"k1", "k2"}
    FirstCamps <- MCFirstCamps
    Jobs <- MCJobs
    Trainers = {"t1", "t2"}
    Booter = "t1"
    Trees <- MCTrees
    Applicants <- MCApplicants
    MaxTrainings = 2
    MaxFaults = 1
    None = None
SPECIFICATION Spec
INVARIANTS OneActive Served AdvisedUnlessDisturbed ClearDecisions
CHECK_DEADLOCK FALSE
