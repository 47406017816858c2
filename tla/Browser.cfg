CONSTANTS
    Page = {"dashboard", "hosts", "hosts_new", "tasks", "subnets", "repositories_page"}
    Hosts = "hosts"
    HostsNew = "hosts_new"
    NoPage = NoPage
    Scenarios <- AdminScenarios
    RequiredByDefault = {"hosts", "tasks"}
    Flow = {"hosts_details", "repositories", "hosts_new_details"}
    Flows <- AdminFlows
    Detail <- FlowDetail
    TracksPages = {"dashboard", "hosts", "tasks"}
    TracksFlows = {"hosts_details", "repositories"}
    i1 = i1
    i2 = i2
    Id = {i1, i2}
    Moments = 10
    Unit = 2
    Contents <- MCContents
    Timeout = 6
    Settle = 3
    Poll = 1
    ReadTime = 1
SYMMETRY IdSymmetry
\* evaluate_role returns or raises, a visit ends, and the clock is bounded.
CHECK_DEADLOCK FALSE
SPECIFICATION MCSpec
INVARIANTS
    OneVerdictPerPage
    ContractFollowsStatus
    NothingLeftRecording
    StepsAreRequests
    SweepFindsOverlap
    WaitIsHonest
PROPERTIES
    FirstResultStands
