SPECIFICATION Spec
CONSTANTS
    h1 = h1
    h2 = h2
    w1 = w1
    w2 = w2
    acme = acme
    bolt = bolt
    sales = sales
    sparse = sparse
    junk = junk
    None = None
    Orgs = {acme}
    Uploads = {sales}
    ValidUploads <- MCValidUploads
    Modules = {"customer"}
    Params = {"p"}
    Outcome <- MCOutcome
    MaxDatasets = 1
    MaxJobs = 2
    Budget <- DeliveryFaults
    Handlers = {h1, h2}
    Workers = {w1, w2}
    Runners = {h1, h2, w1, w2}
    MaxTries = 2
    MaxClaims = 2
    SyncJobs = FALSE
SYMMETRY Processes
INVARIANTS
    TypeOK
    RowsAreConsistent
PROPERTIES
    SettledJobsStay
    RerunsFindTheFirstJob
CHECK_DEADLOCK FALSE
