SPECIFICATION Spec
CONSTANTS
    h1 = h1
    h2 = h2
    w1 = w1
    w2 = w2
    acme = acme
    bolt = bolt
    sales = sales
    sparse = sparse
    junk = junk
    None = None
    Orgs = {acme}
    Uploads = {sales}
    ValidUploads <- MCValidUploads
    Modules = {"customer"}
    Params = {"p"}
    Outcome <- MCOutcome
    MaxDatasets = 1
    MaxJobs = 2
    Budget <- WorkerFaults
    Handlers = {h1}
    Workers = {w1}
    Runners = {h1, w1}
    MaxTries = 2
    MaxClaims = 2
    SyncJobs = FALSE
PROPERTIES
    RerunsAlwaysFindTheFirstJob
CHECK_DEADLOCK FALSE
